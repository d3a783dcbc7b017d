---------------------------- MODULE RefreshWalk ----------------------------
(***************************************************************************)
(* $PERFORM_REFRESH as it is written.  find_refresh_boundaries is a        *)
(* depth-first recursion up the importers that adds to two sets and stops, *)
(* through `every`, at the first importer from which there is no boundary; *)
(* then the boundaries are required, one by one, as in RequireFn.          *)
(* RequireRuntime states what all this computes as closures of relations;  *)
(* here it is computed, with the importers and the boundaries in any order *)
(* that the insertions into the Maps and Sets may have given them.         *)
(***************************************************************************)
EXTENDS RequireFn

CONSTANT Registries  \* the registries in which a refresh may begin

ASSUME RegistriesAssumption == Registries \subseteq Registry

VARIABLES
    before,      \* the registry in which the refresh began
    replace,     \* modules_to_replace
    first,       \* the part of it for which the walk has yet to be called
    path,        \* the calls of find_refresh_boundaries, the innermost last
    rerun,       \* modules_to_rerun
    boundaries,  \* boundaries
    queue        \* the boundaries that have yet to be required

findVars == <<first, path, rerun, boundaries>>

walkVars == <<clientVars, callVars, before, replace, findVars, queue>>

(* todo: the importers for which `every` has yet to call. *)
WalkFrame == [module : Module, todo : SUBSET Module]

OnPath == {path[i].module : i \in 1..Len(path)}

ToCall == IF path = <<>> THEN first ELSE path[Len(path)].todo

(* The call for m answers TRUE, and `every` goes on. *)
StopAtBoundary(m) ==
    /\ m \notin OnPath
    /\ IsRefreshBoundary(registry, m)
    /\ boundaries' = boundaries \cup {m}
    /\ path' = Resume(path, m)
    /\ UNCHANGED outcome

(* It goes on to the importers of m. *)
Climb(m) ==
    /\ m \notin OnPath
    /\ ~IsRefreshBoundary(registry, m)
    /\ Importers(registry, m) # {}
    /\ path' = Append(Resume(path, m),
                      [module |-> m, todo |-> Importers(registry, m)])
    /\ UNCHANGED <<boundaries, outcome>>

(* Mutant: the call answers TRUE for a module that nothing imports. *)
PassRoot(m) ==
    /\ ~IsRefreshBoundary(registry, m)
    /\ Importers(registry, m) = {}
    /\ path' = Resume(path, m)
    /\ UNCHANGED <<boundaries, outcome>>

(* It answers FALSE, and so does every call on the path. *)
ReachRoot(m) ==
    /\ ~IsRefreshBoundary(registry, m)
    /\ Importers(registry, m) = {}
    /\ path' = <<>>
    /\ outcome' = "full_refresh_needed"
    /\ UNCHANGED boundaries

(* What a call does depends on its module alone: on its own path it recurs *)
(* until the stack overflows.                                              *)
Overflow(m) ==
    /\ m \in OnPath
    /\ path' = <<>>
    /\ outcome' = "failed"
    /\ UNCHANGED boundaries

FindRefreshBoundaries ==
    /\ outcome = "none"
    /\ \E m \in ToCall :
        /\ rerun' = rerun \cup {m}
        /\ first' = IF path = <<>> THEN first \ {m} ELSE first
        /\ StopAtBoundary(m) \/ Climb(m) \/ ReachRoot(m) \/ Overflow(m)
    /\ UNCHANGED <<registry, callVars, before, replace, queue>>

(* There are boundaries above every importer. *)
AnswerTrue ==
    /\ outcome = "none"
    /\ path # <<>>
    /\ path[Len(path)].todo = {}
    /\ path' = SubSeq(path, 1, Len(path) - 1)
    /\ UNCHANGED <<clientVars, callVars, before, replace, first, rerun, boundaries, queue>>

(* Mutant: what lies between the replaced modules and the boundaries stays. *)
ToRerunBoundaries == boundaries \ replace

ToRerun == rerun \ replace

(* can_refresh: the results on the way are dropped. *)
Refresh ==
    /\ outcome = "none"
    /\ path = <<>>
    /\ first = {}
    /\ outcome' = "refreshed"
    /\ registry' = Forget(registry, ToRerun)
    /\ queue' = boundaries
    /\ UNCHANGED <<callVars, before, replace, findVars>>

(* The next boundary is required, unless an earlier one has required it. *)
RefreshBoundary ==
    /\ stack = <<>>
    /\ \E b \in queue :
        /\ queue' = queue \ {b}
        /\ IF b \in Cached(registry) THEN UNCHANGED <<registry, callVars>>
                                     ELSE Call(b)
    /\ UNCHANGED <<outcome, before, replace, findVars>>

Rerun == CallStep /\ UNCHANGED <<outcome, before, replace, findVars, queue>>

WalkNext ==
    FindRefreshBoundaries \/ AnswerTrue \/ Refresh \/ RefreshBoundary \/ Rerun

WalkInit ==
    /\ CallInit
    /\ before \in Registries
    /\ registry = before
    /\ outcome = "none"
    /\ replace \in SUBSET Module
    /\ first = replace
    /\ path = <<>>
    /\ rerun = {}
    /\ boundaries = {}
    /\ queue = {}

WalkSpec == WalkInit /\ [][WalkNext]_walkVars
-----------------------------------------------------------------------------
(***************************************************************************)
(* The recursion ends as the closures of RequireRuntime say it may, and    *)
(* when it finds boundaries for everything, it has collected exactly the   *)
(* modules up to and including the nearest boundaries.                     *)
(***************************************************************************)
WalkAgrees ==
    outcome # "none" =>
        /\ outcome \in Outcomes(before, replace)
        /\ outcome = "refreshed" =>
              /\ rerun = Visited(before, replace)
              /\ boundaries = Boundaries(before, replace)

(***************************************************************************)
(* In whatever order boundaries and imports are required                   *)
(* (require.runtime.ts:191-201), once all are and none has thrown, every   *)
(* module on the way was run again and holds the new exports of its        *)
(* imports: all that RequireRuntime's single step says.                    *)
(***************************************************************************)
RerunAgrees ==
    outcome = "refreshed" /\ queue = {} /\ stack = <<>> /\ thrown = {} =>
        registry = Refreshed(before, replace)
=============================================================================
