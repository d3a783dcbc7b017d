--------------------------- MODULE RequireRuntime ---------------------------
(***************************************************************************)
(* The module registry inside the app (require.runtime.ts): the cache of   *)
(* module functions, the cache of their results, the module graph, and the *)
(* React refresh that follows an update.                                   *)
(*                                                                         *)
(* JavaScript runs a whole message handler without interruption, so        *)
(* evaluating a bundle or an update is one step.  It is written as a       *)
(* composition of functions on the registry, in the order of the code.     *)
(*                                                                         *)
(* linked is the part of the JavaScript heap that matters: <<p, q>> is in  *)
(* it when the running code of p holds the very exports that the result    *)
(* cache has for q.  When q leaves the cache or is run again, whoever ran  *)
(* before keeps the older object and is linked to q no more.               *)
(***************************************************************************)
EXTENDS SourceFiles

Registry == [run    : [Module -> MaybeCode],
             result : [Module -> MaybeCode],
             graph  : [Module -> SUBSET Module],
             linked : SUBSET (Module \X Module)]

EmptyRegistry == [run    |-> NoCode,
                  result |-> NoCode,
                  graph  |-> [m \in Module |-> {}],
                  linked |-> {}]

Cached(reg) == Loaded(reg.result)

(* ModuleResultCache.delete for every module of D. *)
Forget(reg, D) ==
    [reg EXCEPT !.result = [m \in Module |-> IF m \in D THEN None ELSE @[m]],
                !.linked = {l \in @ : l[1] \notin D /\ l[2] \notin D}]

(* Mutants: the results are kept; the list of imports is taken for one. *)
MergeGraphOnly(reg, keys, code) ==
    [reg EXCEPT
        !.graph = [m \in Module |-> IF m \in keys THEN code[m].imports ELSE @[m]]]
MergeListAsImport(reg, keys, code) ==
    [Forget(reg, keys) EXCEPT
        !.graph = [m \in Module |-> IF m \in keys THEN {code[m].imports} ELSE @[m]]]

(* $UPDATE_MODULE_GRAPH: forget the results, then merge the new edges in. *)
UpdateModuleGraph(reg, keys, code) ==
    [Forget(reg, keys) EXCEPT
        !.graph = [m \in Module |-> IF m \in keys THEN code[m].imports ELSE @[m]]]

(* $COMMONJS for every module the evaluated code defines. *)
RegisterModules(reg, code) ==
    [reg EXCEPT !.run = [m \in Module |-> IF code[m] = None THEN @[m] ELSE code[m]]]

(***************************************************************************)
(* Requiring the modules of S: each that has no cached result is run from  *)
(* the run cache and requires its imports in turn.                         *)
(***************************************************************************)
ImportsToRun(reg) ==
    [m \in Module |-> IF reg.run[m] = None THEN {}
                      ELSE reg.run[m].imports \ Cached(reg)]

Executed(reg, S) == Closure(S \ Cached(reg), ImportsToRun(reg))

Require(reg, S) ==
    LET X == Executed(reg, S)
    IN  [reg EXCEPT
            !.result = [m \in Module |-> IF m \in X THEN reg.run[m] ELSE @[m]],
            !.linked = @ \cup {l \in X \X Module : /\ reg.run[l[1]] # None
                                                   /\ l[2] \in reg.run[l[1]].imports}]
-----------------------------------------------------------------------------
(***************************************************************************)
(* $PERFORM_REFRESH.                                                       *)
(***************************************************************************)

(* A module none of whose exports is something else than a component. *)
IsRefreshBoundary(reg, m) ==
    /\ reg.result[m] # None
    /\ reg.result[m].exports \in {"components", "empty"}

Importers(reg, m) == {p \in Module : m \in reg.graph[p]}

(* Where find_refresh_boundaries goes from a module: nowhere if it is a     *)
(* boundary, to all of its importers otherwise.                             *)
WalkStep(reg) ==
    [m \in Module |-> IF IsRefreshBoundary(reg, m) THEN {} ELSE Importers(reg, m)]

(* modules_to_rerun, when the walk completes. *)
Visited(reg, replace) == Closure(replace, WalkStep(reg))

ReachesRoot(reg, replace) ==
    \E m \in Visited(reg, replace) :
        ~IsRefreshBoundary(reg, m) /\ Importers(reg, m) = {}

(* The walk keeps no record of where it has been: on a cycle of importers  *)
(* none of which is a boundary it recurses until the stack overflows.      *)
Overflows(reg, replace) ==
    \E m \in Visited(reg, replace) :
        m \in Closure(WalkStep(reg)[m], WalkStep(reg))

Boundaries(reg, replace) ==
    {m \in Visited(reg, replace) : IsRefreshBoundary(reg, m)}

(* Mutant: only the boundaries are run again, not what lies below them. *)
ToForgetBoundaries(reg, replace) == Boundaries(reg, replace) \ replace

(* The results dropped before the boundaries are required again. *)
ToForget(reg, replace) == Visited(reg, replace) \ replace

Refreshed(reg, replace) ==
    Require(Forget(reg, ToForget(reg, replace)), Boundaries(reg, replace))

(***************************************************************************)
(* What a refresh may end in.  `every` stops at the first importer that    *)
(* reaches the root, so with a root and a cycle in sight the order of the  *)
(* importers decides.  Only "refreshed" changes the registry.              *)
(***************************************************************************)
Outcomes(reg, replace) ==
    LET root  == ReachesRoot(reg, replace)
        cycle == Overflows(reg, replace)
    IN  {o \in {"refreshed", "full_refresh_needed", "failed"} :
            /\ o = "refreshed" => ~root /\ ~cycle
            /\ o = "full_refresh_needed" => root
            /\ o = "failed" => cycle}

PerformRefresh(reg, replace, o) ==
    IF o = "refreshed" THEN Refreshed(reg, replace) ELSE reg
-----------------------------------------------------------------------------
VARIABLES
    registry,  \* the module registry of the running app
    outcome    \* how the latest bundle or update ended

clientVars == <<registry, outcome>>

(* The app starts: banner, graph, modules, entry point. *)
RunBundle(code) ==
    /\ registry' = Require(RegisterModules(
                             UpdateModuleGraph(EmptyRegistry, Loaded(code), code),
                             code),
                           {Entry})
    /\ outcome' = "started"

(* The payload is evaluated: graph, modules, then `require` of the modules *)
(* to replace.                                                             *)
Evaluated(reg, u) ==
    Require(RegisterModules(UpdateModuleGraph(reg, u.graph, u.code), u.code),
            u.replace)

(* The message handler of ws-client.runtime.ts. *)
HandleMessage(u) ==
    LET reg == Evaluated(registry, u)
    IN  /\ outcome' \in Outcomes(reg, u.replace)
        /\ registry' = PerformRefresh(reg, u.replace, outcome')

(* DevSettings.reload or a restart of the app: the JavaScript heap is gone. *)
DropRegistry ==
    /\ registry' = EmptyRegistry
    /\ outcome' = "none"

ClientInit ==
    /\ registry = EmptyRegistry
    /\ outcome = "none"

ClientTypeOK ==
    /\ registry \in Registry
    /\ outcome \in {"none", "started", "refreshed", "full_refresh_needed", "failed"}
=============================================================================
