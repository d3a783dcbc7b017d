----------------------------- MODULE RequireFn -----------------------------
(***************************************************************************)
(* `__require` of create_require_fn as it is written: a recursion through  *)
(* module functions, any of which may throw.  RequireRuntime takes a whole *)
(* require for one step in which nothing throws; here it is the call stack *)
(* of the JavaScript engine.  A module function requires its imports one   *)
(* by one, in any order; ErrorUtils.reportFatalError returns.              *)
(***************************************************************************)
EXTENDS RequireRuntime, Sequences

CONSTANT NodeModules  \* the modules whose identifier includes `node_modules/`

ASSUME NodeModulesAssumption == NodeModules \subseteq Module

VARIABLES
    stack,   \* the running module functions, the innermost one last
    owner,   \* the module for which $RefreshReg$ registers, or None
    runs,    \* how often every module function has been called
    thrown   \* the modules whose function has thrown

callVars == <<stack, owner, runs, thrown>>

(* app: run between prepare_ and reset_refresh_registration, which keep    *)
(* the earlier $RefreshReg$ in prev.  todo: what has yet to be required.   *)
Frame == [module : Module, todo : SUBSET Module, app : BOOLEAN,
          prev : Module \cup {None}]

CallInit ==
    /\ stack = <<>>
    /\ owner = None
    /\ runs = [m \in Module |-> 0]
    /\ thrown = {}

Top == stack[Len(stack)]

Callers == SubSeq(stack, 1, Len(stack) - 1)

(* Mutant: the result is cached when the module function has returned.     *)
EnteredUncached(reg, m) == reg

(* The registry when a module function is called: its exports are cached   *)
(* before, for the sake of circular imports, and empty so far.             *)
Entered(reg, m) ==
    [reg EXCEPT !.result = [@ EXCEPT ![m] = [reg.run[m] EXCEPT !.exports = "empty"]]]

(* module_fn is called by s: as a library or as app code.                  *)
Run(s, m, app) ==
    /\ stack' = Append(s, [module |-> m, todo |-> registry.run[m].imports,
                           app |-> app, prev |-> owner])
    /\ owner' = IF app THEN m ELSE owner
    /\ runs' = [runs EXCEPT ![m] = @ + 1]

(* A module without a cached result is required. *)
Call(m) ==
    /\ m \notin Cached(registry)
    /\ registry.run[m] # None
    /\ registry' = Entered(registry, m)
    /\ Run(stack, m, m \notin NodeModules)
    /\ UNCHANGED thrown

CallImport == stack # <<>> /\ \E m \in Top.todo : Call(m)

(* The caller has what it required, and goes on. *)
Resume(s, m) ==
    IF s = <<>> THEN s ELSE [s EXCEPT ![Len(s)].todo = @ \ {m}]

Linked(reg, s, m) ==
    IF s = <<>> THEN reg ELSE [reg EXCEPT !.linked = @ \cup {<<s[Len(s)].module, m>>}]

(* The cached exports are returned, finished or not. *)
Hit ==
    /\ stack # <<>>
    /\ \E m \in Top.todo \cap Cached(registry) :
        /\ stack' = Resume(stack, m)
        /\ registry' = Linked(registry, stack, m)
    /\ UNCHANGED <<owner, runs, thrown>>

(* The module function is done, with everything exported. *)
Return ==
    /\ stack # <<>>
    /\ Top.todo = {}
    /\ stack' = Resume(Callers, Top.module)
    /\ registry' = Linked([registry EXCEPT
                              !.result = [@ EXCEPT ![Top.module] = registry.run[Top.module]]],
                          Callers, Top.module)
    /\ owner' = IF Top.app THEN Top.prev ELSE owner
    /\ UNCHANGED <<runs, thrown>>

(* A library throws: after the report its function is called again, as app *)
(* code, with the exports it left.                                         *)
LibraryThrows ==
    /\ stack # <<>>
    /\ ~Top.app
    /\ Run(Callers, Top.module, TRUE)
    /\ thrown' = thrown \cup {Top.module}
    /\ UNCHANGED registry

(* Mutant: reset_refresh_registration is not in a `finally`. *)
RegistrarUnreset(f) == owner

RegistrarAfterThrow(f) == f.prev

(* App code throws: the require returns undefined, and the unfinished      *)
(* exports stay cached.                                                    *)
AppThrows ==
    /\ stack # <<>>
    /\ Top.app
    /\ stack' = Resume(Callers, Top.module)
    /\ owner' = RegistrarAfterThrow(Top)
    /\ thrown' = thrown \cup {Top.module}
    /\ UNCHANGED <<registry, runs>>

CallStep == CallImport \/ Hit \/ Return \/ LibraryThrows \/ AppThrows

(* Code from outside, such as an update, requires a module. *)
CallNext ==
    /\ CallStep \/ (stack = <<>> /\ \E m \in Module : Call(m))
    /\ UNCHANGED outcome

CallSpec ==
    CallInit /\ registry \in Registry /\ outcome = "none"
      /\ [][CallNext]_<<clientVars, callVars>>
-----------------------------------------------------------------------------
(* o is the innermost app module among the n outermost of s, if any is. *)
IsInnermost(o, s, n) ==
    \/ o = None /\ \A i \in 1..n : ~s[i].app
    \/ \E i \in 1..n : /\ s[i].app /\ s[i].module = o
                       /\ \A j \in (i + 1)..n : ~s[j].app

(***************************************************************************)
(* However modules require each other and throw, a component is registered *)
(* with React under the app module that is running, and under none when no *)
(* app code is running (require.runtime.ts:62-75).                         *)
(***************************************************************************)
RegistersOwn == IsInnermost(owner, stack, Len(stack))

(***************************************************************************)
(* On whatever cycle it lies, a module function is called once, and once   *)
(* more only if it is a library that threw (require.runtime.ts:41-61).     *)
(***************************************************************************)
RunsOnce ==
    \A m \in Module :
        runs[m] <= IF m \in NodeModules /\ m \in thrown THEN 2 ELSE 1
=============================================================================
