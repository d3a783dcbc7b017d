----------------------------- MODULE HmrProofs -----------------------------
(***************************************************************************)
(* Theorems about hot reloading end to end, for every project: what the    *)
(* app's module registry may hold, at any pace of saving; and what hot     *)
(* reloading achieves for a patient developer.                             *)
(***************************************************************************)
EXTENDS HmrGiven, DevBundlerProofs

(* Whatever code is there, the modules that it requires are there too. *)
Closed(code) == \A m \in Loaded(code) : code[m].imports \subseteq Loaded(code)

(* What the operations on the registry do to its type and its run cache.   *)
LEMMA LoadedImports ==
    ASSUME NEW code \in [Module -> MaybeCode], NEW m \in Loaded(code)
    PROVE  code[m].imports \subseteq Module
BY DEF Loaded, MaybeCode, Code, Content, Stub

LEMMA ForgetFacts ==
    ASSUME NEW reg \in Registry, NEW D
    PROVE  Forget(reg, D) \in Registry /\ Forget(reg, D).run = reg.run
<1>1. [m \in Module |-> IF m \in D THEN None ELSE reg.result[m]] \in [Module -> MaybeCode]
    BY CodeFacts DEF Registry
<1> QED
    BY <1>1 DEF Forget, Registry

LEMMA UpdateModuleGraphFacts ==
    ASSUME NEW reg \in Registry, NEW code \in [Module -> MaybeCode],
           NEW keys \in SUBSET Loaded(code)
    PROVE  /\ UpdateModuleGraph(reg, keys, code) \in Registry
           /\ UpdateModuleGraph(reg, keys, code).run = reg.run
<1> DEFINE old == Forget(reg, keys)
           graph == [m \in Module |-> IF m \in keys THEN code[m].imports ELSE old.graph[m]]
<1>1. old \in Registry /\ old.run = reg.run
    BY ForgetFacts
<1>2. \A m \in Module : old.graph[m] \subseteq Module
    BY <1>1 DEF Registry
<1>3. graph \in [Module -> SUBSET Module]
    BY <1>2, LoadedImports
<1>4. UpdateModuleGraph(reg, keys, code) = [old EXCEPT !.graph = graph]
    BY DEF UpdateModuleGraph
<1> QED
    BY <1>1, <1>3, <1>4 DEF Registry

LEMMA RegisterModulesFacts ==
    ASSUME NEW reg \in Registry, NEW code \in [Module -> MaybeCode]
    PROVE  /\ RegisterModules(reg, code) \in Registry
           /\ RegisterModules(reg, code).run =
                [m \in Module |-> IF code[m] = None THEN reg.run[m] ELSE code[m]]
<1> DEFINE run == [m \in Module |-> IF code[m] = None THEN reg.run[m] ELSE code[m]]
<1>1. run \in [Module -> MaybeCode]
    BY DEF Registry
<1>2. RegisterModules(reg, code) = [reg EXCEPT !.run = run]
    BY DEF RegisterModules
<1> QED
    BY <1>1, <1>2 DEF Registry

LEMMA RequireFacts ==
    ASSUME NEW reg \in Registry, NEW S
    PROVE  Require(reg, S) \in Registry /\ Require(reg, S).run = reg.run
<1> DEFINE X == Executed(reg, S)
           result == [m \in Module |-> IF m \in X THEN reg.run[m] ELSE reg.result[m]]
           linked == reg.linked \cup
                        {l \in X \X Module : /\ reg.run[l[1]] # None
                                             /\ l[2] \in reg.run[l[1]].imports}
<1>1. result \in [Module -> MaybeCode]
    BY DEF Registry
<1>2. X \subseteq Module
    BY DEF Executed, Closure
<1>3. linked \in SUBSET (Module \X Module)
    BY <1>2 DEF Registry
<1>4. Require(reg, S) = [reg EXCEPT !.result = result, !.linked = linked]
    BY DEF Require
<1> HIDE DEF result, linked
<1> QED
    BY <1>1, <1>3, <1>4 DEF Registry

LEMMA EmptyRegistryFacts == EmptyRegistry \in Registry /\ EmptyRegistry.run = NoCode
BY CodeFacts DEF EmptyRegistry, Registry

LEMMA PerformRefreshFacts ==
    ASSUME NEW reg \in Registry, NEW replace, NEW o
    PROVE  /\ PerformRefresh(reg, replace, o) \in Registry
           /\ PerformRefresh(reg, replace, o).run = reg.run
BY ForgetFacts, RequireFacts DEF PerformRefresh, Refreshed
-----------------------------------------------------------------------------
(* A closure contains what it starts from, is closed, and is the least set *)
(* of modules to be so.                                                    *)
LEMMA ClosureContains ==
    ASSUME NEW S \in SUBSET Module, NEW succ
    PROVE  S \subseteq Closure(S, succ)
BY DEF Closure

LEMMA ClosureClosed ==
    ASSUME NEW S, NEW succ, NEW x \in Closure(S, succ), succ[x] \subseteq Module
    PROVE  succ[x] \subseteq Closure(S, succ)
BY DEF Closure

LEMMA ClosureLeast ==
    ASSUME NEW S, NEW succ, NEW T \in SUBSET Module, S \subseteq T,
           \A x \in T : succ[x] \subseteq T
    PROVE  Closure(S, succ) \subseteq T
BY DEF Closure

(* Where the results of modules come from. *)
LEMMA ForgetResult ==
    ASSUME NEW reg \in Registry, NEW D, NEW m \in Module
    PROVE  Forget(reg, D).result[m] = IF m \in D THEN None ELSE reg.result[m]
BY DEF Forget, Registry

LEMMA RequireResult ==
    ASSUME NEW reg \in Registry, NEW S, NEW m \in Module
    PROVE  Require(reg, S).result[m] =
                IF m \in Executed(reg, S) THEN reg.run[m] ELSE reg.result[m]
BY DEF Require, Registry

LEMMA PerformRefreshResult ==
    ASSUME NEW reg \in Registry, NEW replace, NEW o, NEW m \in Module
    PROVE  PerformRefresh(reg, replace, o).result[m] \in {None, reg.run[m], reg.result[m]}
<1> DEFINE old == Forget(reg, ToForget(reg, replace))
<1>1. old \in Registry /\ old.run = reg.run
    BY ForgetFacts
<1>2. old.result[m] \in {None, reg.result[m]}
    BY ForgetResult
<1>3. Refreshed(reg, replace) = Require(old, Boundaries(reg, replace))
    BY DEF Refreshed
<1> HIDE DEF old
<1>4. Refreshed(reg, replace).result[m] \in {None, reg.run[m], reg.result[m]}
    BY <1>1, <1>2, <1>3, RequireResult
<1> QED
    BY <1>4 DEF PerformRefresh

LEMMA RequireParts ==
    ASSUME NEW reg \in Registry, NEW S
    PROVE  /\ Require(reg, S).graph = reg.graph
           /\ Require(reg, S).linked = reg.linked \cup
                {l \in Executed(reg, S) \X Module :
                    reg.run[l[1]] # None /\ l[2] \in reg.run[l[1]].imports}
BY DEF Require, Registry

LEMMA ForgetParts ==
    ASSUME NEW reg \in Registry, NEW D
    PROVE  /\ Forget(reg, D).graph = reg.graph
           /\ Forget(reg, D).linked = {l \in reg.linked : l[1] \notin D /\ l[2] \notin D}
BY DEF Forget, Registry

(* Only modules without a cached result are executed, and those that are   *)
(* required without one are.                                               *)
LEMMA ExecutedFacts ==
    ASSUME NEW reg \in Registry, NEW S \in SUBSET Module
    PROVE  /\ Executed(reg, S) \subseteq Module \ Cached(reg)
           /\ S \ Cached(reg) \subseteq Executed(reg, S)
<1>1. S \ Cached(reg) \subseteq Module \ Cached(reg) /\ Module \ Cached(reg) \in SUBSET Module
    OBVIOUS
<1>2. \A m \in Module \ Cached(reg) : ImportsToRun(reg)[m] \subseteq Module \ Cached(reg)
    <2>1. \A m \in Module : reg.run[m] # None => reg.run[m].imports \subseteq Module
        BY LoadedImports DEF Registry, Loaded
    <2> QED
        BY <2>1 DEF ImportsToRun
<1>3. Executed(reg, S) \subseteq Module \ Cached(reg)
    BY <1>1, <1>2, ClosureLeast DEF Executed
<1>4. S \ Cached(reg) \subseteq Executed(reg, S)
    BY ClosureContains DEF Executed
<1> QED
    BY <1>3, <1>4

(* The registry before the modules to replace are required. *)
Merged(reg, u) == RegisterModules(UpdateModuleGraph(reg, u.graph, u.code), u.code)

LEMMA MergedFacts ==
    ASSUME NEW reg \in Registry, NEW u \in Update, u.graph \subseteq Loaded(u.code)
    PROVE  /\ Merged(reg, u) \in Registry
           /\ \A m \in Module : Merged(reg, u).run[m] =
                IF u.code[m] = None THEN reg.run[m] ELSE u.code[m]
           /\ \A m \in Module : Merged(reg, u).result[m] =
                IF m \in u.graph THEN None ELSE reg.result[m]
           /\ \A m \in Module : Merged(reg, u).graph[m] =
                IF m \in u.graph THEN u.code[m].imports ELSE reg.graph[m]
           /\ Merged(reg, u).linked =
                {l \in reg.linked : l[1] \notin u.graph /\ l[2] \notin u.graph}
<1> DEFINE old == Forget(reg, u.graph)
           graphed == UpdateModuleGraph(reg, u.graph, u.code)
           loaded == RegisterModules(graphed, u.code)
<1>1. u.code \in [Module -> MaybeCode]
    BY DEF Update
<1>2. graphed \in Registry /\ graphed.run = reg.run
    BY <1>1, UpdateModuleGraphFacts
<1>3. /\ old \in Registry /\ old.graph = reg.graph
      /\ old.linked = {l \in reg.linked : l[1] \notin u.graph /\ l[2] \notin u.graph}
      /\ \A m \in Module : old.result[m] = IF m \in u.graph THEN None ELSE reg.result[m]
    BY ForgetFacts, ForgetParts, ForgetResult
<1>4. graphed = [old EXCEPT !.graph =
                    [m \in Module |-> IF m \in u.graph THEN u.code[m].imports ELSE old.graph[m]]]
    BY DEF UpdateModuleGraph
<1> HIDE DEF old, graphed
<1>5. /\ graphed.result = old.result /\ graphed.linked = old.linked
      /\ \A m \in Module : graphed.graph[m] =
            IF m \in u.graph THEN u.code[m].imports ELSE reg.graph[m]
    BY <1>3, <1>4 DEF Registry
<1>6. /\ loaded \in Registry
      /\ loaded.run = [n \in Module |-> IF u.code[n] = None THEN reg.run[n] ELSE u.code[n]]
    BY <1>1, <1>2, RegisterModulesFacts
<1>7. /\ loaded.result = graphed.result /\ loaded.linked = graphed.linked
      /\ loaded.graph = graphed.graph
    BY <1>2 DEF RegisterModules, Registry
<1> HIDE DEF loaded
<1>8. loaded = Merged(reg, u)
    BY DEF Merged, loaded, graphed
<1> QED
    BY <1>3, <1>5, <1>6, <1>7, <1>8

LEMMA EvaluatedIs == \A reg, u : Evaluated(reg, u) = Require(Merged(reg, u), u.replace)
BY DEF Evaluated, Merged
-----------------------------------------------------------------------------
(* New code on top of old code: both closed, so is the result. *)
LEMMA ClosedMerge ==
    ASSUME NEW old \in [Module -> MaybeCode], NEW new \in [Module -> MaybeCode],
           Closed(old), Closed(new)
    PROVE  LET run == [m \in Module |-> IF new[m] = None THEN old[m] ELSE new[m]]
           IN  Closed(run) /\ Loaded(run) = Loaded(old) \cup Loaded(new)
<1> DEFINE run == [m \in Module |-> IF new[m] = None THEN old[m] ELSE new[m]]
<1>1. Loaded(run) = Loaded(old) \cup Loaded(new)
    BY DEF Loaded
<1>2. ASSUME NEW m \in Loaded(run) PROVE run[m].imports \subseteq Loaded(run)
    <2>1. CASE new[m] # None
        BY <1>1, <2>1 DEF Closed, Loaded
    <2>2. CASE new[m] = None
        BY <1>1, <2>2 DEF Closed, Loaded
    <2> QED
        BY <2>1, <2>2
<1> QED
    BY <1>1, <1>2 DEF Closed

(* A build that has loaded all that it discovered, and in which all files  *)
(* compile, is closed.                                                     *)
LEMMA ClosedBuild ==
    ASSUME NEW code \in [Module -> MaybeCode], NEW roots, AllCompile(code),
           Discovered(roots, code) \subseteq Loaded(code)
    PROVE  Closed(code)
BY DEF Closed, Discovered, Requires, AllCompile

LEMMA ClosedNoCode == Closed(NoCode) /\ Loaded(NoCode) = {}
BY DEF Closed, Loaded, NoCode
-----------------------------------------------------------------------------
(* A session is live once its bundle has been made. *)
Live == phase \in {"bundled", "watching"}

(* Saves, builds and updates belong to a watched session. *)
OnlyWhenWatching == Running # {} \/ outbox # <<>> \/ pending # {} => phase = "watching"

(* What is shipped to the app, by the bundle or by an update, is closed    *)
(* and is tracked.                                                         *)
Shippable(code) == Closed(code) /\ Loaded(code) \subseteq Tracked

ShippedOK ==
    /\ Live => Shippable(bundle)
    /\ \A i \in DOMAIN outbox : /\ Shippable(outbox[i].code)
                                /\ outbox[i].graph \subseteq Loaded(outbox[i].code)

ClientOK ==
    /\ Closed(registry.run)
    /\ IF Live THEN Loaded(registry.run) \subseteq Tracked ELSE registry.run = NoCode

HmrInv ==
    /\ TypeOK /\ ClientTypeOK /\ ReplaceChanged
    /\ OnlyWhenWatching /\ ShippedOK /\ ClientOK

(* A step of the server by itself makes a session live in one way only,    *)
(* never ends one, and sends in one way only.                              *)
LEMMA ServerStepFacts ==
    ASSUME TypeOK, OnlyWhenWatching, ServerStep
    PROVE  /\ OnlyWhenWatching'
           /\ Live => Live' /\ UNCHANGED bundle
           /\ ~Live /\ Live' => FullDone
           /\ \/ UNCHANGED outbox
              \/ \E s \in Slot : BuildDone(s) /\ outbox' = Append(outbox, Payload(builds[s]))
<1>1. ASSUME NEW m \in Module, Edit(m)
      PROVE  /\ UNCHANGED <<phase, bundle, builds, outbox>>
             /\ pending' # {} => pending # {} \/ phase = "watching"
    BY <1>1 DEF Edit
<1>2. ASSUME NEW m \in Module, FullLoad(m)
      PROVE  ~Live /\ UNCHANGED <<phase, pending, builds, outbox>>
    BY <1>2 DEF FullLoad, Live
<1>3. CASE WatcherError \/ NotifyIrrelevant
    BY <1>3 DEF WatcherError, NotifyIrrelevant, OnlyWhenWatching, Running, Live
<1>4. CASE FullDone \/ FullFailed
    BY <1>4 DEF FullDone, FullFailed, FullEnds, OnlyWhenWatching, Running, Live
<1>5. CASE Subscribed
    BY <1>5 DEF Subscribed, OnlyWhenWatching, Running, Live
<1>6. ASSUME NEW s \in Slot, Notify(s)
      PROVE  UNCHANGED <<phase, bundle, outbox>> /\ pending # {} /\ pending' = {}
    BY <1>6 DEF Notify
<1>7. ASSUME NEW s \in Slot, Reads(s)
      PROVE  UNCHANGED <<phase, bundle, pending, outbox>> /\ Running # {}
    BY <1>7 DEF Reads, OnLoadStub, OnLoadTransform, ReadFile
<1>8. ASSUME NEW s \in Slot, BuildDone(s) \/ BuildFailed(s)
      PROVE  /\ UNCHANGED <<phase, bundle, pending>> /\ Running # {}
             /\ \/ UNCHANGED outbox
                \/ BuildDone(s) /\ outbox' = Append(outbox, Payload(builds[s]))
    BY <1>8 DEF BuildDone, BuildFailed, BuildEnds
<1>9. CASE \E m \in Module : Edit(m) \/ FullLoad(m)
    BY <1>1, <1>2, <1>9 DEF OnlyWhenWatching, Running, Live
<1>10. CASE \E s \in Slot : Notify(s) \/ Reads(s) \/ BuildDone(s) \/ BuildFailed(s)
    BY <1>6, <1>7, <1>8, <1>10 DEF OnlyWhenWatching, Live
<1> QED
    BY <1>3, <1>4, <1>5, <1>9, <1>10 DEF ServerStep, BuildStep, Reads

LEMMA ServerShipsOK ==
    ASSUME HmrInv, ServerStep
    PROVE  ShippedOK'
<1> USE DEF HmrInv
<1>1. Live => Tracked \subseteq Tracked' /\ Live' /\ UNCHANGED bundle
    BY ServerStepFacts, TrackedStep DEF Next, Live
<1>2. Live' => Shippable(bundle)'
    <2>1. CASE Live
        BY <1>1, <2>1 DEF ShippedOK, Shippable
    <2>2. CASE FullDone
        <3>1. UNCHANGED bundle /\ Closed(bundle)
            BY <2>2, ClosedBuild DEF FullDone, FullEnds, TypeOK
        <3>2. Loaded(bundle) \subseteq Tracked'
            BY <2>2 DEF FullDone, Tracked
        <3> QED
            BY <3>1, <3>2 DEF Shippable
    <2> QED
        BY <2>1, <2>2, ServerStepFacts
<1>3. ASSUME NEW i \in DOMAIN outbox
      PROVE  /\ Closed(outbox[i].code) /\ Loaded(outbox[i].code) \subseteq Tracked'
             /\ outbox[i].graph \subseteq Loaded(outbox[i].code)
    <2>1. Live
        BY DEF OnlyWhenWatching, Live, TypeOK
    <2> QED
        BY <1>1, <2>1 DEF ShippedOK, Shippable
<1>4. CASE UNCHANGED outbox
    BY <1>2, <1>3, <1>4 DEF ShippedOK, Shippable
<1>5. ASSUME NEW s \in Slot, BuildDone(s), outbox' = Append(outbox, Payload(builds[s]))
      PROVE  ShippedOK'
    <2> DEFINE u == Payload(builds[s])
    <2>1. builds[s] \in Build /\ AllCompile(builds[s].code)
        BY <1>5, RunningBuilds DEF BuildDone, BuildEnds
    <2>2. Discovered(builds[s].replace, builds[s].code) \subseteq Loaded(builds[s].code)
        BY <1>5 DEF BuildDone, BuildEnds, ToLoad
    <2>3. Closed(builds[s].code)
        BY <2>1, <2>2, ClosedBuild DEF Build
    <2>4. Loaded(builds[s].code) \subseteq Tracked'
        BY <1>5 DEF BuildDone, InPayload, Tracked
    <2>5. /\ Closed(u.code) /\ Loaded(u.code) \subseteq Tracked'
          /\ u.graph \subseteq Loaded(u.code)
        BY <2>3, <2>4 DEF Payload, InPayload
    <2> HIDE DEF u
    <2>6. \A i \in DOMAIN outbox' : \/ i \in DOMAIN outbox /\ outbox'[i] = outbox[i]
                                    \/ outbox'[i] = u
        BY <1>5 DEF TypeOK, u
    <2> QED
        BY <1>2, <1>3, <2>5, <2>6 DEF ShippedOK, Shippable
<1> QED
    BY <1>4, <1>5, ServerStepFacts

LEMMA ServerClientOK ==
    ASSUME HmrInv, ServerStep, UNCHANGED clientVars
    PROVE  ClientOK'
<1>1. Live => Tracked \subseteq Tracked' /\ Live'
    BY ServerStepFacts, TrackedStep DEF Next, Live, HmrInv
<1>2. Loaded(NoCode) \subseteq Tracked'
    BY ClosedNoCode
<1> QED
    BY <1>1, <1>2 DEF HmrInv, ClientOK, clientVars

(* The registry of an app that has started on the bundle. *)
LEMMA StartRun ==
    ASSUME bundle \in [Module -> MaybeCode], Start
    PROVE  /\ registry' \in Registry /\ registry'.run = bundle
           /\ \A m \in Module : registry'.result[m] \in {None, bundle[m]}
<1> DEFINE u == [replace |-> {}, graph |-> Loaded(bundle), code |-> bundle]
           merged == Merged(EmptyRegistry, u)
<1>1. u \in Update /\ u.graph = Loaded(u.code) /\ u.code = bundle
    BY DEF Update, Loaded
<1>2. registry' = Require(merged, {Entry})
    BY DEF Start, RunBundle, Merged
<1> HIDE DEF u
<1>3. /\ merged \in Registry
      /\ \A m \in Module :
            /\ merged.run[m] = IF u.code[m] = None THEN EmptyRegistry.run[m] ELSE u.code[m]
            /\ merged.result[m] = IF m \in u.graph THEN None ELSE EmptyRegistry.result[m]
    BY <1>1, MergedFacts, EmptyRegistryFacts
<1> HIDE DEF merged
<1>4. \A m \in Module : merged.run[m] = bundle[m] /\ merged.result[m] = None
    BY <1>1, <1>3, CodeFacts DEF EmptyRegistry
<1>5. merged.run = bundle
    BY <1>3, <1>4 DEF Registry
<1> QED
    BY <1>2, <1>3, <1>4, <1>5, RequireFacts, RequireResult

(* The update that is taken off the socket. *)
LEMMA DeliveredUpdate ==
    ASSUME HmrInv, outbox # <<>>
    PROVE  /\ 1 \in DOMAIN outbox /\ Head(outbox) = outbox[1] /\ Head(outbox) \in Update
           /\ Closed(Head(outbox).code) /\ Loaded(Head(outbox).code) \subseteq Tracked
           /\ Head(outbox).graph \subseteq Loaded(Head(outbox).code)
<1>1. 1 \in DOMAIN outbox /\ Head(outbox) = outbox[1] /\ Head(outbox) \in Update
    BY DEF HmrInv, TypeOK
<1> QED
    BY <1>1 DEF HmrInv, ShippedOK, Shippable

(* The registry of an app that has received an update. *)
LEMMA DeliverRun ==
    ASSUME registry \in Registry, Head(outbox) \in Update,
           Head(outbox).graph \subseteq Loaded(Head(outbox).code), Deliver
    PROVE  /\ registry' \in Registry
           /\ registry'.run = [m \in Module |->
                IF Head(outbox).code[m] = None THEN registry.run[m] ELSE Head(outbox).code[m]]
           /\ \A m \in Module : registry'.result[m] \in
                {None, registry'.run[m],
                 IF m \in Head(outbox).graph THEN None ELSE registry.result[m]}
<1> DEFINE u == Head(outbox)
           merged == Merged(registry, u)
           reg == Require(merged, u.replace)
<1>1. PICK o : registry' = PerformRefresh(reg, u.replace, o)
    BY EvaluatedIs DEF Deliver, HandleMessage
<1>2. u \in Update /\ u.graph \subseteq Loaded(u.code)
    OBVIOUS
<1> HIDE DEF u
<1>3. /\ merged \in Registry
      /\ \A m \in Module :
            /\ merged.run[m] = IF u.code[m] = None THEN registry.run[m] ELSE u.code[m]
            /\ merged.result[m] = IF m \in u.graph THEN None ELSE registry.result[m]
    BY <1>2, MergedFacts
<1> HIDE DEF merged
<1>4. merged.run = [m \in Module |-> IF u.code[m] = None THEN registry.run[m] ELSE u.code[m]]
    BY <1>3 DEF Registry
<1>5. /\ reg \in Registry /\ reg.run = merged.run
      /\ \A m \in Module : reg.result[m] \in {reg.run[m], merged.result[m]}
    BY <1>3, RequireFacts, RequireResult
<1> HIDE DEF reg
<1>6. /\ registry' \in Registry /\ registry'.run = merged.run
      /\ \A m \in Module : registry'.result[m] \in {None, reg.run[m], reg.result[m]}
    BY <1>1, <1>5, PerformRefreshFacts, PerformRefreshResult
<1> QED
    BY <1>3, <1>4, <1>5, <1>6 DEF u

(* The app starts on the bundle. *)
LEMMA StartOK ==
    ASSUME HmrInv, Start
    PROVE  ClientTypeOK' /\ OnlyWhenWatching' /\ ShippedOK' /\ ClientOK'
<1> USE DEF HmrInv
<1>1. Live /\ UNCHANGED <<phase, bundle, known, builds, pending, outbox>>
    BY DEF Start, Connect, Live
<1>2. UNCHANGED <<Running, Tracked, Live>>
    BY <1>1 DEF Running, Tracked, Live
<1>3. OnlyWhenWatching' /\ ShippedOK'
    BY <1>1, <1>2 DEF OnlyWhenWatching, ShippedOK, Shippable
<1>4. bundle \in [Module -> MaybeCode] /\ Closed(bundle) /\ Loaded(bundle) \subseteq Tracked
    BY <1>1 DEF TypeOK, ShippedOK, Shippable
<1>5. registry' \in Registry /\ registry'.run = bundle /\ outcome' = "started"
    BY <1>4, StartRun DEF Start, RunBundle
<1>6. ClientOK'
    BY <1>1, <1>2, <1>4, <1>5 DEF ClientOK
<1> QED
    BY <1>3, <1>5, <1>6 DEF ClientTypeOK

(* An update is evaluated. *)
LEMMA DeliverOK ==
    ASSUME HmrInv, Deliver
    PROVE  ClientTypeOK' /\ OnlyWhenWatching' /\ ShippedOK' /\ ClientOK'
<1> USE DEF HmrInv
<1> DEFINE u == Head(outbox)
<1>1. UNCHANGED <<phase, bundle, known, builds, pending>> /\ outbox # <<>> /\ outbox' = Tail(outbox)
    BY DEF Deliver, Receive
<1>2. UNCHANGED <<Running, Tracked, Live>> /\ phase = "watching" /\ Live
    BY <1>1 DEF Running, Tracked, Live, OnlyWhenWatching
<1>3. OnlyWhenWatching'
    BY <1>1, <1>2 DEF OnlyWhenWatching
<1>4. \A i \in DOMAIN outbox' : i + 1 \in DOMAIN outbox /\ outbox'[i] = outbox[i + 1]
    BY <1>1 DEF TypeOK
<1>5. ShippedOK'
    BY <1>1, <1>2, <1>4 DEF ShippedOK, Shippable
<1>6. /\ u \in Update /\ Closed(u.code)
      /\ Loaded(u.code) \subseteq Tracked /\ u.graph \subseteq Loaded(u.code)
    BY <1>1, DeliveredUpdate
<1>7. u.code \in [Module -> MaybeCode]
    BY <1>6 DEF Update
<1>8. registry \in Registry /\ registry.run \in [Module -> MaybeCode]
    BY DEF ClientTypeOK, Registry
<1> DEFINE run == [m \in Module |-> IF u.code[m] = None THEN registry.run[m] ELSE u.code[m]]
<1>9. registry' \in Registry /\ registry'.run = run
    BY <1>6, <1>8, DeliverRun
<1> HIDE DEF u
<1>10. outcome' \in {"refreshed", "full_refresh_needed", "failed"}
    BY DEF Deliver, HandleMessage, Outcomes
<1>11. Closed(run) /\ Loaded(run) = Loaded(registry.run) \cup Loaded(u.code)
    BY <1>6, <1>7, <1>8, ClosedMerge DEF ClientOK
<1>12. ClientOK'
    BY <1>2, <1>6, <1>9, <1>11 DEF ClientOK
<1> QED
    BY <1>3, <1>5, <1>9, <1>10, <1>12 DEF ClientTypeOK

(* The app reloads. *)
LEMMA ReloadOK ==
    ASSUME HmrInv, Reload
    PROVE  ClientTypeOK' /\ OnlyWhenWatching' /\ ShippedOK' /\ ClientOK'
<1>1. Running' = {} /\ outbox' = <<>> /\ pending' = {} /\ ~Live'
    BY DEF Reload, BundleRequest, NoBuilds, Running, Live
<1>2. registry' = EmptyRegistry /\ outcome' = "none"
    BY DEF Reload, DropRegistry
<1> QED
    BY <1>1, <1>2, EmptyRegistryFacts, ClosedNoCode
    DEF ClientTypeOK, OnlyWhenWatching, ShippedOK, ClientOK

LEMMA HmrInitOK == HmrInit => HmrInv
<1> SUFFICES ASSUME HmrInit PROVE HmrInv
    OBVIOUS
<1>1. Running = {} /\ outbox = <<>> /\ pending = {} /\ ~Live
    BY DEF HmrInit, Init, NoBuilds, Running, Live
<1> QED
    BY <1>1, InitTypeOK, EmptyRegistryFacts, ClosedNoCode
    DEF HmrInit, ClientInit, HmrInv, ClientTypeOK, ReplaceChanged, OnlyWhenWatching,
        ShippedOK, ClientOK

LEMMA HmrStepOK == HmrInv /\ [HmrNext]_vars => HmrInv'
<1> SUFFICES ASSUME HmrInv, [HmrNext]_vars PROVE HmrInv'
    OBVIOUS
<1>1. [Next]_serverVars
    BY DEF HmrNext, Next, Reload, Start, Deliver, vars
<1>2. TypeOK' /\ ReplaceChanged'
    BY <1>1, NextTypeOK, ReplaceChangedStep DEF HmrInv
<1>3. CASE ServerStep /\ UNCHANGED clientVars
    <2>1. ClientTypeOK'
        BY <1>3 DEF HmrInv, ClientTypeOK, clientVars
    <2> QED
        BY <1>2, <1>3, <2>1, ServerStepFacts, ServerShipsOK, ServerClientOK DEF HmrInv
<1>4. CASE UNCHANGED vars
    <2>1. UNCHANGED <<Running, Tracked, Live>>
        BY <1>4 DEF vars, serverVars, Running, Tracked, Live
    <2> QED
        BY <1>2, <1>4, <2>1
        DEF HmrInv, vars, serverVars, clientVars, ClientTypeOK, OnlyWhenWatching,
            ShippedOK, Shippable, ClientOK
<1> QED
    BY <1>2, <1>3, <1>4, StartOK, DeliverOK, ReloadOK DEF HmrNext, HmrInv

LEMMA HmrInvariant == HmrSpec => []HmrInv
BY HmrInitOK, HmrStepOK, PTL DEF HmrSpec

(***************************************************************************)
(* The registry of the app keeps its type.                                 *)
(***************************************************************************)
THEOREM ClientTypeCorrect == HmrSpec => []ClientTypeOK
<1>1. HmrInv => ClientTypeOK
    BY DEF HmrInv
<1> QED
    BY <1>1, HmrInvariant, PTL

(***************************************************************************)
(* No update and no overlap of builds makes the app require a module that  *)
(* its run cache lacks.                                                    *)
(***************************************************************************)
THEOREM RequireAlwaysFinds == HmrSpec => []RequireFinds
<1>1. HmrInv => RequireFinds
    BY DEF HmrInv, ClientOK, Closed, RequireFinds
<1> QED
    BY <1>1, HmrInvariant, PTL

(***************************************************************************)
(* Whatever the app runs is known to the server, or about to be replaced   *)
(* by a running build.                                                     *)
(***************************************************************************)
THEOREM ClientAlwaysTracked == HmrSpec => []ClientModulesTracked
<1>1. HmrInv => ClientModulesTracked
    BY DEF HmrInv, ClientOK, ClientModulesTracked, Live
<1> QED
    BY <1>1, HmrInvariant, PTL
-----------------------------------------------------------------------------
(* A session is being watched for an app that listens, and nothing is      *)
(* under way for an app that does not, when saves wait for the app.        *)
OnlyWhenConnected ==
    /\ connected => Live
    /\ ~connected => Running = {} /\ pending = {} /\ outbox = <<>> /\ registry = EmptyRegistry

LEMMA OnlyWhenConnectedStep ==
    ASSUME EditWhen \in {"connected", "quiet"}, HmrInv, OnlyWhenConnected, [HmrNext]_vars
    PROVE  OnlyWhenConnected'
<1> USE DEF HmrInv, OnlyWhenConnected
<1>1. CASE UNCHANGED vars
    BY <1>1 DEF vars, serverVars, clientVars, Running, Live
<1>2. CASE ServerStep /\ UNCHANGED clientVars
    <2> USE <1>2 DEF clientVars
    <2>1. ASSUME NEW m \in Module, Edit(m) PROVE OnlyWhenConnected'
        <3>1. connected /\ UNCHANGED <<phase, connected>>
            BY <2>1 DEF Edit, EditAllowed
        <3> QED
            BY <3>1 DEF Live
    <2>2. ASSUME NEW m \in Module, FullLoad(m) PROVE OnlyWhenConnected'
        BY <2>2 DEF FullLoad, Live, Running
    <2>3. CASE WatcherError \/ NotifyIrrelevant
        BY <2>3 DEF WatcherError, NotifyIrrelevant, Live, Running
    <2>4. CASE FullDone \/ FullFailed \/ Subscribed
        BY <2>4 DEF FullDone, FullFailed, FullEnds, Subscribed, Live, Running
    <2>5. ASSUME NEW s \in Slot, Notify(s) PROVE OnlyWhenConnected'
        <3>1. pending # {} /\ UNCHANGED <<phase, connected>>
            BY <2>5 DEF Notify
        <3> QED
            BY <3>1 DEF Live
    <2>6. ASSUME NEW s \in Slot, Reads(s) PROVE OnlyWhenConnected'
        BY <2>6, ReadingBuilds DEF Live
    <2>7. ASSUME NEW s \in Slot, BuildDone(s) \/ BuildFailed(s) PROVE OnlyWhenConnected'
        <3>1. s \in Running /\ UNCHANGED <<phase, connected>>
            BY <2>7, EndedBuild DEF BuildDone, BuildFailed
        <3> QED
            BY <3>1 DEF Live
    <2> QED
        BY <2>1, <2>2, <2>3, <2>4, <2>5, <2>6, <2>7 DEF ServerStep, BuildStep, Reads
<1>3. CASE Reload
    BY <1>3 DEF Reload, DropRegistry, BundleRequest, NoBuilds, Running
<1>4. CASE Start
    BY <1>4 DEF Start, Connect, Live, Running
<1>5. CASE Deliver
    <2>1. outbox # <<>> /\ UNCHANGED <<phase, connected>>
        BY <1>5 DEF Deliver, Receive
    <2> QED
        BY <2>1 DEF Live
<1> QED
    BY <1>1, <1>2, <1>3, <1>4, <1>5 DEF HmrNext
-----------------------------------------------------------------------------
(* The modules that the app has code for once it has received the first n  *)
(* of the updates on its socket.                                           *)
Present(n) == Loaded(registry.run) \cup UNION {Loaded(outbox[i].code) : i \in 1 .. n}

Stubbed(code) == {m \in Module : code[m] = Stub}

(* What an update takes the app to have: it has no code for it, or does    *)
(* not announce it.                                                        *)
LeftOut(u) == Stubbed(u.code) \cup (Loaded(u.code) \ u.graph)

(* What the server takes the app to have, the app has, or will have when   *)
(* it has received what is on its way; and what an update leaves out, when *)
(* it has received the updates before it.                                  *)
KnownPresent ==
    /\ Live /\ ~connected => known = Loaded(bundle)
    /\ connected => Tracked \subseteq Present(Len(outbox))
    /\ \A s \in Running : Stubbed(builds[s].code) \subseteq Present(Len(outbox))
    /\ \A i \in DOMAIN outbox : LeftOut(outbox[i]) \subseteq Present(i - 1)

(* Undoing the invalidation of a failed build adds nothing to what it was. *)
FailureRestores == \A s \in Slot : BuildFailed(s) => builds[s].changed \subseteq builds[s].replace

(* The server takes away nothing that the app has or is about to have.     *)
LEMMA PresentKept ==
    ASSUME UNCHANGED <<registry, outbox>>, NEW n
    PROVE  Present(n)' = Present(n)
BY DEF Present

(* An update more on the socket. *)
LEMMA PresentSent ==
    ASSUME UNCHANGED registry, outbox \in Seq(Update), NEW u, outbox' = Append(outbox, u)
    PROVE  /\ \A n \in 0 .. Len(outbox) : Present(n)' = Present(n)
           /\ Present(Len(outbox))' = Present(Len(outbox)) \cup Loaded(u.code)
<1>1. /\ Len(outbox) \in Nat /\ Len(outbox') = Len(outbox) + 1
      /\ \A i \in 1 .. Len(outbox) : outbox'[i] = outbox[i]
      /\ outbox'[Len(outbox) + 1] = u
    OBVIOUS
<1>2. \A n \in 0 .. Len(outbox) : Present(n)' = Present(n)
    BY <1>1 DEF Present
<1>3. 1 .. Len(outbox') = 1 .. Len(outbox) \cup {Len(outbox) + 1}
    BY <1>1
<1>4. Present(Len(outbox))' = Present(Len(outbox)) \cup Loaded(u.code)
    BY <1>1, <1>3 DEF Present
<1> QED
    BY <1>2, <1>4

(* The first of the updates has been received. *)
LEMMA PresentReceived ==
    ASSUME HmrInv, Deliver
    PROVE  /\ Len(outbox) \in Nat /\ Len(outbox') = Len(outbox) - 1
           /\ \A i \in DOMAIN outbox' : i + 1 \in DOMAIN outbox /\ outbox'[i] = outbox[i + 1]
           /\ \A n \in 0 .. Len(outbox') : Present(n)' = Present(n + 1)
<1>1. outbox # <<>> /\ outbox' = Tail(outbox) /\ outbox \in Seq(Update)
    BY DEF Deliver, Receive, HmrInv, TypeOK
<1>2. /\ Len(outbox) \in Nat /\ Len(outbox') = Len(outbox) - 1 /\ Len(outbox') \in Nat
      /\ \A i \in 1 .. Len(outbox') : outbox'[i] = outbox[i + 1]
      /\ DOMAIN outbox = 1 .. Len(outbox) /\ DOMAIN outbox' = 1 .. Len(outbox')
    BY <1>1
<1>3. Loaded(registry'.run) = Loaded(registry.run) \cup Loaded(outbox[1].code)
    BY <1>1, DeliverRun, DeliveredUpdate DEF Loaded, HmrInv, ClientTypeOK
<1>4. ASSUME NEW n \in 0 .. Len(outbox') PROVE Present(n)' = Present(n + 1)
    <2> DEFINE then == UNION {Loaded(outbox'[i].code) : i \in 1 .. n}
               now == UNION {Loaded(outbox[i].code) : i \in 1 .. n + 1}
    <2>1. now \subseteq Loaded(outbox[1].code) \cup then
        <3> SUFFICES ASSUME NEW i \in 1 .. n + 1, i # 1
                     PROVE  \E k \in 1 .. n : outbox'[k] = outbox[i]
            OBVIOUS
        <3>1. i - 1 \in 1 .. n /\ i - 1 \in 1 .. Len(outbox') /\ (i - 1) + 1 = i
            BY <1>2
        <3> QED
            BY <1>2, <3>1
    <2>2. Loaded(outbox[1].code) \cup then \subseteq now
        <3>1. 1 \in 1 .. n + 1 /\ \A i \in 1 .. n : i + 1 \in 1 .. n + 1 /\ outbox'[i] = outbox[i + 1]
            BY <1>2
        <3> QED
            BY <3>1
    <2> QED
        BY <1>3, <2>1, <2>2 DEF Present
<1> QED
    BY <1>2, <1>4

LEMMA KnownPresentStep ==
    ASSUME HmrInv, OnlyWhenConnected, KnownPresent, FailureRestores, [HmrNext]_vars
    PROVE  KnownPresent'
<1> USE DEF HmrInv
<1>0. (~connected => Running = {} /\ outbox = <<>>) /\ (Running # {} => connected)
    BY DEF OnlyWhenConnected
<1>1. CASE UNCHANGED vars
    <2>1. UNCHANGED <<Live, connected, known, bundle, builds, outbox, registry>>
        BY <1>1 DEF vars, serverVars, clientVars, Live
    <2> QED
        BY <2>1 DEF KnownPresent, Tracked, Running, Present
<1>2. CASE ServerStep /\ UNCHANGED clientVars
    <2>0. UNCHANGED registry
        BY <1>2 DEF clientVars
    <2>1. CASE UNCHANGED <<known, bundle, builds, connected, outbox>> /\ Live' = Live
        BY <2>0, <2>1 DEF KnownPresent, Tracked, Running, Present
    <2>2. CASE FullDone \/ FullFailed \/ \E m \in Module : FullLoad(m)
        <3>1. /\ ~Live /\ UNCHANGED <<connected, builds, outbox>>
              /\ Live' => known' = Loaded(bundle')
            BY <2>2 DEF FullDone, FullFailed, FullEnds, FullLoad, Live
        <3>2. ~connected /\ outbox = <<>> /\ Running' = {}
            BY <3>1, <1>0 DEF OnlyWhenConnected, Running
        <3> QED
            BY <3>1, <3>2 DEF KnownPresent
    <2>3. ASSUME NEW s \in Slot, Notify(s) PROVE KnownPresent'
        <3>1. pending # {} /\ UNCHANGED <<phase, bundle, connected, outbox>>
            BY <2>3 DEF Notify
        <3>2. connected
            BY <3>1 DEF OnlyWhenConnected
        <3>3. /\ Running' = Running \cup {s} /\ \A t \in Running : builds'[t] = builds[t]
              /\ builds'[s].replace \subseteq known /\ known' \subseteq known
              /\ builds'[s].code = NoCode
            BY <2>3, StartedBuild
        <3>4. Tracked' \subseteq Tracked
            BY <3>3 DEF Tracked
        <3>5. Stubbed(NoCode) = {}
            BY SourceAssumption DEF Stubbed, NoCode, Stub, Code
        <3>6. \A n : Present(n)' = Present(n)
            BY <2>0, <3>1, PresentKept
        <3> QED
            BY <3>1, <3>2, <3>3, <3>4, <3>5, <3>6 DEF KnownPresent
    <2>4. ASSUME NEW s \in Slot, Reads(s) PROVE KnownPresent'
        <3>1. UNCHANGED <<Tracked, Running, Live, known, bundle, outbox, connected>>
            BY <2>4, ReadingBuilds DEF Tracked, Live
        <3>2. s \in Running /\ connected
            BY <1>0, <2>4 DEF Reads, OnLoadStub, OnLoadTransform, ReadFile
        <3>3. Stubbed(builds'[s].code) \subseteq Stubbed(builds[s].code) \cup known
            BY <2>4, ReadCode, ContentIsNoStub DEF Stubbed, TypeOK
        <3>4. known \subseteq Present(Len(outbox))
            BY <3>2 DEF KnownPresent, Tracked
        <3>5. \A t \in Running : Stubbed(builds'[t].code) \subseteq Present(Len(outbox))
            BY <2>4, <3>2, <3>3, <3>4, OtherBuilds DEF KnownPresent
        <3>6. \A n : Present(n)' = Present(n)
            BY <2>0, <3>1, PresentKept
        <3> QED
            BY <3>1, <3>2, <3>5, <3>6 DEF KnownPresent
    <2>5. ASSUME NEW s \in Slot, BuildDone(s) PROVE KnownPresent'
        <3> DEFINE u == Payload(builds[s])
        <3>1. /\ s \in Running /\ Running' = Running \ {s}
              /\ \A t \in Running' : builds'[t] = builds[t]
              /\ UNCHANGED <<phase, bundle, connected>>
            BY <2>5, EndedBuild DEF BuildDone
        <3>2. connected /\ outbox' = Append(outbox, u) /\ outbox \in Seq(Update)
            BY <2>5, <1>0, <3>1 DEF BuildDone, TypeOK
        <3>3. /\ known' \subseteq known \cup Loaded(u.code) /\ u.graph = Loaded(u.code) \ known
              /\ u.code = builds[s].code
            BY <2>5 DEF BuildDone, InPayload, Payload
        <3> HIDE DEF u
        <3>4. /\ \A n \in 0 .. Len(outbox) : Present(n)' = Present(n)
              /\ Present(Len(outbox))' = Present(Len(outbox)) \cup Loaded(u.code)
            BY <2>0, <3>2, PresentSent
        <3>5. Tracked' \subseteq Present(Len(outbox))'
            <4>1. Tracked' \subseteq Tracked \cup Loaded(u.code)
                BY <3>1, <3>3 DEF Tracked
            <4> QED
                BY <3>2, <3>4, <4>1 DEF KnownPresent
        <3>6. LeftOut(u) \subseteq Present(Len(outbox))
            BY <3>1, <3>2, <3>3 DEF KnownPresent, LeftOut, Tracked
        <3>7. ASSUME NEW i \in DOMAIN outbox' PROVE LeftOut(outbox'[i]) \subseteq Present(i - 1)'
            <4>1. i - 1 \in 0 .. Len(outbox)
                BY <3>2
            <4>2. \/ i \in DOMAIN outbox /\ outbox'[i] = outbox[i]
                  \/ i - 1 = Len(outbox) /\ outbox'[i] = u
                BY <3>2
            <4> QED
                BY <3>4, <3>6, <4>1, <4>2 DEF KnownPresent
        <3>8. \A t \in Running' : Stubbed(builds'[t].code) \subseteq Present(Len(outbox))'
            BY <3>1, <3>4 DEF KnownPresent
        <3> QED
            BY <3>1, <3>2, <3>5, <3>7, <3>8 DEF KnownPresent
    <2>6. ASSUME NEW s \in Slot, BuildFailed(s) PROVE KnownPresent'
        <3>1. /\ s \in Running /\ Running' = Running \ {s}
              /\ \A t \in Running' : builds'[t] = builds[t]
              /\ UNCHANGED <<phase, bundle, connected, outbox>>
            BY <2>6, EndedBuild DEF BuildFailed
        <3>2. Tracked' \subseteq Tracked
            <4>1. known' \subseteq known \cup builds[s].replace
                BY <2>6 DEF BuildFailed, Reset, FailureRestores
            <4> QED
                BY <3>1, <4>1 DEF Tracked
        <3>3. \A n : Present(n)' = Present(n)
            BY <2>0, <3>1, PresentKept
        <3> QED
            BY <1>0, <3>1, <3>2, <3>3 DEF KnownPresent
    <2>7. ASSUME NEW m \in Module, Edit(m) PROVE KnownPresent'
        BY <2>7, <2>1 DEF Edit, Live
    <2>8. CASE WatcherError \/ NotifyIrrelevant \/ Subscribed
        BY <2>8, <2>1 DEF WatcherError, NotifyIrrelevant, Invalidated, Subscribed, Live
    <2> QED
        BY <1>2, <2>2, <2>3, <2>4, <2>5, <2>6, <2>7, <2>8 DEF ServerStep, BuildStep, Reads
<1>3. CASE Reload
    BY <1>3 DEF Reload, BundleRequest, NoBuilds, Running, KnownPresent, Live
<1>4. CASE Start
    <2>1. /\ Live /\ ~connected /\ connected' /\ UNCHANGED <<known, bundle, builds, outbox>>
        BY <1>4 DEF Start, Connect, Live
    <2>2. known = Loaded(bundle) /\ Running = {} /\ outbox = <<>>
        BY <2>1, <1>0 DEF KnownPresent
    <2>3. Tracked' = known /\ Running' = {}
        BY <2>1, <2>2 DEF Tracked, Running
    <2>4. Loaded(registry'.run) = Loaded(bundle)
        BY <1>4, StartRun DEF TypeOK
    <2> QED
        BY <2>1, <2>2, <2>3, <2>4 DEF KnownPresent, Present
<1>5. CASE Deliver
    <2>1. outbox # <<>> /\ UNCHANGED <<known, builds, connected>>
        BY <1>5 DEF Deliver, Receive
    <2>2. UNCHANGED <<Tracked, Running>> /\ connected
        BY <1>0, <2>1 DEF Tracked, Running
    <2>3. /\ Len(outbox) \in Nat /\ Len(outbox') = Len(outbox) - 1 /\ Len(outbox') \in Nat
          /\ \A i \in DOMAIN outbox' : /\ i + 1 \in DOMAIN outbox /\ outbox'[i] = outbox[i + 1]
                                        /\ i \in 1 .. Len(outbox')
          /\ \A n \in 0 .. Len(outbox') : Present(n)' = Present(n + 1)
        BY <1>5, PresentReceived
    <2>4. Present(Len(outbox))' = Present(Len(outbox))
        <3>1. Len(outbox') + 1 = Len(outbox)
            BY <2>3
        <3> QED
            BY <2>3, <3>1 DEF Present
    <2>5. ASSUME NEW i \in DOMAIN outbox' PROVE LeftOut(outbox'[i]) \subseteq Present(i - 1)'
        <3>1. Present(i - 1)' = Present(i) /\ i + 1 - 1 = i
            BY <2>3
        <3> QED
            BY <2>3, <3>1 DEF KnownPresent
    <2> QED
        BY <2>1, <2>2, <2>4, <2>5 DEF KnownPresent
<1> QED
    BY <1>1, <1>2, <1>3, <1>4, <1>5 DEF HmrNext

(* The invariant of a developer who saves when the app is listening, be    *)
(* earlier saves still on their way or not, and of whom no build puts back *)
(* more than it took.                                                      *)
ConnectedInv ==
    /\ HmrInv /\ OnlyWhenConnected /\ KnownPresent
    /\ MaxBatch <= 1 => OneFileAtATime
    /\ AlwaysCompiles => AllSavedCompile

LEMMA ConnectedInit ==
    ASSUME HmrInit
    PROVE  ConnectedInv
<1>1. /\ Running = {} /\ pending = {} /\ outbox = <<>> /\ ~connected /\ ~Live
      /\ registry = EmptyRegistry /\ \A m \in Module : disk[m] \in Source[m]
    BY DEF HmrInit, Init, ClientInit, NoBuilds, Running, Live
<1>2. OnlyWhenConnected /\ KnownPresent
    BY <1>1 DEF OnlyWhenConnected, KnownPresent
<1>3. OneFileAtATime
    BY <1>1 DEF OneFileAtATime
<1>4. AlwaysCompiles => AllSavedCompile
    BY <1>1 DEF AlwaysCompiles, AllSavedCompile
<1> QED
    BY <1>2, <1>3, <1>4, HmrInitOK DEF ConnectedInv

LEMMA ConnectedStep ==
    ASSUME EditWhen \in {"connected", "quiet"}, MaxBatch <= 1 \/ AlwaysCompiles,
           ConnectedInv, [HmrNext]_vars
    PROVE  ConnectedInv'
<1>1. [Next]_serverVars
    BY DEF HmrNext, Next, Reload, Start, Deliver, vars
<1>2. HmrInv' /\ OnlyWhenConnected'
    BY HmrStepOK, OnlyWhenConnectedStep DEF ConnectedInv
<1>3. FailureRestores
    BY DEF FailureRestores, BuildFailed, BuildEnds, ConnectedInv, OneFileAtATime, AllSavedCompile
<1>4. KnownPresent'
    BY <1>3, KnownPresentStep DEF ConnectedInv
<1>5. /\ MaxBatch <= 1 => OneFileAtATime'
      /\ AlwaysCompiles => AllSavedCompile'
    BY <1>1, OneFileAtATimeStep, AllSavedCompileStep DEF ConnectedInv, HmrInv
<1> QED
    BY <1>2, <1>4, <1>5 DEF ConnectedInv, AlwaysCompiles

(***************************************************************************)
(* For a developer who saves when the app is listening, at any pace, and   *)
(* who saves one file at a time or only files that compile, what an update *)
(* leaves out is present in the client indeed, however builds overlap.  (A *)
(* failed build of several files makes files known that the client never   *)
(* had, and an update for an app that has not connected is lost.)          *)
(***************************************************************************)
THEOREM StubsAlwaysPresent ==
    ASSUME EditWhen \in {"connected", "quiet"}, MaxBatch <= 1 \/ AlwaysCompiles
    PROVE  HmrSpec => []StubsArePresent
<1>1. HmrInit => ConnectedInv
    BY ConnectedInit
<1>2. ConnectedInv /\ [HmrNext]_vars => ConnectedInv'
    BY ConnectedStep
<1>3. ConnectedInv => StubsArePresent
    <2> SUFFICES ASSUME ConnectedInv, outbox # <<>>, NEW m \in Module, Head(outbox).code[m] = Stub
                 PROVE  registry.run[m] # None
        BY DEF StubsArePresent
    <2>1. 1 \in DOMAIN outbox /\ Head(outbox) = outbox[1]
        BY DeliveredUpdate DEF ConnectedInv
    <2>2. m \in Present(1 - 1)
        BY <2>1 DEF ConnectedInv, KnownPresent, LeftOut, Stubbed
    <2>3. Present(1 - 1) = Loaded(registry.run)
        BY DEF Present
    <2> QED
        BY <2>2, <2>3 DEF Loaded
<1> QED
    BY <1>1, <1>2, <1>3, PTL DEF HmrSpec
-----------------------------------------------------------------------------
(***************************************************************************)
(* A patient developer, who saves only when the app has received all that  *)
(* was saved before: what is on its way to the app is one build or one     *)
(* update.                                                                 *)
(***************************************************************************)
OneAtATime ==
    /\ OnlyWhenConnected
    /\ outbox # <<>> => Running = {} /\ pending = {} /\ Len(outbox) = 1

LEMMA OneAtATimeStep ==
    ASSUME EditWhen = "quiet", HmrInv, QuietInv, OneAtATime, [HmrNext]_vars
    PROVE  OneAtATime'
<1> USE DEF HmrInv, QuietInv, OneAtATime
<1>0. OnlyWhenConnected'
    BY OnlyWhenConnectedStep
<1>1. CASE UNCHANGED vars
    BY <1>0, <1>1 DEF vars, serverVars, Running
<1>2. CASE ServerStep /\ UNCHANGED clientVars
    <2>1. ASSUME NEW m \in Module, Edit(m) PROVE OneAtATime'
        BY <1>0, <2>1, BundlerAssumption DEF Edit, EditAllowed
    <2>2. ASSUME NEW s \in Slot, BuildDone(s) \/ BuildFailed(s) PROVE OneAtATime'
        <3>1. s \in Running /\ Running' = {} /\ UNCHANGED <<pending, connected>>
            BY <2>2, EndedBuild DEF OneBuild, BuildDone, BuildFailed
        <3>2. connected /\ outbox = <<>> /\ pending = {}
            BY <3>1 DEF Undisturbed, OnlyWhenConnected
        <3>3. outbox' = outbox \/ outbox' = Append(<<>>, Payload(builds[s]))
            BY <2>2, <3>2 DEF BuildDone, BuildFailed
        <3>4. Len(Append(<<>>, Payload(builds[s]))) = 1
            OBVIOUS
        <3> QED
            BY <1>0, <3>1, <3>2, <3>3, <3>4
    <2>3. CASE UNCHANGED <<builds, outbox>> /\ pending' \in {pending, {}}
        BY <1>0, <2>3 DEF Running
    <2>4. ASSUME NEW s \in Slot, Notify(s) PROVE OneAtATime'
        BY <1>0, <2>4 DEF Notify
    <2>5. ASSUME NEW s \in Slot, Reads(s) PROVE OneAtATime'
        BY <1>0, <2>5, ReadingBuilds
    <2> QED
        BY <1>2, <2>1, <2>2, <2>3, <2>4, <2>5
        DEF ServerStep, BuildStep, Reads, FullLoad, WatcherError, NotifyIrrelevant, FullDone,
            FullFailed, FullEnds, Subscribed
<1>3. CASE Reload
    BY <1>0, <1>3 DEF Reload, BundleRequest
<1>4. CASE Start
    BY <1>0, <1>4 DEF Start, Connect, Running
<1>5. CASE Deliver
    <2>1. outbox' = Tail(outbox) /\ outbox # <<>>
        BY <1>5 DEF Deliver, Receive
    <2>2. outbox' = <<>>
        BY <2>1 DEF TypeOK
    <2> QED
        BY <1>0, <2>2
<1> QED
    BY <1>1, <1>2, <1>3, <1>4, <1>5 DEF HmrNext

(* All that holds for a patient developer of whom no build puts back more  *)
(* than it took.                                                           *)
PatientInv == ConnectedInv /\ QuietInv /\ OneAtATime

LEMMA PatientInit ==
    ASSUME HmrInit
    PROVE  PatientInv
<1>1. Running = {} /\ pending = {} /\ outbox = <<>>
    BY DEF HmrInit, Init, NoBuilds, Running
<1>2. QuietInv
    BY <1>1 DEF QuietInv, OneBuild, Undisturbed, BuildsTrueToKnown, UpdatesExact
<1> QED
    BY <1>1, <1>2, ConnectedInit DEF PatientInv, ConnectedInv, OneAtATime

LEMMA PatientStep ==
    ASSUME EditWhen = "quiet", MaxBatch <= 1 \/ AlwaysCompiles, PatientInv, [HmrNext]_vars
    PROVE  PatientInv'
<1>1. [Next]_serverVars
    BY DEF HmrNext, Next, Reload, Start, Deliver, vars
<1>2. QuietInv' /\ OneAtATime'
    BY <1>1, QuietStep, OneAtATimeStep DEF PatientInv, ConnectedInv, HmrInv
<1> QED
    BY <1>2, ConnectedStep DEF PatientInv

(* What the server takes the app of a patient developer to have, and what  *)
(* the one update leaves out, the app has.                                 *)
LEMMA PatientPresent ==
    ASSUME PatientInv
    PROVE  /\ connected /\ outbox = <<>> => Tracked \subseteq Loaded(registry.run)
           /\ outbox # <<>> => LeftOut(outbox[1]) \subseteq Loaded(registry.run)
<1>1. Present(0) = Loaded(registry.run)
    BY DEF Present
<1>2. outbox = <<>> => Len(outbox) = 0
    OBVIOUS
<1>3. outbox # <<>> => 1 \in DOMAIN outbox /\ 1 - 1 = 0
    BY DEF PatientInv, ConnectedInv, HmrInv, TypeOK
<1> QED
    BY <1>1, <1>2, <1>3 DEF PatientInv, ConnectedInv, KnownPresent
-----------------------------------------------------------------------------
(***************************************************************************)
(* What holds for a patient developer whatever is broken and whatever goes *)
(* unreported.                                                             *)
(***************************************************************************)
SerialInv == HmrInv /\ QuietInv /\ OneAtATime

LEMMA SerialInit == HmrInit => SerialInv
BY PatientInit DEF PatientInv, ConnectedInv, SerialInv

LEMMA SerialStep ==
    ASSUME EditWhen = "quiet", SerialInv, [HmrNext]_vars
    PROVE  SerialInv'
<1>1. [Next]_serverVars
    BY DEF HmrNext, Next, Reload, Start, Deliver, vars
<1> QED
    BY <1>1, HmrStepOK, QuietStep, OneAtATimeStep DEF SerialInv, HmrInv

LEMMA PatientIsSerial == PatientInv => SerialInv
BY DEF PatientInv, ConnectedInv, SerialInv

(* What has been saved and has not reached the app. *)
Due == UNION ({pending} \cup {builds[s].replace : s \in Running}
                        \cup {outbox[i].replace : i \in DOMAIN outbox})

(* Code that is nowhere behind the disk. *)
FromDisk(code) == \A m \in Module : code[m] \in {disk[m], Stub, None}

(* So is all code that is on its way to the app. *)
Fresh ==
    /\ ~connected => FromDisk(bundle)
    /\ \A s \in Running : FromDisk(builds[s].code)
    /\ \A i \in DOMAIN outbox : FromDisk(outbox[i].code)
    /\ Cached(registry) \subseteq Loaded(registry.run)

(* What the app has of m, it has from the disk. *)
Current(m) ==
    /\ registry.run[m] \in {disk[m], Stub, None}
    /\ registry.result[m] \in {disk[m], Stub, None}

(* Nothing of the files that the server drops unbuilt is in the app. *)
LEMMA UnknownAbsent ==
    ASSUME SerialInv, Fresh, NEW m \in pending \ known
    PROVE  m \in Module /\ registry.run[m] = None /\ registry.result[m] = None
<1>1. connected /\ outbox = <<>> /\ Running = {} /\ phase = "watching" /\ m \in Module
    BY DEF SerialInv, OneAtATime, OnlyWhenConnected, QuietInv, Undisturbed, HmrInv, TypeOK
<1>2. Tracked = known
    BY <1>1 DEF Tracked
<1>3. m \notin Loaded(registry.run)
    BY <1>1, <1>2 DEF SerialInv, HmrInv, ClientOK, Live
<1> QED
    BY <1>1, <1>3 DEF Fresh, Cached, Loaded

(* An update brings the modules that it announces, and keeps the others. *)
LEMMA DeliverCurrent ==
    ASSUME SerialInv, Fresh, Deliver
    PROVE  /\ Running = {} /\ Running' = {} /\ pending = {} /\ outbox' = <<>>
           /\ Due = Head(outbox).replace /\ Due' = {}
           /\ Head(outbox).replace \subseteq Head(outbox).graph
           /\ Cached(registry') \subseteq Loaded(registry'.run)
           /\ \A m \in Module : m \in Head(outbox).graph \/ Current(m) => Current(m)'
<1> DEFINE u == Head(outbox)
<1>0. TypeOK /\ HmrInv /\ OneAtATime
    BY DEF SerialInv, HmrInv
<1>1. /\ outbox # <<>> /\ outbox' = Tail(outbox) /\ UNCHANGED <<disk, pending, builds, connected>>
    BY DEF Deliver, Receive
<1>2. /\ Running = {} /\ pending = {} /\ outbox' = <<>> /\ connected
      /\ 1 \in DOMAIN outbox /\ DOMAIN outbox = {1} /\ u = outbox[1]
    BY <1>0, <1>1 DEF OneAtATime, OnlyWhenConnected, TypeOK
<1>3. Due = u.replace
    BY <1>2 DEF Due
<1>4. u.replace \subseteq u.graph /\ \A m \in u.graph : u.code[m] \notin {Stub, None}
    BY <1>2 DEF SerialInv, QuietInv, UpdatesExact, IsExact
<1>5. FromDisk(u.code)
    BY <1>2 DEF Fresh
<1>6. registry'.run = [m \in Module |->
            IF u.code[m] = None THEN registry.run[m] ELSE u.code[m]]
    BY <1>0, <1>1, DeliverRun, DeliveredUpdate DEF HmrInv, ClientTypeOK
<1>7. \A m \in Module : registry'.result[m] \in
        {None, registry'.run[m], IF m \in u.graph THEN None ELSE registry.result[m]}
    BY <1>0, <1>1, DeliverRun, DeliveredUpdate DEF HmrInv, ClientTypeOK
<1>8. Running' = {} /\ Due' = {}
    BY <1>1, <1>2 DEF Running, Due
<1> HIDE DEF u
<1>9. ASSUME NEW m \in Module
      PROVE  /\ m \in u.graph \/ Current(m) => Current(m)'
             /\ registry'.result[m] # None => registry'.run[m] # None
    BY <1>1, <1>4, <1>5, <1>6, <1>7 DEF Fresh, Current, FromDisk, Cached, Loaded
<1>10. Cached(registry') \subseteq Loaded(registry'.run)
    BY <1>9 DEF Cached, Loaded
<1> QED
    BY <1>2, <1>3, <1>4, <1>8, <1>9, <1>10 DEF u

LEMMA FreshStep ==
    ASSUME EditWhen = "quiet", SerialInv, Fresh, [HmrNext]_vars
    PROVE  Fresh'
<1>0. TypeOK /\ HmrInv /\ OneAtATime
    BY DEF SerialInv, HmrInv
<1>1. CASE UNCHANGED vars
    BY <1>1 DEF vars, serverVars, clientVars, Fresh, FromDisk, Running
<1>2. CASE ServerStep /\ UNCHANGED clientVars
    <2>0. UNCHANGED registry
        BY <1>2 DEF clientVars
    <2>1. CASE UNCHANGED <<disk, bundle, builds, connected, outbox>>
        BY <2>0, <2>1 DEF Fresh, FromDisk, Running
    <2>2. ASSUME NEW n \in Module, Edit(n) PROVE Fresh'
        <3>1. connected /\ Running = {} /\ outbox = <<>> /\ UNCHANGED <<builds, connected, outbox>>
            BY <2>2 DEF Edit, EditAllowed
        <3>2. Running' = {} /\ DOMAIN outbox' = {}
            BY <3>1 DEF Running
        <3> QED
            BY <2>0, <3>1, <3>2 DEF Fresh
    <2>3. ASSUME NEW n \in Module, FullLoad(n) PROVE Fresh'
        <3>1. /\ bundle' = [bundle EXCEPT ![n] = disk[n]]
              /\ UNCHANGED <<disk, builds, connected, outbox>>
              /\ phase = "bundling"
            BY <2>3 DEF FullLoad
        <3>2. ~connected
            BY <1>0, <3>1 DEF OneAtATime, OnlyWhenConnected, Live
        <3>3. FromDisk(bundle)'
            BY <1>0, <3>1, <3>2 DEF FromDisk, Fresh, TypeOK
        <3> QED
            BY <2>0, <3>1, <3>3 DEF Fresh, FromDisk, Running
    <2>4. ASSUME NEW s \in Slot, Notify(s) PROVE Fresh'
        <3>1. /\ Running' = Running \cup {s} /\ \A t \in Running : builds'[t] = builds[t]
              /\ builds'[s].code = NoCode
            BY <1>0, <2>4, StartedBuild
        <3>2. UNCHANGED <<disk, bundle, connected, outbox>>
            BY <2>4 DEF Notify
        <3> QED
            BY <2>0, <3>1, <3>2, CodeFacts DEF Fresh, FromDisk
    <2>5. ASSUME NEW s \in Slot, Reads(s) PROVE Fresh'
        <3>1. Running' = Running /\ UNCHANGED <<disk, bundle, connected, outbox>>
            BY <1>0, <2>5, ReadingBuilds
        <3>2. FromDisk(builds[s].code)
            BY <2>5 DEF Fresh, Reads, OnLoadStub, OnLoadTransform, ReadFile
        <3>3. FromDisk(builds'[s].code)
            BY <1>0, <2>5, <3>2, ReadCode DEF FromDisk
        <3>4. \A t \in Running : FromDisk(builds'[t].code)
            BY <1>0, <2>5, <3>3, OtherBuilds DEF Fresh
        <3> QED
            BY <2>0, <3>1, <3>4 DEF Fresh, FromDisk
    <2>6. ASSUME NEW s \in Slot, BuildDone(s) \/ BuildFailed(s) PROVE Fresh'
        <3>1. /\ s \in Running /\ Running' = Running \ {s}
              /\ \A t \in Running' : builds'[t] = builds[t]
              /\ UNCHANGED <<disk, bundle, connected>>
            BY <1>0, <2>6, EndedBuild DEF BuildDone, BuildFailed
        <3>2. connected /\ outbox = <<>>
            BY <1>0, <3>1 DEF OneAtATime, OnlyWhenConnected
        <3>3. outbox' = <<>> \/ outbox' = Append(<<>>, Payload(builds[s]))
            BY <2>6, <3>2 DEF BuildDone, BuildFailed
        <3>4. \A i \in DOMAIN outbox' : outbox'[i].code = builds[s].code
            BY <3>3 DEF Payload
        <3> QED
            BY <2>0, <3>1, <3>2, <3>4 DEF Fresh, FromDisk
    <2> QED
        BY <1>2, <2>1, <2>2, <2>3, <2>4, <2>5, <2>6
        DEF ServerStep, BuildStep, Reads, WatcherError, NotifyIrrelevant, FullDone, FullFailed,
            Subscribed
<1>3. CASE Reload
    <2>1. Running' = {} /\ outbox' = <<>> /\ bundle' = NoCode /\ registry' = EmptyRegistry
        BY <1>3 DEF Reload, DropRegistry, BundleRequest, NoBuilds, Running
    <2> QED
        BY <2>1, CodeFacts DEF Fresh, FromDisk, EmptyRegistry, Cached, Loaded
<1>4. CASE Start
    <2>1. /\ ~connected /\ connected' /\ UNCHANGED <<disk, bundle, builds, outbox>>
        BY <1>4 DEF Start, Connect
    <2>2. registry'.run = bundle /\ \A m \in Module : registry'.result[m] \in {None, bundle[m]}
        BY <1>0, <1>4, StartRun DEF TypeOK
    <2> QED
        BY <2>1, <2>2 DEF Fresh, FromDisk, Running, Cached, Loaded
<1>5. CASE Deliver
    <2>1. connected /\ UNCHANGED connected
        BY <1>0, <1>5 DEF Deliver, Receive, OneAtATime, OnlyWhenConnected
    <2> QED
        BY <1>5, <2>1, DeliverCurrent DEF Fresh
<1> QED
    BY <1>1, <1>2, <1>3, <1>4, <1>5 DEF HmrNext

(* A step leaves no module behind but for those whose save is now on its   *)
(* way, or given up.                                                       *)
LEMMA CurrentStep ==
    ASSUME EditWhen = "quiet", SerialInv, Fresh, [HmrNext]_vars,
           NEW m \in Module, m \notin Due', m \notin Dropped, m \in Due \/ Current(m)
    PROVE  Current(m)'
<1>0. TypeOK /\ HmrInv /\ OneAtATime
    BY DEF SerialInv, HmrInv
<1>1. CASE UNCHANGED vars
    BY <1>1 DEF vars, serverVars, clientVars, Due, Running, Current
<1>2. CASE ServerStep /\ UNCHANGED clientVars
    <2>0. UNCHANGED registry
        BY <1>2 DEF clientVars
    <2>1. CASE UNCHANGED <<disk, pending, builds, outbox>>
        BY <2>0, <2>1 DEF Due, Running, Current
    <2>2. ASSUME NEW n \in Module, Edit(n) PROVE Current(m)'
        <3>1. /\ Running = {} /\ outbox = <<>> /\ phase = "watching"
              /\ UNCHANGED <<builds, outbox>> /\ pending' = pending \cup {n}
              /\ \E k : disk' = [disk EXCEPT ![n] = k]
            BY <2>2 DEF Edit, EditAllowed
        <3>2. Due' = Due \cup {n}
            BY <3>1 DEF Due, Running
        <3>3. m # n /\ disk'[m] = disk[m]
            BY <1>0, <3>1, <3>2 DEF TypeOK
        <3> QED
            BY <2>0, <3>2, <3>3 DEF Current
    <2>3. CASE WatcherError \/ NotifyIrrelevant
        <3>1. pending' = {} /\ UNCHANGED <<disk, builds, outbox>>
            BY <2>3 DEF WatcherError, NotifyIrrelevant
        <3>2. Due \subseteq Due' \cup pending
            BY <3>1 DEF Due, Running
        <3>3. m \in pending => m \notin known
            BY <2>3 DEF Dropped, NotifyIrrelevant
        <3> QED
            BY <2>0, <3>1, <3>2, <3>3, UnknownAbsent DEF Current
    <2>4. ASSUME NEW s \in Slot, Notify(s) PROVE Current(m)'
        <3>1. pending # {} /\ UNCHANGED <<disk, outbox>>
            BY <2>4 DEF Notify
        <3>2. /\ Running = {} /\ Running' = {s} /\ builds'[s].replace = pending \cap known
            BY <1>0, <2>4, <3>1, StartedBuild DEF SerialInv, QuietInv, Undisturbed
        <3>3. Due \subseteq Due' \cup (pending \ known)
            BY <3>1, <3>2 DEF Due
        <3> QED
            BY <2>0, <3>1, <3>3, UnknownAbsent DEF Current
    <2>5. ASSUME NEW s \in Slot, Reads(s) PROVE Current(m)'
        <3>1. Due' = Due /\ UNCHANGED disk
            BY <1>0, <2>5, ReadingBuilds DEF Due
        <3> QED
            BY <2>0, <3>1 DEF Current
    <2>6. ASSUME NEW s \in Slot, BuildDone(s) \/ BuildFailed(s) PROVE Current(m)'
        <3>1. s \in Running /\ Running = {s} /\ Running' = {} /\ UNCHANGED <<disk, pending, connected>>
            BY <1>0, <2>6, EndedBuild DEF SerialInv, QuietInv, OneBuild, BuildDone, BuildFailed
        <3>2. connected /\ outbox = <<>>
            BY <1>0, <3>1 DEF OneAtATime, OnlyWhenConnected
        <3>3. Due \subseteq Due' \cup builds[s].replace
            BY <3>1, <3>2 DEF Due
        <3>4. CASE BuildDone(s)
            <4>1. outbox' = Append(<<>>, Payload(builds[s]))
                BY <3>2, <3>4 DEF BuildDone
            <4>2. 1 \in DOMAIN outbox' /\ outbox'[1].replace = builds[s].replace
                BY <4>1 DEF Payload
            <4>3. Due \subseteq Due'
                BY <3>3, <4>2 DEF Due
            <4> QED
                BY <2>0, <3>1, <4>3 DEF Current
        <3>5. CASE BuildFailed(s)
            <4>1. m \notin builds[s].replace
                BY <1>0, <3>1, <3>5 DEF Dropped, HmrInv, ReplaceChanged
            <4> QED
                BY <2>0, <3>1, <3>3, <4>1 DEF Current
        <3> QED
            BY <2>6, <3>4, <3>5
    <2> QED
        BY <1>2, <2>1, <2>2, <2>3, <2>4, <2>5, <2>6
        DEF ServerStep, BuildStep, Reads, FullLoad, FullDone, FullFailed, Subscribed
<1>3. CASE Reload
    BY <1>3, CodeFacts DEF Reload, DropRegistry, EmptyRegistry, Current, NoCode
<1>4. CASE Start
    <2>1. /\ ~connected /\ UNCHANGED <<disk, bundle>>
        BY <1>4 DEF Start, Connect
    <2>2. registry'.run = bundle /\ registry'.result[m] \in {None, bundle[m]}
        BY <1>0, <1>4, StartRun DEF TypeOK
    <2> QED
        BY <2>1, <2>2 DEF Fresh, FromDisk, Current
<1>5. CASE Deliver
    BY <1>5, DeliverCurrent
<1> QED
    BY <1>1, <1>2, <1>3, <1>4, <1>5 DEF HmrNext

(* Every save compiles and is reported. *)
SavesArrive == ~WatcherErrors /\ AlwaysCompiles

(* If no save is given up, the app has all but what is on its way. *)
UpToDate == Fresh /\ \A m \in Module \ Due : Current(m)

LEMMA UpToDateStep ==
    ASSUME EditWhen = "quiet", SavesArrive,
           PatientInv, UpToDate, [HmrNext]_vars
    PROVE  UpToDate'
<1>1. Dropped = {}
    BY DEF Dropped, WatcherError, BuildFailed, BuildEnds, PatientInv, ConnectedInv, AllSavedCompile,
           SavesArrive
<1> QED
    BY <1>1, PatientIsSerial, FreshStep, CurrentStep DEF UpToDate

LEMMA FreshInit == HmrInit => Fresh /\ \A m \in Module : Current(m)
<1> SUFFICES ASSUME HmrInit PROVE Fresh /\ \A m \in Module : Current(m)
    OBVIOUS
<1>1. /\ Running = {} /\ outbox = <<>> /\ bundle = NoCode /\ registry = EmptyRegistry
    BY DEF HmrInit, Init, ClientInit, NoBuilds, Running
<1> QED
    BY <1>1, CodeFacts DEF Fresh, Current, FromDisk, EmptyRegistry, Cached, Loaded, NoCode

LEMMA UpToDateInit == HmrInit => UpToDate
BY FreshInit DEF UpToDate

LEMMA UpToDateInvariant ==
    ASSUME EditWhen = "quiet", SavesArrive
    PROVE  HmrSpec => [](PatientInv /\ UpToDate)
<1>1. HmrInit => PatientInv /\ UpToDate
    BY PatientInit, UpToDateInit
<1>2. PatientInv /\ UpToDate /\ [HmrNext]_vars => (PatientInv /\ UpToDate)'
    BY PatientStep, UpToDateStep DEF SavesArrive
<1> QED
    BY <1>1, <1>2, PTL DEF HmrSpec

(***************************************************************************)
(* A patient developer whose saves all compile, and whose watcher reports  *)
(* every save, has the code on disk in the app whenever nothing is under   *)
(* way, however many files a save has: what payloads leave out as known    *)
(* was sent before, and no newer (dev-bundler.ts:119-132).                 *)
(***************************************************************************)
THEOREM QuietInSync ==
    ASSUME EditWhen = "quiet", SavesArrive
    PROVE  HmrSpec => []InSync
<1>1. PatientInv /\ UpToDate => InSync
    <2> SUFFICES ASSUME PatientInv, UpToDate, Settled, NEW m \in known
                 PROVE  /\ registry.run[m] \in {disk[m], Stub}
                        /\ registry.result[m] \in {disk[m], Stub, None}
        BY DEF InSync, KnownOnDisk
    <2>1. Due = {} /\ m \in Module /\ m \in Tracked /\ connected /\ outbox = <<>>
        BY DEF Settled, Due, Tracked, PatientInv, ConnectedInv, HmrInv, TypeOK
    <2>2. registry.run[m] # None
        BY <2>1, PatientPresent DEF Loaded
    <2> QED
        BY <2>1, <2>2 DEF UpToDate, Current
<1> QED
    BY <1>1, UpToDateInvariant, PTL
-----------------------------------------------------------------------------
(***************************************************************************)
(* With saves that come to nothing: the files of the last event, broken or *)
(* not reported, are all that a patient developer loses.                   *)
(***************************************************************************)
(* What is tracked the app has, or will have, or its save was given up. *)
Accounted == Tracked \ missed \subseteq Present(Len(outbox)) \cup Due

MissedInv ==
    /\ SerialInv /\ Fresh
    /\ \A m \in Module \ (Due \cup missed) : Current(m)
    /\ connected => Accounted
    /\ Live /\ ~connected => known = Loaded(bundle)

(* A running build puts back no more than it took and the rest of its      *)
(* event, all of which is dropped.                                         *)
LEMMA TrackedOrMissed ==
    ASSUME EditWhen = "quiet", MissedInv, connected', [GivenNext]_givenVars
    PROVE  Accounted'
<1>0. TypeOK /\ HmrInv /\ OneAtATime /\ SerialInv /\ Fresh
    BY DEF MissedInv, SerialInv, HmrInv
<1>1. CASE UNCHANGED givenVars
    BY <1>1 DEF MissedInv, Accounted, givenVars, vars, serverVars, clientVars, Tracked, Running,
                Present, Due
<1>2. CASE ServerStep /\ missed' = (missed \cup Dropped) \ Saved /\ UNCHANGED clientVars
    <2>0. UNCHANGED registry
        BY <1>2 DEF clientVars
    <2>1. connected
        BY <1>2 DEF ServerStep, BuildStep, Edit, FullLoad, WatcherError, NotifyIrrelevant,
            FullDone, FullFailed, Subscribed, Notify, OnLoadStub, OnLoadTransform, ReadFile,
            BuildDone, BuildFailed
    <2>2. Tracked \ missed \subseteq Present(Len(outbox)) \cup Due
        BY <2>1 DEF MissedInv, Accounted
    <2>3. UNCHANGED disk => missed' = missed \cup Dropped
        BY <1>2 DEF Saved
    <2>4. UNCHANGED outbox => Present(Len(outbox))' = Present(Len(outbox))
        BY <2>0 DEF Present
    <2> HIDE DEF Accounted
    <2>5. ASSUME NEW n \in Module, Edit(n) PROVE Accounted'
        <3>1. /\ UNCHANGED <<known, builds, outbox>> /\ pending' = pending \cup {n}
              /\ \E k : disk' = [disk EXCEPT ![n] = k]
            BY <2>5 DEF Edit, EditAllowed
        <3>2. Due' = Due \cup {n} /\ Tracked' = Tracked
            BY <3>1 DEF Due, Tracked, Running
        <3>3. Saved \subseteq {n}
            BY <1>0, <3>1 DEF Saved, TypeOK
        <3> QED
            BY <1>2, <2>2, <2>4, <3>1, <3>2, <3>3 DEF Accounted
    <2>6. CASE WatcherError
        <3>1. pending' = {} /\ UNCHANGED <<disk, known, builds, outbox>>
            BY <2>6 DEF WatcherError
        <3>2. Due \subseteq Due' \cup pending /\ Tracked' = Tracked
            BY <3>1 DEF Due, Tracked, Running
        <3>3. pending \cap known \subseteq Dropped
            BY <1>0, <2>6 DEF Dropped, TypeOK
        <3>4. pending \cap Tracked \subseteq known
            BY <1>0 DEF Tracked, SerialInv, QuietInv, Undisturbed
        <3> QED
            BY <2>2, <2>3, <2>4, <3>1, <3>2, <3>3, <3>4 DEF Accounted
    <2>7. CASE UNCHANGED <<disk, known, pending, builds, outbox>>
        <3>1. Due' = Due /\ Tracked' = Tracked
            BY <2>7 DEF Due, Tracked, Running
        <3> QED
            BY <2>2, <2>3, <2>4, <2>7, <3>1 DEF Accounted
    <2>8. CASE FullDone \/ FullFailed
        BY <1>0, <2>1, <2>8 DEF FullDone, FullFailed, FullEnds, OneAtATime, OnlyWhenConnected, Live
    <2>9. CASE NotifyIrrelevant
        <3>1. /\ pending # {} /\ pending' = {} /\ known' \subseteq known /\ pending \cap known = {}
              /\ UNCHANGED <<disk, builds, outbox>>
            BY <2>9 DEF NotifyIrrelevant, Invalidated
        <3>2. Running = {} /\ Running' = {}
            BY <1>0, <3>1 DEF SerialInv, QuietInv, Undisturbed, Running
        <3>3. Due \subseteq Due' \cup pending /\ Tracked' = known' /\ Tracked = known
            BY <3>1, <3>2 DEF Due, Tracked
        <3> QED
            BY <2>2, <2>3, <2>4, <3>1, <3>3 DEF Accounted
    <2>10. ASSUME NEW s \in Slot, Notify(s) PROVE Accounted'
        <3>1. pending # {} /\ pending' = {} /\ UNCHANGED <<disk, outbox>>
            BY <2>10 DEF Notify
        <3>2. /\ Running = {} /\ Running' = {s} /\ builds'[s].replace = pending \cap known
              /\ known' = known \ pending
            BY <1>0, <2>10, <3>1, StartedBuild DEF SerialInv, QuietInv, Undisturbed
        <3>3. Due \subseteq Due' \cup (pending \ known)
            BY <3>1, <3>2 DEF Due
        <3>4. Tracked = known /\ Tracked' = known' \cup (pending \cap known)
            BY <3>2 DEF Tracked
        <3> QED
            BY <2>2, <2>3, <2>4, <3>1, <3>2, <3>3, <3>4 DEF Accounted
    <2>11. ASSUME NEW s \in Slot, Reads(s) PROVE Accounted'
        <3>1. UNCHANGED <<Tracked, Due, disk, outbox>>
            BY <1>0, <2>11, ReadingBuilds DEF Tracked, Due
        <3> QED
            BY <2>2, <2>3, <2>4, <3>1 DEF Accounted
    <2>12. ASSUME NEW s \in Slot, BuildDone(s) PROVE Accounted'
        <3>1. /\ s \in Running /\ Running' = Running \ {s}
              /\ \A t \in Running' : builds'[t] = builds[t]
            BY <1>0, <2>12, EndedBuild
        <3>2. /\ outbox' = Append(outbox, Payload(builds[s])) /\ outbox \in Seq(Update)
              /\ known' \subseteq known \cup Loaded(Payload(builds[s]).code)
              /\ UNCHANGED <<disk, pending>>
            BY <1>0, <2>1, <2>12 DEF BuildDone, InPayload, Payload, TypeOK
        <3>3. Present(Len(outbox))' = Present(Len(outbox)) \cup Loaded(Payload(builds[s]).code)
            BY <2>0, <3>2, PresentSent
        <3>4. Tracked' \subseteq Tracked \cup Loaded(Payload(builds[s]).code)
            BY <3>1, <3>2 DEF Tracked
        <3>5. builds[s].replace \subseteq Loaded(Payload(builds[s]).code)
            BY <1>0, <2>12, EndedBuilds DEF BuildDone, Payload
        <3>6. Running = {s} /\ outbox = <<>>
            BY <1>0, <2>1, <3>1 DEF SerialInv, QuietInv, OneBuild, OneAtATime, OnlyWhenConnected
        <3>7. Due \subseteq Due' \cup builds[s].replace
            BY <3>2, <3>6 DEF Due
        <3> QED
            BY <2>2, <2>3, <3>2, <3>3, <3>4, <3>5, <3>7 DEF Accounted
    <2>13. ASSUME NEW s \in Slot, BuildFailed(s) PROVE Accounted'
        <3>1. /\ s \in Running /\ Running' = Running \ {s}
              /\ \A t \in Running' : builds'[t] = builds[t]
              /\ known' = known \cup builds[s].changed /\ UNCHANGED <<disk, pending, outbox>>
            BY <1>0, <2>13, EndedBuild DEF BuildFailed, Reset
        <3>2. Tracked' \subseteq Tracked \cup builds[s].changed
            BY <3>1 DEF Tracked
        <3>3. builds[s].changed \subseteq Dropped
            BY <1>0, <2>13, <3>1, RunningBuilds DEF Dropped, Build
        <3>4. builds[s].replace \subseteq builds[s].changed
            BY <1>0, <3>1 DEF HmrInv, ReplaceChanged
        <3>5. Due \subseteq Due' \cup builds[s].replace
            BY <3>1 DEF Due
        <3> QED
            BY <2>2, <2>3, <2>4, <3>1, <3>2, <3>3, <3>4, <3>5 DEF Accounted
    <2> QED
        BY <1>2, <2>5, <2>6, <2>7, <2>8, <2>9, <2>10, <2>11, <2>12, <2>13
        DEF ServerStep, BuildStep, Reads, FullLoad, Subscribed
<1>3. CASE Reload
    BY <1>3 DEF Reload, BundleRequest
<1>4. CASE Start
    <2>1. Live /\ ~connected /\ UNCHANGED <<known, bundle, builds, outbox>>
        BY <1>4 DEF Start, Connect, Live
    <2>2. known = Loaded(bundle) /\ Running = {}
        BY <1>0, <2>1 DEF MissedInv, OneAtATime, OnlyWhenConnected
    <2>3. Tracked' = Loaded(bundle)
        BY <2>1, <2>2 DEF Tracked, Running
    <2>4. Loaded(registry'.run) = Loaded(bundle)
        BY <1>0, <1>4, StartRun DEF TypeOK
    <2> QED
        BY <2>3, <2>4 DEF Accounted, Present
<1>5. CASE Deliver /\ UNCHANGED missed
    <2>1. connected /\ UNCHANGED <<known, builds>> /\ outbox # <<>>
        BY <1>5 DEF Deliver, Receive
    <2>2. /\ Len(outbox) \in Nat /\ Len(outbox') = Len(outbox) - 1 /\ Len(outbox) # 0
          /\ \A n \in 0 .. Len(outbox') : Present(n)' = Present(n + 1)
        BY <1>0, <1>5, <2>1, PresentReceived
    <2>3. Present(Len(outbox))' = Present(Len(outbox))
        <3>1. Len(outbox') \in 0 .. Len(outbox') /\ Len(outbox') + 1 = Len(outbox)
            BY <2>2
        <3> QED
            BY <2>2, <3>1 DEF Present
    <2>4. Tracked' = Tracked
        BY <2>1 DEF Tracked, Running
    <2>5. Due \subseteq Present(Len(outbox))
        <3>1. 1 \in DOMAIN outbox /\ Head(outbox) = outbox[1] /\ 1 \in 1 .. Len(outbox)
            BY <1>0, <2>1, DeliveredUpdate DEF HmrInv, TypeOK
        <3>2. Due = outbox[1].replace /\ outbox[1].replace \subseteq outbox[1].graph
            BY <1>0, <1>5, <3>1, DeliverCurrent
        <3>3. \A m \in outbox[1].graph : outbox[1].code[m] # None
            BY <1>0, <3>1 DEF SerialInv, QuietInv, UpdatesExact, IsExact
        <3>4. outbox[1].graph \subseteq Module
            BY <1>0, <2>1, <3>1, DeliveredUpdate DEF HmrInv, Update
        <3>5. Due \subseteq Loaded(outbox[1].code)
            BY <3>2, <3>3, <3>4 DEF Loaded
        <3> QED
            BY <3>1, <3>5 DEF Present
    <2> QED
        BY <1>5, <2>1, <2>3, <2>4, <2>5 DEF MissedInv, Accounted
<1> QED
    BY <1>1, <1>2, <1>3, <1>4, <1>5 DEF GivenNext

(* Nothing happens to a session whose app has yet to connect. *)
LEMMA BundleIsKnown ==
    ASSUME MissedInv, Live', ~connected', [GivenNext]_givenVars
    PROVE  known' = Loaded(bundle')
<1>0. TypeOK /\ HmrInv /\ OneAtATime
    BY DEF MissedInv, SerialInv, HmrInv
<1>1. CASE UNCHANGED givenVars
    BY <1>1 DEF MissedInv, givenVars, vars, serverVars, Live
<1>2. CASE ServerStep
    <2>1. CASE FullDone \/ FullFailed
        BY <2>1 DEF FullDone, FullFailed, FullEnds, Live
    <2>2. ASSUME NEW m \in Module, FullLoad(m) PROVE FALSE
        BY <2>2 DEF FullLoad, Live
    <2>3. CASE UNCHANGED <<known, bundle, connected>> /\ Live' = Live
        BY <2>3 DEF MissedInv
    <2>4. CASE NotifyIrrelevant \/ \E s \in Slot : Notify(s)
        <3>1. pending # {} /\ UNCHANGED connected
            BY <2>4 DEF NotifyIrrelevant, Notify
        <3> QED
            BY <1>0, <3>1 DEF OneAtATime, OnlyWhenConnected
    <2>5. ASSUME NEW s \in Slot, Reads(s) \/ BuildDone(s) \/ BuildFailed(s) PROVE FALSE
        <3>1. s \in Running /\ UNCHANGED connected
            BY <2>5 DEF Reads, OnLoadStub, OnLoadTransform, ReadFile, BuildDone, BuildFailed, BuildEnds
        <3> QED
            BY <1>0, <3>1 DEF OneAtATime, OnlyWhenConnected
    <2> QED
        BY <1>2, <2>1, <2>2, <2>3, <2>4, <2>5
        DEF ServerStep, BuildStep, Reads, Edit, WatcherError, Subscribed, Live
<1>3. CASE Reload
    BY <1>3 DEF Reload, BundleRequest, Live
<1>4. CASE Start \/ Deliver
    <2>1. connected'
        BY <1>0, <1>4 DEF Start, Connect, Deliver, Receive, OneAtATime, OnlyWhenConnected
    <2> QED
        BY <2>1
<1> QED
    BY <1>1, <1>2, <1>3, <1>4 DEF GivenNext

LEMMA MissedStep ==
    ASSUME EditWhen = "quiet", MissedInv, [GivenNext]_givenVars
    PROVE  MissedInv'
<1>1. [HmrNext]_vars
    BY DEF GivenNext, givenVars, HmrNext, Reload
<1>2. SerialInv /\ Fresh /\ SerialInv' /\ Fresh'
    BY <1>1, SerialStep, FreshStep DEF MissedInv
<1>3. ASSUME NEW m \in Module, m \notin Due', m \notin missed' PROVE Current(m)'
    <2>1. CASE m \notin missed /\ m \notin Dropped
        BY <1>1, <1>2, <1>3, <2>1, CurrentStep DEF MissedInv
    <2>2. CASE UNCHANGED givenVars
        BY <1>3, <2>2 DEF givenVars, vars, serverVars, clientVars, MissedInv, Due, Running, Current
    <2>3. CASE ServerStep /\ missed' = (missed \cup Dropped) \ Saved
        <3>1. m \notin Saved
            <4>1. CASE UNCHANGED disk
                BY <4>1 DEF Saved
            <4>2. ASSUME NEW n \in Module, Edit(n) PROVE m \notin Saved
                <5>1. pending' = pending \cup {n} /\ \E k : disk' = [disk EXCEPT ![n] = k]
                    BY <4>2 DEF Edit, EditAllowed
                <5>2. n \in Due'
                    BY <5>1 DEF Due
                <5> QED
                    BY <1>2, <1>3, <5>1, <5>2 DEF Saved, SerialInv, HmrInv, TypeOK
            <4> QED
                BY <2>3, <4>1, <4>2
                DEF ServerStep, FullLoad, WatcherError, NotifyIrrelevant, FullDone, FullFailed,
                    Subscribed, BuildStep, Notify, OnLoadStub, OnLoadTransform, ReadFile,
                    BuildDone, BuildFailed
        <3> QED
            BY <1>3, <2>1, <2>3, <3>1
    <2>4. CASE Reload
        BY <2>4, CodeFacts DEF Reload, DropRegistry, EmptyRegistry, Current
    <2>5. CASE Start /\ UNCHANGED missed
        <3>1. m \notin missed /\ m \notin Dropped
            BY <1>3, <2>5 DEF Dropped, Start, Connect, BuildFailed, WatcherError
        <3> QED
            BY <2>1, <3>1
    <2>6. CASE Deliver /\ UNCHANGED missed
        <3>1. m \in Head(outbox).graph \/ Current(m)
            BY <1>2, <1>3, <2>6, DeliverCurrent DEF MissedInv
        <3> QED
            BY <1>2, <2>6, <3>1, DeliverCurrent
    <2> QED
        BY <2>2, <2>3, <2>4, <2>5, <2>6 DEF GivenNext
<1> QED
    BY <1>2, <1>3, TrackedOrMissed, BundleIsKnown DEF MissedInv

(***************************************************************************)
(* Whatever breaks and whatever the watcher does not report, an app whose  *)
(* developer waits for one save before the next has, when nothing is under *)
(* way, the code on disk of every module that the server knows, but for    *)
(* the files of the events that were given up (dev-bundler.ts:128-170).    *)
(***************************************************************************)
THEOREM OnlyDroppedAreBehind ==
    ASSUME EditWhen = "quiet"
    PROVE  GivenSpec => []OnlyMissedBehind
<1>1. GivenInit => MissedInv
    <2> SUFFICES ASSUME GivenInit PROVE MissedInv
        OBVIOUS
    <2>1. HmrInit /\ ~connected /\ ~Live
        BY DEF GivenInit, HmrInit, Init, Live
    <2> QED
        BY <2>1, SerialInit, FreshInit DEF MissedInv
<1>2. MissedInv /\ [GivenNext]_givenVars => MissedInv'
    BY MissedStep
<1>3. MissedInv => OnlyMissedBehind
    <2> SUFFICES ASSUME MissedInv, Settled, NEW m \in known \ missed
                 PROVE  /\ registry.run[m] \in {disk[m], Stub}
                        /\ registry.result[m] \in {disk[m], Stub, None}
        BY DEF OnlyMissedBehind
    <2>1. /\ Due = {} /\ m \in Module /\ m \in Tracked /\ connected
          /\ Len(outbox) = 0
        BY DEF Settled, Due, Tracked, MissedInv, SerialInv, HmrInv, TypeOK
    <2>2. Present(0) = Loaded(registry.run)
        BY DEF Present
    <2>3. registry.run[m] # None
        BY <2>1, <2>2 DEF MissedInv, Accounted, Loaded
    <2> QED
        BY <2>1, <2>3 DEF MissedInv, Current
<1> QED
    BY <1>1, <1>2, <1>3, PTL DEF GivenSpec
-----------------------------------------------------------------------------
(***************************************************************************)
(* The code that the app is to have of a module: what is on disk, or, if   *)
(* the last save of it was given up, what the app already has.             *)
(***************************************************************************)
Text(m) == IF m \in missed /\ given[m] # None THEN given[m] ELSE disk[m]

TextRequires == [m \in Module |-> Requires(Text(m))]

(* All that an app which has the modules of S needs. *)
Needed(S) == Closure({Entry} \cup S, TextRequires)

LEMMA NeededFacts ==
    ASSUME TypeOK, given \in [Module -> MaybeCode], NEW S \in SUBSET Module
    PROVE  /\ {Entry} \cup S \subseteq Needed(S) /\ Needed(S) \subseteq Module
           /\ \A m \in Needed(S) : Requires(Text(m)) \subseteq Needed(S)
<1>1. {Entry} \cup S \in SUBSET Module
    BY SourceAssumption
<1>2. Needed(S) \subseteq Module
    BY DEF Needed, Closure
<1>3. ASSUME NEW m \in Module
      PROVE  TextRequires[m] = Requires(Text(m)) /\ Requires(Text(m)) \subseteq Module
    <2>1. Text(m) \in Code
        BY DEF Text, TypeOK, Code, MaybeCode
    <2>2. Text(m).imports \subseteq Module
        BY <2>1 DEF Code, Content, Stub
    <2> QED
        BY <2>2 DEF TextRequires, Requires
<1>4. {Entry} \cup S \subseteq Needed(S)
    BY <1>1, ClosureContains DEF Needed
<1>5. \A m \in Needed(S) : TextRequires[m] \subseteq Needed(S)
    BY <1>2, <1>3, ClosureClosed DEF Needed
<1> QED
    BY <1>2, <1>3, <1>4, <1>5

(* The modules of which the app keeps an earlier text than that on disk,   *)
(* and the code of a build or an update that does not touch them.          *)
Held == missed \cap Loaded(given)

Spares(code) == \A m \in Held : code[m] \in {None, Stub}

(* What the app has been given is all of one state of the project as far   *)
(* as nothing is due.                                                      *)
GivenWhole ==
    /\ given \in [Module -> MaybeCode]
    /\ Loaded(given) = Loaded(registry.run) /\ Closed(given) /\ AllCompile(given)
    /\ \A m \in Module \ (Due \cup missed) : given[m] \in {disk[m], None}
    /\ connected => Entry \in Loaded(given)
    /\ pending \cap missed = {}
    /\ SavesArrive => missed = {}

BuildWhole(b) ==
    /\ Loaded(b.code) \cup b.reading \subseteq Needed(Loaded(given))
    /\ Held \cap (b.replace \cup b.reading) = {}
    /\ Spares(b.code)

UpdateWhole(u) ==
    /\ Loaded(u.code) \subseteq Needed(Loaded(given))
    /\ Spares(u.code) /\ AllCompile(u.code)

(* So is what the server is about to give it. *)
ComingWhole ==
    /\ ~connected => /\ \A m \in Module : bundle[m] \in {disk[m], None}
                     /\ Loaded(bundle) \subseteq Needed({})
    /\ Live => Entry \in Loaded(bundle) /\ AllCompile(bundle)
    /\ \A s \in Running : BuildWhole(builds[s])
    /\ \A i \in DOMAIN outbox : UpdateWhole(outbox[i])

WholeInv == PatientInv /\ Fresh /\ GivenWhole /\ ComingWhole

LEMMA DiskIsCode == TypeOK => None \notin {disk[m] : m \in Module}
BY SourceAssumption DEF TypeOK, Code

LEMMA NoCodeGiven ==
    ASSUME GivenWhole, ~connected, OneAtATime
    PROVE  given = NoCode
<1>1. registry = EmptyRegistry
    BY DEF OneAtATime, OnlyWhenConnected
<1>2. Loaded(given) = {}
    BY <1>1, EmptyRegistryFacts, ClosedNoCode DEF GivenWhole
<1> QED
    BY <1>2 DEF GivenWhole, Loaded, NoCode

(* What neither the app nor the watcher nor a failed build has a part in   *)
(* gives up nothing.                                                       *)
LEMMA NothingMissed ==
    ASSUME TypeOK, missed' = (missed \cup Dropped) \ Saved, UNCHANGED disk,
           \/ UNCHANGED <<pending, builds>>
           \/ NotifyIrrelevant
           \/ \E s \in Slot : Notify(s) \/ Reads(s) \/ BuildDone(s)
    PROVE  missed' = missed
<1>1. Saved = {}
    BY DEF Saved
<1>2. ~WatcherError \/ pending \cap known = {}
    <2>1. CASE UNCHANGED <<pending, builds>>
        BY <2>1 DEF WatcherError
    <2>2. CASE NotifyIrrelevant
        BY <2>2 DEF NotifyIrrelevant
    <2>3. ASSUME NEW s \in Slot, Notify(s) PROVE ~WatcherError
        BY <2>3, StartedBuild DEF WatcherError, Running
    <2>4. ASSUME NEW s \in Slot, Reads(s) PROVE ~WatcherError
        BY <2>4, ReadingBuilds DEF WatcherError
    <2>5. ASSUME NEW s \in Slot, BuildDone(s) PROVE ~WatcherError
        BY <2>5, EndedBuild DEF WatcherError, Running
    <2> QED
        BY <2>1, <2>2, <2>3, <2>4, <2>5
<1>3. ASSUME NEW t \in Slot, BuildFailed(t) PROVE FALSE
    <2>1. t \in Running /\ Running' = Running \ {t}
        BY <1>3, EndedBuild
    <2>2. CASE UNCHANGED <<pending, builds>> \/ NotifyIrrelevant
        BY <2>1, <2>2 DEF NotifyIrrelevant, Running
    <2>3. ASSUME NEW s \in Slot, Notify(s) PROVE FALSE
        BY <2>1, <2>3, StartedBuild
    <2>4. ASSUME NEW s \in Slot, Reads(s) PROVE FALSE
        BY <2>1, <2>4, ReadingBuilds
    <2>5. ASSUME NEW s \in Slot, BuildDone(s) PROVE FALSE
        <3>1. s \in Running /\ Running' = Running \ {s}
            BY <2>5, EndedBuild
        <3>2. s = t
            BY <2>1, <3>1
        <3> QED
            BY <1>3, <2>5, <3>2 DEF BuildDone, BuildFailed
    <2> QED
        BY <2>2, <2>3, <2>4, <2>5
<1> QED
    BY <1>1, <1>2, <1>3 DEF Dropped

LEMMA GivenKept ==
    ASSUME GivenWhole, UNCHANGED <<registry, given, connected>>,
           \A m \in Module \ (Due' \cup missed') : given[m] \in {disk'[m], None},
           pending' \cap missed' = {}, SavesArrive => missed' = {}
    PROVE  GivenWhole'
BY DEF GivenWhole, Closed, AllCompile

(* The steps that leave alone what the app has been given. *)
LEMMA ServerKeepsWhole ==
    ASSUME EditWhen = "quiet", SavesArrive \/ Transformed = Module, WholeInv, ServerStep,
           missed' = (missed \cup Dropped) \ Saved, UNCHANGED <<clientVars, given>>
    PROVE  GivenWhole' /\ ComingWhole'
<1>0. /\ TypeOK /\ HmrInv /\ OneAtATime /\ PatientInv /\ SerialInv /\ QuietInv
      /\ Fresh /\ GivenWhole /\ ComingWhole /\ UNCHANGED <<registry, given>>
    BY PatientIsSerial DEF WholeInv, SerialInv, PatientInv, ConnectedInv, HmrInv, clientVars
<1> HIDE DEF WholeInv
<1>1. CASE UNCHANGED <<disk, phase, bundle, pending, builds, connected, outbox>>
    <2>1. missed' = missed
        BY <1>0, <1>1, NothingMissed
    <2>2. Due' = Due /\ Running' = Running
        BY <1>1 DEF Due, Running
    <2>3. GivenWhole'
        BY <1>0, <1>1, <2>1, <2>2, GivenKept DEF GivenWhole
    <2>4. ComingWhole'
        BY <1>0, <1>1, <2>1, <2>2
        DEF ComingWhole, BuildWhole, UpdateWhole, Spares, Held, Needed, TextRequires, Text, Live
    <2> QED
        BY <2>3, <2>4
<1>2. ASSUME NEW n \in Module, Edit(n) PROVE GivenWhole' /\ ComingWhole'
    <2>1. /\ connected /\ Running = {} /\ outbox = <<>> /\ phase = "watching"
          /\ UNCHANGED <<phase, bundle, builds, connected, outbox>>
          /\ pending' = pending \cup {n}
          /\ \E k : k # disk[n] /\ disk' = [disk EXCEPT ![n] = k]
        BY <1>2 DEF Edit, EditAllowed
    <2>2. Saved = {n} /\ \A m \in Module \ {n} : disk'[m] = disk[m]
        BY <1>0, <2>1 DEF TypeOK, Saved
    <2>3. Dropped = {}
        BY <2>1 DEF Dropped, WatcherError, BuildFailed, BuildEnds
    <2>4. missed' = missed \ {n}
        BY <2>2, <2>3
    <2>5. Due' = Due \cup {n} /\ Running' = {} /\ Live' = Live
        BY <2>1 DEF Due, Running, Live
    <2>6. GivenWhole'
        BY <1>0, <2>1, <2>2, <2>4, <2>5, GivenKept DEF GivenWhole
    <2> QED
        BY <1>0, <2>1, <2>5, <2>6 DEF ComingWhole
<1>3. ASSUME NEW n \in Module, FullLoad(n) PROVE GivenWhole' /\ ComingWhole'
    <2>1. /\ bundle' = [bundle EXCEPT ![n] = disk[n]]
          /\ UNCHANGED <<disk, phase, pending, builds, connected, outbox>>
          /\ phase = "bundling" /\ n \in Discovered({Entry}, bundle)
        BY <1>3 DEF FullLoad
    <2>2. ~connected /\ ~Live /\ Running = {} /\ outbox = <<>>
        BY <1>0, <2>1 DEF OneAtATime, OnlyWhenConnected, Live
    <2>3. \A m \in Module : bundle'[m] \in {disk[m], None}
        BY <1>0, <2>1, <2>2 DEF ComingWhole, TypeOK
    <2>4. Loaded(bundle') \subseteq Loaded(bundle) \cup {n}
        BY <1>0, <2>1 DEF Loaded, TypeOK
    <2>5. n \in Needed({})
        <3>1. given = NoCode
            BY <1>0, <2>2, NoCodeGiven
        <3>2. \A m \in Loaded(bundle) : m \in Needed({}) /\ Requires(bundle[m]) = Requires(Text(m))
            BY <1>0, <2>2, <3>1, CodeFacts DEF ComingWhole, Loaded, Text
        <3>3. given \in [Module -> MaybeCode]
            BY <3>1, CodeFacts
        <3>4. Entry \in Needed({}) /\ \A m \in Needed({}) : Requires(Text(m)) \subseteq Needed({})
            BY <1>0, <3>3, NeededFacts
        <3> QED
            BY <2>1, <3>2, <3>4 DEF Discovered
    <2>6. missed' = missed
        BY <1>0, <2>1, NothingMissed
    <2>7. Needed({})' = Needed({})
        BY <1>0, <2>1, <2>6 DEF Needed, TextRequires, Text
    <2>8. ~Live' /\ Due' = Due /\ Running' = {}
        BY <2>1, <2>2 DEF Live, Due, Running
    <2>9. GivenWhole'
        BY <1>0, <2>1, <2>6, <2>8, GivenKept DEF GivenWhole
    <2>10. Loaded(bundle') \subseteq Needed({})
        BY <1>0, <2>2, <2>4, <2>5 DEF ComingWhole
    <2>11. outbox' = <<>> /\ \A m \in Module : bundle'[m] \in {disk'[m], None}
        BY <2>1, <2>2, <2>3
    <2> QED
        BY <2>7, <2>8, <2>9, <2>10, <2>11 DEF ComingWhole
<1>4. CASE WatcherError \/ NotifyIrrelevant
    <2>1. /\ pending # {} /\ pending' = {}
          /\ UNCHANGED <<disk, phase, bundle, builds, connected, outbox>>
        BY <1>4 DEF WatcherError, NotifyIrrelevant
    <2>2. connected /\ outbox = <<>> /\ Running = {} /\ Running' = {} /\ Live' = Live
        BY <1>0, <2>1 DEF OneAtATime, OnlyWhenConnected, QuietInv, Undisturbed, Running, Live
    <2>3. missed' = missed \cup Dropped
        BY <2>1 DEF Saved
    <2>4. Due \subseteq Due' \cup pending
        BY <2>1 DEF Due, Running
    <2>5. \A m \in pending \ known : m \in Module /\ given[m] = None
        BY <1>0, UnknownAbsent DEF GivenWhole, Loaded
    <2>6. \A m \in pending \cap known : m \in Dropped
        BY <1>0, <1>4 DEF Dropped, NotifyIrrelevant, TypeOK
    <2>7. SavesArrive => missed' = {}
        <3>1. SavesArrive => NotifyIrrelevant
            BY <1>4 DEF SavesArrive, WatcherError
        <3>2. NotifyIrrelevant => missed' = missed
            BY <1>0, <2>1, NothingMissed
        <3> QED
            BY <1>0, <3>1, <3>2 DEF GivenWhole
    <2>8. GivenWhole'
        BY <1>0, <2>1, <2>3, <2>4, <2>5, <2>6, <2>7, GivenKept DEF GivenWhole
    <2> QED
        BY <1>0, <2>1, <2>2, <2>8 DEF ComingWhole
<1>5. CASE FullDone \/ FullFailed \/ Subscribed
    <2>1. /\ UNCHANGED <<disk, bundle, pending, builds, connected, outbox>>
          /\ Live' => Live \/ (Entry \in Loaded(bundle) /\ AllCompile(bundle))
        BY <1>5 DEF FullDone, FullFailed, FullEnds, Subscribed, Discovered, Live
    <2>2. missed' = missed
        BY <1>0, <2>1, NothingMissed
    <2>3. Due' = Due /\ Running' = Running
        BY <2>1 DEF Due, Running
    <2>4. GivenWhole'
        BY <1>0, <2>1, <2>2, <2>3, GivenKept DEF GivenWhole
    <2>5. ComingWhole'
        BY <1>0, <2>1, <2>2, <2>3
        DEF ComingWhole, BuildWhole, UpdateWhole, Spares, Held, Needed, TextRequires, Text
    <2> QED
        BY <2>4, <2>5
<1>6. ASSUME NEW s \in Slot, Notify(s) PROVE GivenWhole' /\ ComingWhole'
    <2>1. /\ pending # {} /\ pending' = {}
          /\ UNCHANGED <<disk, phase, bundle, connected, outbox>>
        BY <1>6 DEF Notify
    <2>2. \A m \in pending \ known : m \in Module /\ given[m] = None
        BY <1>0, UnknownAbsent DEF GivenWhole, Loaded
    <2>3. /\ Running = {} /\ Running' = {s} /\ builds'[s].code = NoCode
          /\ builds'[s].replace = pending \cap known /\ builds'[s].reading = {}
        BY <1>0, <1>6, <2>1, StartedBuild DEF QuietInv, Undisturbed
    <2>4. Due \subseteq Due' \cup (pending \ known)
        BY <2>1, <2>3 DEF Due
    <2>5. missed' = missed /\ connected /\ outbox = <<>> /\ Live' = Live
        BY <1>0, <1>6, <2>1, NothingMissed DEF OneAtATime, OnlyWhenConnected, Live
    <2>6. GivenWhole'
        BY <1>0, <2>1, <2>2, <2>4, <2>5, GivenKept DEF GivenWhole
    <2>7. Held' = Held /\ Held \cap pending = {} /\ Held \subseteq Module
        BY <1>0, <2>5 DEF Held, GivenWhole, Loaded
    <2>8. BuildWhole(builds[s])'
        BY <2>3, <2>7, CodeFacts, ClosedNoCode DEF BuildWhole, Spares
    <2> QED
        BY <1>0, <2>1, <2>3, <2>5, <2>6, <2>8 DEF ComingWhole
<1>7. ASSUME NEW s \in Slot, Reads(s) PROVE GivenWhole' /\ ComingWhole'
    <2>0. s \in Running
        BY <1>7 DEF Reads, OnLoadStub, OnLoadTransform, ReadFile
    <2>1. /\ Due' = Due /\ Running' = Running /\ builds'[s].replace = builds[s].replace
          /\ s \in Running /\ UNCHANGED <<disk, phase, bundle, pending, connected, outbox>>
        BY <1>0, <1>7, <2>0, ReadingBuilds DEF Due
    <2>2. connected /\ outbox = <<>> /\ Running = {s}
        BY <1>0, <2>1 DEF OneAtATime, OnlyWhenConnected, QuietInv, OneBuild
    <2>3. missed' = missed
        BY <1>0, <1>7, <2>1, NothingMissed
    <2>4. GivenWhole'
        BY <1>0, <2>1, <2>3, GivenKept DEF GivenWhole
    <2> DEFINE N == Needed(Loaded(given))
    <2>5. N' = N /\ Held' = Held /\ Live' = Live
        BY <1>0, <2>1, <2>3 DEF Needed, TextRequires, Text, Held, Live
    <2>6. /\ Loaded(given) \subseteq N /\ Loaded(builds[s].code) \cup builds[s].reading \subseteq N
          /\ \A m \in N : Requires(Text(m)) \subseteq N
        <3>1. Loaded(given) \in SUBSET Module
            BY DEF Loaded
        <3> QED
            BY <1>0, <2>1, <3>1, NeededFacts DEF ComingWhole, BuildWhole, GivenWhole
    <2>7. Held \cap (builds[s].replace \cup builds[s].reading) = {} /\ Spares(builds[s].code)
        BY <1>0, <2>1 DEF ComingWhole, BuildWhole
    <2>8. Held \subseteq Module \cap Loaded(given)
        BY DEF Held, Loaded
    <2> HIDE DEF N
    <2>9. builds[s].replace \subseteq N
        <3>1. builds[s].replace \subseteq Tracked
            BY <2>2 DEF Tracked
        <3>2. Tracked \subseteq Loaded(given)
            BY <1>0, <2>2, PatientPresent DEF GivenWhole
        <3> QED
            BY <2>6, <3>1, <3>2
    <2>10. \A m \in Loaded(builds[s].code) : Requires(builds[s].code[m]) \subseteq N
        <3>1. \A m \in Loaded(builds[s].code) : m \in Module /\ builds[s].code[m] \in {disk[m], Stub}
            BY <1>0, <2>2 DEF Fresh, FromDisk, Loaded
        <3>2. Requires(Stub) = {}
            BY DEF Requires, Stub
        <3>3. \A m \in Module \ Held : Text(m) = disk[m]
            BY DEF Text, Held, Loaded
        <3>4. \A m \in Loaded(builds[s].code) : m \in Held => builds[s].code[m] = Stub
            BY <2>7 DEF Spares, Loaded
        <3> QED
            BY <2>6, <3>1, <3>2, <3>3, <3>4
    <2>11. ToLoad(builds[s]) \subseteq N
        BY <2>9, <2>10 DEF ToLoad, Discovered
    <2>12. Loaded(builds'[s].code) \cup builds'[s].reading \subseteq N
        BY <1>0, <1>7, <2>6, <2>11, ReadLoaded
    <2>13. Held \subseteq known \cap Transformed
        <3>1. Loaded(given) \subseteq known \cup builds[s].replace
            BY <1>0, <2>2 DEF GivenWhole, HmrInv, ClientOK, Live, Tracked, OneAtATime, OnlyWhenConnected
        <3>2. Held # {} => Transformed = Module
            BY <1>0 DEF Held, GivenWhole
        <3> QED
            BY <2>7, <2>8, <3>1, <3>2
    <2>14. Held \cap builds'[s].reading = {}
        BY <1>0, <1>7, <2>7, <2>8, <2>13, ReadReading DEF IsStubbed
    <2>15. \A m \in Held : builds'[s].code[m] \in {None, Stub}
        BY <1>0, <1>7, <2>7, <2>8, ReadCode DEF Spares
    <2>16. BuildWhole(builds[s])'
        BY <2>1, <2>5, <2>7, <2>12, <2>14, <2>15 DEF BuildWhole, Spares, N
    <2> QED
        BY <1>0, <2>1, <2>2, <2>4, <2>5, <2>16 DEF ComingWhole
<1>8. ASSUME NEW s \in Slot, BuildDone(s) PROVE GivenWhole' /\ ComingWhole'
    <2> DEFINE u == Payload(builds[s])
    <2>1. /\ s \in Running /\ Running' = {} /\ AllCompile(builds[s].code)
          /\ UNCHANGED <<disk, phase, bundle, pending, connected>>
        BY <1>0, <1>8, EndedBuild DEF QuietInv, OneBuild, BuildDone
    <2>2. connected /\ outbox = <<>> /\ outbox' = Append(outbox, u)
        BY <1>0, <1>8, <2>1 DEF OneAtATime, OnlyWhenConnected, BuildDone
    <2>3. DOMAIN outbox' = {1} /\ outbox'[1] = u
        BY <2>2
    <2>4. u.code = builds[s].code /\ u.replace = builds[s].replace
        BY DEF Payload
    <2> HIDE DEF u
    <2>5. Running = {s}
        BY <1>0, <2>1 DEF QuietInv, OneBuild
    <2>6. Due' = Due
        BY <2>1, <2>2, <2>3, <2>4, <2>5 DEF Due
    <2>7. missed' = missed
        BY <1>0, <1>8, <2>1, NothingMissed
    <2>8. UNCHANGED <<Live, Held, Needed(Loaded(given))>>
        BY <1>0, <2>1, <2>7 DEF Live, Held, Needed, TextRequires, Text
    <2>9. GivenWhole'
        BY <1>0, <2>1, <2>6, <2>7, GivenKept DEF GivenWhole
    <2>10. BuildWhole(builds[s])
        BY <1>0, <2>1 DEF ComingWhole
    <2>11. UpdateWhole(outbox[1])'
        BY <2>1, <2>3, <2>4, <2>8, <2>10 DEF UpdateWhole, BuildWhole, Spares, AllCompile
    <2> QED
        BY <1>0, <2>1, <2>2, <2>3, <2>8, <2>9, <2>11 DEF ComingWhole
<1>9. ASSUME NEW s \in Slot, BuildFailed(s) PROVE GivenWhole' /\ ComingWhole'
    <2>1. s \in Running /\ Running' = {} /\ UNCHANGED <<disk, phase, bundle, pending, connected, outbox>>
        BY <1>0, <1>9, EndedBuild DEF QuietInv, OneBuild, BuildFailed
    <2>2. connected /\ outbox = <<>> /\ pending = {} /\ Running = {s} /\ Live' = Live
        BY <1>0, <2>1 DEF OneAtATime, OnlyWhenConnected, QuietInv, Undisturbed, OneBuild, Live
    <2>3. missed' = missed \cup Dropped
        BY <2>1 DEF Saved
    <2>4. builds[s].replace \subseteq builds[s].changed /\ builds[s].changed \subseteq Dropped
        BY <1>0, <1>9, <2>1, RunningBuilds DEF HmrInv, ReplaceChanged, Dropped, Build
    <2>5. Due \subseteq Due' \cup builds[s].replace
        BY <2>1, <2>2 DEF Due
    <2>6. ~SavesArrive
        BY <1>0, <1>9 DEF SavesArrive, BuildFailed, BuildEnds, PatientInv, ConnectedInv, AllSavedCompile
    <2>7. GivenWhole'
        BY <1>0, <2>1, <2>2, <2>3, <2>4, <2>5, <2>6, GivenKept DEF GivenWhole
    <2> QED
        BY <1>0, <2>1, <2>2, <2>7 DEF ComingWhole
<1> QED
    BY <1>2, <1>3, <1>4, <1>5, <1>6, <1>7, <1>8, <1>9
    DEF ServerStep, BuildStep, Reads

(* Giving the app the text that counts of all that it has and needs, and   *)
(* of nothing else, is what HotReload calls Sync.                          *)
LEMMA SyncOf ==
    ASSUME AllCompile(given'), UNCHANGED <<disk, missed>>, given' \in [Module -> MaybeCode],
           \A m \in Module : given'[m] \in {Text(m), None},
           Loaded(given') = Needed(Loaded(given))
    PROVE  App!Sync
<1> DEFINE needed == Needed(Loaded(given))
<1>1. \A m \in Module : App!Text(m) = Text(m)
    BY DEF App!Text, Text
<1>2. needed = App!Closure({Entry} \cup App!Loaded(given),
                           [m \in Module |-> App!Requires(App!Text(m))])
    <2>1. [m \in Module |-> App!Requires(App!Text(m))] = TextRequires
        BY <1>1 DEF TextRequires, Requires, App!Requires
    <2> QED
        BY <2>1 DEF Needed, Closure, Loaded, App!Closure, App!Loaded
<1>3. \A m \in needed : m \in Module /\ given'[m] = Text(m) /\ Text(m).compiles
    BY DEF AllCompile, Loaded
<1>4. given' = [m \in Module |-> IF m \in needed THEN App!Text(m) ELSE None]
    BY <1>1, <1>3 DEF Loaded
<1> HIDE DEF needed
<1> QED
    BY <1>1, <1>2, <1>3, <1>4 DEF App!Sync

(* A started app has been given all that the entry point needs. *)
LEMMA StartIsSync ==
    ASSUME WholeInv, Start, given' = Give(NoCode, bundle), UNCHANGED missed
    PROVE  GivenWhole' /\ ComingWhole' /\ App!Sync
<1>0. TypeOK /\ HmrInv /\ OneAtATime /\ GivenWhole /\ ComingWhole
    BY DEF WholeInv, PatientInv, ConnectedInv, HmrInv
<1>1. /\ Live /\ ~connected /\ connected'
      /\ UNCHANGED <<disk, phase, bundle, known, pending, builds, outbox, missed>>
    BY DEF Start, Connect, Live
<1>2. Running = {} /\ outbox = <<>> /\ pending = {} /\ Running' = {} /\ Live'
    BY <1>0, <1>1 DEF OneAtATime, OnlyWhenConnected, Running, Live
<1>3. /\ \A m \in Module : bundle[m] \in {disk[m], None}
      /\ Loaded(bundle) \subseteq Needed({}) /\ Entry \in Loaded(bundle) /\ AllCompile(bundle)
    BY <1>0, <1>1 DEF ComingWhole
<1>4. Closed(bundle)
    BY <1>0, <1>1 DEF HmrInv, ShippedOK, Shippable
<1>5. given' = bundle
    <2>1. \A m \in Module : bundle[m] # Stub
        BY <1>0, <1>3, ContentIsNoStub, SourceAssumption DEF TypeOK, Code
    <2> QED
        BY <1>0, <2>1, CodeFacts DEF Give, TypeOK
<1>6. registry'.run = bundle
    BY <1>0, StartRun DEF TypeOK
<1>7. GivenWhole'
    BY <1>0, <1>1, <1>2, <1>3, <1>4, <1>5, <1>6 DEF GivenWhole, TypeOK, Closed, AllCompile
<1>8. ComingWhole'
    BY <1>0, <1>1, <1>2, <1>3 DEF ComingWhole, AllCompile
<1>9. given = NoCode
    BY <1>0, <1>1, NoCodeGiven
<1>10. \A m \in Module : Text(m) = disk[m]
    BY <1>9, CodeFacts DEF Text
<1>11. Needed({}) \subseteq Loaded(bundle)
    <2>1. \A m \in Loaded(bundle) : TextRequires[m] \subseteq Loaded(bundle)
        BY <1>3, <1>4, <1>10 DEF TextRequires, Requires, Closed, Loaded
    <2>2. {Entry} \cup {} \subseteq Loaded(bundle) /\ Loaded(bundle) \in SUBSET Module
        BY <1>3 DEF Loaded
    <2> QED
        BY <2>1, <2>2, ClosureLeast DEF Needed
<1>12. Loaded(bundle) = Needed(Loaded(given))
    BY <1>3, <1>9, <1>11, ClosedNoCode
<1>13. App!Sync
    BY <1>0, <1>1, <1>3, <1>5, <1>10, <1>12, SyncOf DEF TypeOK
<1> QED
    BY <1>7, <1>8, <1>13

(* An update gives the app all that it has and needs. *)
LEMMA DeliverIsSync ==
    ASSUME WholeInv, Deliver, given' = Give(given, Head(outbox).code), UNCHANGED missed
    PROVE  GivenWhole' /\ ComingWhole' /\ App!Sync
<1> DEFINE u == Head(outbox)
<1>0. /\ TypeOK /\ HmrInv /\ OneAtATime /\ PatientInv /\ Fresh /\ GivenWhole /\ ComingWhole
    BY DEF WholeInv, PatientInv, ConnectedInv, HmrInv
<1>1. /\ outbox # <<>> /\ outbox' = Tail(outbox)
      /\ UNCHANGED <<disk, phase, bundle, pending, builds, connected, missed>>
    BY DEF Deliver, Receive
<1>2. /\ Running = {} /\ pending = {} /\ outbox' = <<>> /\ connected
      /\ DOMAIN outbox = {1} /\ u = outbox[1] /\ u \in Update
    BY <1>0, <1>1, DeliveredUpdate DEF OneAtATime, OnlyWhenConnected, TypeOK
<1>3. Due = u.replace /\ Due' = {} /\ Running' = {} /\ Live' = Live
    BY <1>1, <1>2 DEF Due, Running, Live
<1>4. u.replace \subseteq u.graph /\ \A m \in u.graph : u.code[m] \notin {Stub, None}
    BY <1>0, <1>2 DEF PatientInv, QuietInv, UpdatesExact, IsExact
<1>5. /\ FromDisk(u.code) /\ Loaded(u.code) \subseteq Needed(Loaded(given))
      /\ Loaded(u.code) \ u.graph \subseteq Loaded(given)
      /\ Spares(u.code) /\ AllCompile(u.code)
    BY <1>0, <1>2, PatientPresent DEF Fresh, ComingWhole, UpdateWhole, LeftOut, GivenWhole
<1>6. Closed(u.code) /\ u.code \in [Module -> MaybeCode]
    BY <1>0, <1>1, <1>2, DeliveredUpdate DEF Update
<1>7. registry'.run = [m \in Module |->
                IF u.code[m] = None THEN registry.run[m] ELSE u.code[m]]
    BY <1>0, <1>1, DeliverRun, DeliveredUpdate DEF HmrInv, ClientTypeOK
<1> HIDE DEF u
<1>8. \A m \in Module : given'[m] = IF u.code[m] \in {Stub, None} THEN given[m] ELSE u.code[m]
    BY DEF Give, u
<1>9. Loaded(given') = Loaded(given) \cup Loaded(u.code)
    BY <1>4, <1>5, <1>8 DEF Loaded
<1>10. Loaded(given') = Loaded(registry'.run)
    BY <1>0, <1>7, <1>9 DEF GivenWhole, Loaded
<1>11. Closed(given') /\ AllCompile(given')
    BY <1>0, <1>5, <1>6, <1>8, <1>9 DEF GivenWhole, Closed, AllCompile, Loaded
<1>12. \A m \in Module : given'[m] \in {Text(m), None}
    <2> SUFFICES ASSUME NEW m \in Module PROVE given'[m] \in {Text(m), None}
        OBVIOUS
    <2>1. CASE m \in Held
        BY <1>5, <1>8, <2>1 DEF Held, Spares, Text
    <2>2. CASE m \notin Held
        <3>1. Text(m) = disk[m]
            BY <2>2 DEF Held, Loaded, Text
        <3>2. CASE u.code[m] \notin {Stub, None}
            BY <1>5, <1>8, <3>1, <3>2 DEF FromDisk
        <3>3. CASE u.code[m] \in {Stub, None}
            <4>1. m \notin Due /\ given'[m] = given[m]
                BY <1>3, <1>4, <1>8, <3>3
            <4>2. m \in missed => given[m] = None
                BY <2>2 DEF Held, Loaded
            <4> QED
                BY <1>0, <3>1, <4>1, <4>2 DEF GivenWhole
        <3> QED
            BY <3>2, <3>3
    <2> QED
        BY <2>1, <2>2
<1>13. given' \in [Module -> MaybeCode]
    BY <1>0, <1>6 DEF Give, GivenWhole, u
<1>14. GivenWhole'
    <2>1. \A m \in Module \ missed : given'[m] \in {disk[m], None}
        BY <1>12 DEF Text
    <2> QED
        BY <1>0, <1>1, <1>2, <1>3, <1>9, <1>10, <1>11, <1>13, <2>1 DEF GivenWhole, Closed, AllCompile
<1>15. ComingWhole'
    BY <1>0, <1>1, <1>2, <1>3 DEF ComingWhole
<1>16. Loaded(given') = Needed(Loaded(given))
    <2>1. Loaded(given) \in SUBSET Module /\ Loaded(given') \in SUBSET Module
        BY DEF Loaded
    <2>2. \A m \in Loaded(given') : TextRequires[m] \subseteq Loaded(given')
        BY <1>11, <1>12, <2>1 DEF TextRequires, Requires, Closed, Loaded
    <2>3. {Entry} \cup Loaded(given) \subseteq Loaded(given')
        BY <1>0, <1>2, <1>9 DEF GivenWhole
    <2>4. Needed(Loaded(given)) \subseteq Loaded(given')
        BY <2>1, <2>2, <2>3, ClosureLeast DEF Needed
    <2>5. Loaded(given) \subseteq Needed(Loaded(given))
        BY <1>0, <2>1, NeededFacts DEF GivenWhole
    <2> QED
        BY <1>5, <1>9, <2>4, <2>5
<1>17. App!Sync
    BY <1>1, <1>11, <1>12, <1>13, <1>16, SyncOf
<1> QED
    BY <1>14, <1>15, <1>17
-----------------------------------------------------------------------------
LEMMA WholeInit == GivenInit => WholeInv
<1> SUFFICES ASSUME GivenInit PROVE WholeInv
    OBVIOUS
<1>1. HmrInit /\ given = NoCode /\ missed = {}
    BY DEF GivenInit
<1>2. /\ Running = {} /\ outbox = <<>> /\ bundle = NoCode /\ registry = EmptyRegistry
      /\ ~connected /\ ~Live
    BY <1>1 DEF HmrInit, Init, ClientInit, NoBuilds, Running, Live
<1>3. GivenWhole
    BY <1>1, <1>2, CodeFacts, ClosedNoCode, EmptyRegistryFacts DEF GivenWhole, AllCompile
<1>4. ComingWhole
    BY <1>2, CodeFacts, ClosedNoCode DEF ComingWhole
<1> QED
    BY <1>1, <1>3, <1>4, PatientInit, FreshInit DEF WholeInv

(* Every step keeps the invariant, and is a step of HotReload or none. *)
LEMMA WholeStep ==
    ASSUME EditWhen = "quiet", MaxBatch <= 1 \/ AlwaysCompiles,
           SavesArrive \/ Transformed = Module, WholeInv, [GivenNext]_givenVars
    PROVE  WholeInv' /\ [App!Next]_(App!vars)
<1>1. [HmrNext]_vars
    BY DEF GivenNext, givenVars, HmrNext, Reload
<1>2. PatientInv' /\ Fresh'
    BY <1>1, PatientStep, PatientIsSerial, FreshStep DEF WholeInv
<1>3. CASE ServerStep /\ missed' = (missed \cup Dropped) \ Saved /\ UNCHANGED <<clientVars, given>>
    <2>1. (\E m \in Module : Edit(m)) \/ UNCHANGED disk
        BY <1>3 DEF ServerStep, FullLoad, WatcherError, NotifyIrrelevant, FullDone,
                    FullFailed, Subscribed, BuildStep, Notify, OnLoadStub, OnLoadTransform,
                    ReadFile, BuildDone, BuildFailed
    <2>2. ASSUME NEW m \in Module, Edit(m) PROVE App!Save(m)
        <3>1. /\ pending' = pending \cup {m} /\ Running = {}
              /\ \E k \in Source[m] : k # disk[m] /\ disk' = [disk EXCEPT ![m] = k]
            BY <2>2 DEF Edit, EditAllowed
        <3>2. Saved = {m} /\ Dropped = {}
            BY <3>1 DEF WholeInv, PatientInv, ConnectedInv, HmrInv, TypeOK, Saved, Dropped,
                        WatcherError, BuildFailed, BuildEnds
        <3> QED
            BY <1>3, <3>1, <3>2 DEF App!Save
    <2>3. ASSUME UNCHANGED disk PROVE App!Next
        <3>1. missed' = missed \cup Dropped /\ Dropped \in SUBSET Module
            BY <1>3, <2>3 DEF Saved, Dropped
        <3> QED
            BY <1>3, <2>3, <3>1 DEF App!Lose, App!Next
    <2>4. App!Next
        BY <2>1, <2>2, <2>3 DEF App!Next
    <2> QED
        BY <1>2, <1>3, <2>4, ServerKeepsWhole DEF WholeInv
<1>4. CASE Reload /\ given' = NoCode /\ missed' = {}
    <2>1. /\ Running' = {} /\ outbox' = <<>> /\ bundle' = NoCode /\ registry' = EmptyRegistry
          /\ ~connected' /\ ~Live' /\ UNCHANGED disk
        BY <1>4 DEF Reload, DropRegistry, BundleRequest, NoBuilds, Running, Live
    <2>2. GivenWhole'
        BY <1>4, <2>1, CodeFacts, ClosedNoCode, EmptyRegistryFacts DEF GivenWhole, Closed, AllCompile
    <2>3. ComingWhole'
        BY <2>1, CodeFacts, ClosedNoCode DEF ComingWhole
    <2>4. App!Quit
        BY <1>4, <2>1 DEF App!Quit, App!NoCode, NoCode
    <2> QED
        BY <1>2, <2>2, <2>3, <2>4 DEF WholeInv, App!Next
<1>5. CASE Start /\ given' = Give(NoCode, bundle) /\ UNCHANGED missed
    BY <1>2, <1>5, StartIsSync DEF WholeInv, App!Next
<1>6. CASE Deliver /\ given' = Give(given, Head(outbox).code) /\ UNCHANGED missed
    BY <1>2, <1>6, DeliverIsSync DEF WholeInv, App!Next
<1>7. CASE UNCHANGED givenVars
    <2>1. UNCHANGED <<disk, phase, bundle, pending, builds, connected, outbox, registry, given,
                      missed>>
        BY <1>7 DEF givenVars, vars, serverVars, clientVars
    <2>2. Due' = Due /\ Running' = Running
        BY <2>1 DEF Due, Running
    <2>3. GivenWhole'
        BY <2>1, <2>2, GivenKept DEF WholeInv, GivenWhole
    <2>4. ComingWhole'
        BY <2>1, <2>2 DEF WholeInv, ComingWhole, BuildWhole, UpdateWhole, Spares, Held, Needed,
                          TextRequires, Text, Live
    <2> QED
        BY <1>2, <2>1, <2>3, <2>4 DEF WholeInv, App!vars
<1> QED
    BY <1>3, <1>4, <1>5, <1>6, <1>7 DEF GivenNext

(***************************************************************************)
(* Hmr implements HotReload: for a patient developer the app goes from one *)
(* state of the whole project to the next, although an update carries a    *)
(* few modules, and a save that is given up is as if it had not been made. *)
(* If saves are given up, then none of several files may break (a failed   *)
(* build makes files known that the app never had), and every file must be *)
(* one that the plugin can leave out (another is sent along with any of    *)
(* its importers).                                                         *)
(***************************************************************************)
THEOREM HmrImplementsHotReload ==
    ASSUME EditWhen = "quiet", MaxBatch <= 1 \/ AlwaysCompiles,
           SavesArrive \/ Transformed = Module
    PROVE  GivenSpec => ReloadsWhole
<1>1. GivenInit => App!Init
    BY SourceAssumption
    DEF GivenInit, HmrInit, Init, App!Init, App!NoCode, NoCode, App!Content, Content,
        App!ExportKinds, ExportKinds
<1>2. GivenInit => WholeInv
    BY WholeInit
<1>3. WholeInv /\ [GivenNext]_givenVars => WholeInv' /\ [App!Next]_(App!vars)
    BY WholeStep
<1> QED
    BY <1>1, <1>2, <1>3, PTL DEF GivenSpec, ReloadsWhole, App!Spec
-----------------------------------------------------------------------------
(***************************************************************************)
(* What a registry has to be for the refresh to find its way: a cached     *)
(* result comes from the code in the run cache, or from the code that a    *)
(* stub has taken the place of; and the graph has every import of what has *)
(* been run or may be run.                                                 *)
(***************************************************************************)
ResultsFromRun(reg) ==
    \A m \in Module : reg.result[m] # None => reg.run[m] \in {reg.result[m], Stub}

GraphCovers(reg, code) ==
    \A m \in Loaded(code) : code[m].imports \subseteq reg.graph[m]

Coherent(reg) ==
    /\ reg \in Registry
    /\ ResultsFromRun(reg)
    /\ GraphCovers(reg, reg.run) /\ GraphCovers(reg, reg.result)

(* Requiring and forgetting keep it so. *)
LEMMA CoherentForget ==
    ASSUME NEW reg, Coherent(reg), NEW D
    PROVE  Coherent(Forget(reg, D))
BY ForgetFacts, ForgetResult, ForgetParts DEF Coherent, ResultsFromRun, GraphCovers, Loaded

LEMMA CoherentRequire ==
    ASSUME NEW reg, Coherent(reg), NEW S
    PROVE  Coherent(Require(reg, S))
<1>1. /\ reg \in Registry /\ Require(reg, S) \in Registry
      /\ Require(reg, S).run = reg.run /\ Require(reg, S).graph = reg.graph
    BY RequireFacts, RequireParts DEF Coherent
<1>2. \A m \in Module : Require(reg, S).result[m] \in {reg.run[m], reg.result[m]}
    BY <1>1, RequireResult
<1> QED
    BY <1>1, <1>2 DEF Coherent, ResultsFromRun, GraphCovers, Loaded

(***************************************************************************)
(* The refresh of one module, in a coherent registry.                      *)
(***************************************************************************)

(* A boundary stays one: it is run again, if at all, from the same code or *)
(* from a stub, which exports nothing.                                     *)
LEMMA BoundariesStay ==
    ASSUME NEW reg, Coherent(reg), NEW replace \in SUBSET Module,
           NEW q \in Module, IsRefreshBoundary(reg, q)
    PROVE  IsRefreshBoundary(Refreshed(reg, replace), q)
<1> DEFINE F == ToForget(reg, replace)
           old == Forget(reg, F)
           new == Require(old, Boundaries(reg, replace))
<1>1. reg \in Registry /\ old \in Registry /\ old.run = reg.run
    BY ForgetFacts DEF Coherent
<1>2. new.result[q] = IF q \in Executed(old, Boundaries(reg, replace)) THEN reg.run[q]
                      ELSE IF q \in F THEN None ELSE reg.result[q]
    <2>1. old.result[q] = IF q \in F THEN None ELSE reg.result[q]
        BY <1>1, ForgetResult
    <2> HIDE DEF old
    <2> QED
        BY <1>1, <2>1, RequireResult
<1>3. q \in F => q \in Executed(old, Boundaries(reg, replace))
    <2> SUFFICES ASSUME q \in F PROVE q \in Executed(old, Boundaries(reg, replace))
        OBVIOUS
    <2>1. q \in Boundaries(reg, replace) /\ Boundaries(reg, replace) \in SUBSET Module
        BY DEF ToForget, Boundaries, Visited, Closure
    <2>2. q \notin Cached(old)
        BY <1>1, ForgetResult DEF Cached, Loaded
    <2> HIDE DEF F, old
    <2> QED
        BY <1>1, <2>1, <2>2, ExecutedFacts
<1>4. reg.result[q] # None /\ reg.result[q].exports \in {"components", "empty"}
      /\ reg.run[q] \in {reg.result[q], Stub}
    BY DEF IsRefreshBoundary, Coherent, ResultsFromRun
<1>5. Stub # None /\ Stub.exports = "empty"
    BY SourceAssumption DEF Stub, Code
<1>6. Refreshed(reg, replace) = new
    BY DEF Refreshed
<1> HIDE DEF new, F
<1> QED
    BY <1>2, <1>3, <1>4, <1>5, <1>6 DEF IsRefreshBoundary

(* Above what the walk has visited there is only what it has visited. *)
LEMMA WalkClosed ==
    ASSUME NEW reg \in Registry, NEW replace \in SUBSET Module,
           NEW q \in Visited(reg, replace), ~IsRefreshBoundary(reg, q),
           NEW p \in Module, q \in reg.graph[p]
    PROVE  p \in Visited(reg, replace)
<1>1. q \in Module
    BY DEF Visited, Closure
<1>2. p \in WalkStep(reg)[q] /\ WalkStep(reg)[q] \subseteq Module
    BY <1>1 DEF WalkStep, Importers
<1> QED
    BY <1>2, ClosureClosed DEF Visited

(* If the walk completes, it does not come back to where it began. *)
LEMMA WalkNeverReturns ==
    ASSUME NEW reg \in Registry, NEW r \in Module, ~Overflows(reg, {r}),
           NEW q \in Visited(reg, {r}), ~IsRefreshBoundary(reg, q)
    PROVE  q \notin reg.graph[r]
<1> SUFFICES ASSUME q \in reg.graph[r] PROVE FALSE
    OBVIOUS
<1> DEFINE W == WalkStep(reg)
           above == Closure(W[r], W)
<1>1. \A m \in Module : W[m] \subseteq Module
    BY DEF WalkStep, Importers
<1>2. q \in Module /\ r \in W[q] /\ r \in Visited(reg, {r})
    <2>1. q \in Module
        BY DEF Visited, Closure
    <2> QED
        BY <2>1, ClosureContains DEF WalkStep, Importers, Visited
<1>3. above \subseteq Module /\ W[r] \subseteq above
    BY <1>1, ClosureContains DEF Closure
<1>4. \A x \in above : W[x] \subseteq above
    BY <1>1, <1>3, ClosureClosed
<1>5. Visited(reg, {r}) \subseteq {r} \cup above
    <2>1. \A x \in {r} \cup above : W[x] \subseteq {r} \cup above
        BY <1>3, <1>4
    <2> HIDE DEF above, W
    <2>2. {r} \cup above \in SUBSET Module
        BY <1>3
    <2>3. Closure({r}, W) \subseteq {r} \cup above
        BY <2>1, <2>2, ClosureLeast
    <2> QED
        BY <2>3 DEF Visited, W
<1>6. r \in above
    BY <1>2, <1>3, <1>4, <1>5
<1> QED
    BY <1>2, <1>6 DEF Overflows

(* The registry that an update has left, just before its refresh. *)
LEMMA RefreshAddsNoStale ==
    ASSUME NEW reg, Coherent(reg), NEW r \in Module, ~Overflows(reg, {r}),
           NEW p \in Module, NEW q \in Module,
           <<p, q>> \in StaleImports(Refreshed(reg, {r}))
    PROVE  /\ p \in Cached(reg) /\ q \in reg.result[p].imports
           /\ ~IsRefreshBoundary(reg, q)
           /\ <<p, q>> \notin reg.linked
           /\ q \notin Visited(reg, {r})
<1> DEFINE V == Visited(reg, {r})
           F == ToForget(reg, {r})
           B == Boundaries(reg, {r})
           old == Forget(reg, F)
           X == Executed(old, B)
           new == Require(old, B)
<1>1. reg \in Registry /\ old \in Registry /\ old.run = reg.run /\ old.graph = reg.graph
      /\ old.linked = {l \in reg.linked : l[1] \notin F /\ l[2] \notin F}
      /\ \A m \in Module : old.result[m] = IF m \in F THEN None ELSE reg.result[m]
    BY ForgetFacts, ForgetParts, ForgetResult DEF Coherent
<1>2. new = Refreshed(reg, {r}) /\ F = V \ {r}
    BY DEF Refreshed, ToForget
<1> HIDE DEF old, F, B
<1>3. /\ new.result[p] = IF p \in X THEN reg.run[p] ELSE old.result[p]
      /\ new.linked = old.linked \cup
            {l \in X \X Module : reg.run[l[1]] # None /\ l[2] \in reg.run[l[1]].imports}
    BY <1>1, RequireResult, RequireParts
<1>4. /\ new.result[p] # None /\ q \in new.result[p].imports
      /\ <<p, q>> \notin new.linked /\ ~IsRefreshBoundary(new, q)
    BY <1>2 DEF StaleImports, Cached, Loaded
<1> HIDE DEF new, X, V
<1>5. p \notin X
    BY <1>3, <1>4
<1>6. p \notin F /\ reg.result[p] = new.result[p]
    BY <1>1, <1>3, <1>4, <1>5
<1>7. p \in Cached(reg) /\ q \in reg.result[p].imports /\ q \in reg.graph[p]
    BY <1>4, <1>6 DEF Cached, Loaded, Coherent, GraphCovers
<1>8. ~IsRefreshBoundary(reg, q)
    BY <1>2, <1>4, BoundariesStay
<1>9. q \in V => p = r
    BY <1>1, <1>2, <1>6, <1>7, <1>8, WalkClosed DEF V
<1>10. q \notin V
    BY <1>1, <1>7, <1>8, <1>9, WalkNeverReturns DEF V
<1>11. <<p, q>> \notin reg.linked
    BY <1>1, <1>2, <1>3, <1>4, <1>6, <1>10
<1> QED
    BY <1>7, <1>8, <1>10, <1>11 DEF V

(* Merging an update keeps a registry coherent, if what the update has     *)
(* besides the modules that it announces is a stub or what was there.      *)
LEMMA MergedCoherent ==
    ASSUME NEW reg, Coherent(reg), NEW u \in Update, u.graph \subseteq Loaded(u.code),
           \A m \in Loaded(u.code) \ u.graph :
                \/ u.code[m] = Stub
                \/ reg.result[m] \in {None, u.code[m]} /\ u.code[m].imports \subseteq reg.graph[m]
    PROVE  Coherent(Merged(reg, u))
<1> DEFINE new == Merged(reg, u)
<1>1. reg \in Registry
    BY DEF Coherent
<1>2. /\ new \in Registry
      /\ \A m \in Module : new.run[m] = IF u.code[m] = None THEN reg.run[m] ELSE u.code[m]
      /\ \A m \in Module : new.result[m] = IF m \in u.graph THEN None ELSE reg.result[m]
      /\ \A m \in Module : new.graph[m] = IF m \in u.graph THEN u.code[m].imports ELSE reg.graph[m]
    BY <1>1, MergedFacts
<1> HIDE DEF new
<1>3. ResultsFromRun(new)
    BY <1>2 DEF ResultsFromRun, Coherent, Loaded
<1>4. GraphCovers(new, new.run)
    <2> SUFFICES ASSUME NEW m \in Loaded(new.run) PROVE new.run[m].imports \subseteq new.graph[m]
        BY DEF GraphCovers
    <2>1. m \in Module
        BY DEF Loaded
    <2>2. CASE u.code[m] = None
        <3>1. m \notin u.graph /\ m \in Loaded(reg.run)
            BY <1>2, <2>1, <2>2 DEF Loaded
        <3> QED
            BY <1>2, <2>1, <2>2, <3>1 DEF Coherent, GraphCovers
    <2>3. CASE u.code[m] # None /\ m \in u.graph
        BY <1>2, <2>1, <2>3
    <2>4. CASE u.code[m] # None /\ m \notin u.graph
        <3>1. Stub.imports = {} /\ m \in Loaded(u.code) \ u.graph
            BY <2>1, <2>4 DEF Stub, Loaded
        <3> QED
            BY <1>2, <2>1, <2>4, <3>1
    <2> QED
        BY <2>2, <2>3, <2>4
<1>5. GraphCovers(new, new.result)
    BY <1>2 DEF GraphCovers, Coherent, Loaded
<1> QED
    BY <1>2, <1>3, <1>4, <1>5 DEF Coherent, new

LEMMA CoherentRefresh ==
    ASSUME NEW reg, Coherent(reg), NEW replace, NEW o
    PROVE  /\ Coherent(PerformRefresh(reg, replace, o))
           /\ PerformRefresh(reg, replace, o).graph = reg.graph
<1> DEFINE old == Forget(reg, ToForget(reg, replace))
<1>1. Coherent(old) /\ old.graph = reg.graph
    BY CoherentForget, ForgetParts DEF Coherent
<1>2. Refreshed(reg, replace) = Require(old, Boundaries(reg, replace))
    BY DEF Refreshed
<1> HIDE DEF old
<1>3. Coherent(Refreshed(reg, replace)) /\ Refreshed(reg, replace).graph = reg.graph
    BY <1>1, <1>2, CoherentRequire, RequireParts DEF Coherent
<1> QED
    BY <1>3 DEF PerformRefresh

LEMMA CoherentEmpty == Coherent(EmptyRegistry)
<1>1. EmptyRegistry.run = NoCode /\ EmptyRegistry.result = NoCode /\ EmptyRegistry \in Registry
    BY EmptyRegistryFacts DEF EmptyRegistry
<1> QED
    BY <1>1, CodeFacts, ClosedNoCode DEF Coherent, ResultsFromRun, GraphCovers
-----------------------------------------------------------------------------
(***************************************************************************)
(* The registry between two updates, and what is being prepared for it.    *)
(***************************************************************************)
StubsLegal(code) == \A m \in Module : code[m] = Stub => m \in Transformed

RegistryTraceable ==
    /\ Coherent(registry)
    /\ StubsLegal(registry.run) /\ StubsLegal(registry.result)
    /\ \A m \in Cached(registry) : registry.result[m].imports \subseteq Loaded(registry.run)

(* A known file that a plugin claims is nothing but a stub in a build.     *)
BuildTraceable(b) ==
    /\ StubsLegal(b.code)
    /\ \A m \in known \cap Transformed : m \notin b.reading /\ b.code[m] \in {None, Stub}
    /\ \E r \in Module : b.replace = {r}

(* What an update announces besides the file that it replaces is new.      *)
UpdateTraceable(u) ==
    /\ StubsLegal(u.code)
    /\ \A m \in Transformed \ u.graph : u.code[m] \in {None, Stub}
    /\ (u.graph \ u.replace) \cap Loaded(registry.run) = {}
    /\ \E r \in Module : u.replace = {r}

Traceable ==
    /\ RegistryTraceable
    /\ \A m \in Module : bundle[m] # Stub
    /\ \A s \in Running : BuildTraceable(builds[s])
    /\ \A i \in DOMAIN outbox : UpdateTraceable(outbox[i])

(* The graph that the app keeps is the one on disk. *)
GraphOnDisk ==
    \A m \in Module \ Due : registry.run[m] # None => registry.graph[m] = disk[m].imports

(* All of it.  Where saves may break or go unreported, the graph of the app *)
(* falls behind the disk; that does no harm as long as an update has stubs *)
(* for all that it leaves out.                                             *)
TraceInv ==
    /\ PatientInv /\ Traceable
    /\ SavesArrive => UpToDate /\ GraphOnDisk

LEMMA ServerKeepsTraceable ==
    ASSUME MaxBatch <= 1, PatientInv, Traceable, ServerStep, UNCHANGED clientVars
    PROVE  Traceable'
<1>0. /\ TypeOK /\ HmrInv /\ OneAtATime /\ OneFileAtATime /\ RegistryTraceable
      /\ UNCHANGED registry
    BY DEF PatientInv, ConnectedInv, HmrInv, clientVars, Traceable
<1>1. RegistryTraceable'
    BY <1>0 DEF RegistryTraceable
<1>2. CASE UNCHANGED <<bundle, known, builds, outbox>>
    BY <1>0, <1>1, <1>2 DEF Traceable, BuildTraceable, UpdateTraceable, Running
<1>3. CASE Running = {} /\ UNCHANGED <<bundle, builds, outbox>>
    BY <1>0, <1>1, <1>3 DEF Traceable, UpdateTraceable, Running
<1>4. ASSUME NEW n \in Module, FullLoad(n) PROVE Traceable'
    <2>1. /\ bundle' = [bundle EXCEPT ![n] = disk[n]]
          /\ UNCHANGED <<builds, outbox>> /\ phase = "bundling"
        BY <1>4 DEF FullLoad
    <2>2. Running = {} /\ Running' = {} /\ outbox = <<>>
        BY <1>0, <2>1 DEF OneAtATime, OnlyWhenConnected, Live, Running
    <2>3. \A m \in Module : bundle'[m] # Stub
        BY <1>0, <2>1, ContentIsNoStub DEF Traceable, TypeOK
    <2> QED
        BY <1>1, <2>1, <2>2, <2>3 DEF Traceable
<1>5. CASE \/ \E n \in Module : Edit(n)
           \/ WatcherError \/ Subscribed
    BY <1>2, <1>5 DEF Edit, WatcherError, Subscribed
<1>6. CASE NotifyIrrelevant
    BY <1>2, <1>6 DEF NotifyIrrelevant, Invalidated
<1>7. CASE FullDone \/ FullFailed
    <2>1. UNCHANGED <<bundle, builds, outbox>> /\ ~Live
        BY <1>7 DEF FullDone, FullFailed, FullEnds, Live
    <2> QED
        BY <1>0, <1>3, <2>1 DEF OneAtATime, OnlyWhenConnected
<1>9. ASSUME NEW s \in Slot, Notify(s) PROVE Traceable'
    <2>1. /\ pending # {} /\ pending' = {} /\ pending \cap known # {}
          /\ UNCHANGED <<disk, bundle, connected, outbox>>
        BY <1>9 DEF Notify
    <2>2. /\ Running = {} /\ Running' = {s} /\ builds'[s].code = NoCode /\ outbox = <<>>
          /\ builds'[s].replace = pending \cap known /\ builds'[s].reading = {}
        BY <1>0, <1>9, <2>1, StartedBuild
        DEF PatientInv, QuietInv, Undisturbed, OneAtATime, OnlyWhenConnected
    <2>3. \E r \in Module : pending \cap known = {r}
        BY <1>0, <2>1 DEF OneFileAtATime, TypeOK
    <2>4. BuildTraceable(builds[s])'
        <3>1. \A m \in Module : NoCode[m] = None /\ None # Stub
            BY CodeFacts, SourceAssumption DEF Code
        <3> QED
            BY <2>2, <2>3, <3>1, SourceAssumption DEF BuildTraceable, StubsLegal
    <2> QED
        BY <1>1, <2>1, <2>2, <2>4 DEF Traceable
<1>10. ASSUME NEW s \in Slot, Reads(s) PROVE Traceable'
    <2>1. Running' = Running /\ UNCHANGED <<bundle, known, outbox>>
        BY <1>0, <1>10, ReadingBuilds
    <2>2. s \in Running /\ outbox = <<>> /\ BuildTraceable(builds[s])
        BY <1>0, <1>10 DEF Reads, OnLoadStub, OnLoadTransform, ReadFile, OneAtATime, Traceable
    <2>3. \A m \in Module : builds'[s].code[m] = Stub => m \in Transformed
        <3>1. \A m \in Module : disk[m] # Stub
            BY <1>0, ContentIsNoStub DEF TypeOK
        <3> QED
            BY <1>0, <1>10, <2>2, <3>1, ReadCode DEF BuildTraceable, StubsLegal
    <2>4. ASSUME NEW m \in known \cap Transformed
          PROVE  m \notin builds'[s].reading /\ builds'[s].code[m] \in {None, Stub}
        <3>1. m \in Module /\ IsStubbed(m)
            BY <1>0 DEF TypeOK, IsStubbed
        <3>2. m \notin builds[s].reading /\ builds[s].code[m] \in {None, Stub}
            BY <2>2 DEF BuildTraceable
        <3> QED
            BY <1>0, <1>10, <3>1, <3>2, ReadCode, ReadReading
    <2>5. BuildTraceable(builds[s])'
        BY <1>0, <1>10, <2>1, <2>2, <2>3, <2>4, ReadingBuilds DEF BuildTraceable, StubsLegal
    <2>6. \A t \in Running : t = s
        BY <2>2 DEF PatientInv, QuietInv, OneBuild
    <2> QED
        BY <1>1, <2>1, <2>2, <2>5, <2>6 DEF Traceable
<1>11. ASSUME NEW s \in Slot, BuildDone(s) PROVE Traceable'
    <2> DEFINE u == Payload(builds[s])
    <2>1. s \in Running /\ Running' = {} /\ UNCHANGED <<bundle, connected>>
        BY <1>0, <1>11, EndedBuild DEF PatientInv, QuietInv, OneBuild, BuildDone
    <2>2. connected /\ outbox = <<>> /\ outbox' = Append(outbox, u)
        BY <1>0, <1>11, <2>1 DEF OneAtATime, OnlyWhenConnected, BuildDone
    <2>3. DOMAIN outbox' = {1} /\ outbox'[1] = u
        BY <2>2
    <2>4. /\ u.code = builds[s].code /\ u.replace = builds[s].replace
          /\ u.graph = Loaded(u.code) \ known
        BY DEF Payload, InPayload
    <2> HIDE DEF u
    <2>5. Running = {s} /\ BuildTraceable(builds[s])
        BY <2>1 DEF PatientInv, QuietInv, OneBuild, Traceable
    <2>6. Loaded(registry.run) \subseteq known \cup u.replace
        BY <1>0, <2>2, <2>4, <2>5 DEF HmrInv, ClientOK, OneAtATime, OnlyWhenConnected, Tracked
    <2>7. UpdateTraceable(u)
        <3>1. \A m \in Transformed \ u.graph : u.code[m] \in {None, Stub}
            BY <2>4, <2>5, SourceAssumption DEF BuildTraceable, Loaded
        <3> QED
            BY <2>4, <2>5, <2>6, <3>1 DEF BuildTraceable, UpdateTraceable
    <2>8. UpdateTraceable(outbox[1])'
        BY <1>0, <2>3, <2>7 DEF UpdateTraceable
    <2> QED
        BY <1>1, <2>1, <2>3, <2>8 DEF Traceable
<1>12. ASSUME NEW s \in Slot, BuildFailed(s) PROVE Traceable'
    <2>1. s \in Running /\ Running' = {} /\ UNCHANGED <<bundle, outbox>>
        BY <1>0, <1>12, EndedBuild DEF PatientInv, QuietInv, OneBuild, BuildFailed
    <2> QED
        BY <1>0, <1>1, <2>1 DEF Traceable, UpdateTraceable
<1> QED
    BY <1>4, <1>5, <1>6, <1>7, <1>9, <1>10, <1>11, <1>12 DEF ServerStep, BuildStep, Reads

LEMMA ServerKeepsGraph ==
    ASSUME SavesArrive, EditWhen = "quiet", PatientInv, UpToDate, GraphOnDisk,
           ServerStep, UNCHANGED clientVars
    PROVE  GraphOnDisk'
<1>0. TypeOK /\ OneAtATime /\ OneBuild /\ Undisturbed /\ UNCHANGED registry
    BY DEF PatientInv, ConnectedInv, HmrInv, QuietInv, clientVars
<1>1. CASE UNCHANGED <<disk, pending, builds, outbox>>
    BY <1>0, <1>1 DEF GraphOnDisk, Due, Running
<1>2. ASSUME NEW n \in Module, Edit(n) PROVE GraphOnDisk'
    <2>1. /\ UNCHANGED <<builds, outbox>> /\ pending' = pending \cup {n}
          /\ \E k : disk' = [disk EXCEPT ![n] = k]
        BY <1>2 DEF Edit, EditAllowed
    <2>2. \A m \in Module \ {n} : disk'[m] = disk[m]
        BY <1>0, <2>1 DEF TypeOK
    <2>3. Due' = Due \cup {n}
        BY <2>1 DEF Due, Running
    <2> QED
        BY <1>0, <2>2, <2>3 DEF GraphOnDisk
<1>3. CASE NotifyIrrelevant
    <2>1. /\ pending # {} /\ pending \cap known = {} /\ pending' = {}
          /\ UNCHANGED <<disk, builds, outbox>>
        BY <1>3 DEF NotifyIrrelevant
    <2>2. \A m \in pending : registry.run[m] = None
        BY <2>1, PatientIsSerial, UnknownAbsent DEF UpToDate
    <2>3. Due \subseteq Due' \cup pending
        BY <2>1 DEF Due, Running
    <2> QED
        BY <1>0, <2>1, <2>2, <2>3 DEF GraphOnDisk
<1>4. ASSUME NEW s \in Slot, Notify(s) PROVE GraphOnDisk'
    <2>1. pending # {} /\ pending' = {} /\ UNCHANGED <<disk, outbox>>
        BY <1>4 DEF Notify
    <2>2. \A m \in pending \ known : registry.run[m] = None
        BY <2>1, PatientIsSerial, UnknownAbsent DEF UpToDate
    <2>3. Running = {} /\ Running' = {s} /\ builds'[s].replace = pending \cap known
        BY <1>0, <1>4, <2>1, StartedBuild DEF Undisturbed
    <2>4. Due \subseteq Due' \cup (pending \ known)
        BY <2>1, <2>3 DEF Due
    <2> QED
        BY <1>0, <2>1, <2>2, <2>4 DEF GraphOnDisk
<1>5. ASSUME NEW s \in Slot, Reads(s) PROVE GraphOnDisk'
    <2>1. Due' = Due /\ UNCHANGED disk
        BY <1>0, <1>5, ReadingBuilds DEF Due
    <2> QED
        BY <1>0, <2>1 DEF GraphOnDisk
<1>6. ASSUME NEW s \in Slot, BuildDone(s) PROVE GraphOnDisk'
    <2> DEFINE u == Payload(builds[s])
    <2>1. s \in Running /\ Running' = {} /\ UNCHANGED <<disk, pending, connected>>
        BY <1>0, <1>6, EndedBuild DEF OneBuild, BuildDone
    <2>2. Running = {s} /\ outbox = <<>> /\ outbox' = Append(outbox, u)
        BY <1>0, <1>6, <2>1 DEF OneBuild, OneAtATime, OnlyWhenConnected, BuildDone
    <2>3. DOMAIN outbox' = {1} /\ outbox'[1] = u /\ u.replace = builds[s].replace
        BY <2>2 DEF Payload
    <2> HIDE DEF u
    <2>4. Due' = Due
        BY <2>1, <2>2, <2>3 DEF Due
    <2> QED
        BY <1>0, <2>1, <2>4 DEF GraphOnDisk
<1>7. ASSUME NEW s \in Slot, BuildFailed(s) PROVE GraphOnDisk'
    BY <1>7 DEF BuildFailed, BuildEnds, PatientInv, ConnectedInv, AllSavedCompile, SavesArrive
<1>8. CASE \E n \in Module : FullLoad(n)
    BY <1>1, <1>8 DEF FullLoad
<1>9. CASE FullDone \/ FullFailed \/ Subscribed
    BY <1>1, <1>9 DEF FullDone, FullFailed, Subscribed
<1> QED
    BY <1>2, <1>3, <1>4, <1>5, <1>6, <1>7, <1>8, <1>9
    DEF ServerStep, BuildStep, Reads, WatcherError, SavesArrive

(* What the update that is delivered finds in the app. *)
LEMMA DeliveredTraceable ==
    ASSUME TraceInv, SavesArrive \/ Transformed = Module, Deliver
    PROVE  LET u == Head(outbox)
           IN  /\ u \in Update /\ u.graph \subseteq Loaded(u.code)
               /\ u.replace \subseteq u.graph /\ Due = u.replace /\ Due' = {}
               /\ UpdateTraceable(u) /\ StubsLegal(u.code)
               /\ \A m \in u.graph : u.code[m] \notin {Stub, None}
               /\ Loaded(u.code) \ u.graph \subseteq Loaded(registry.run)
               /\ Coherent(Merged(registry, u))
               /\ UNCHANGED <<disk, bundle, builds>> /\ Running = {} /\ outbox' = <<>>
<1> DEFINE u == Head(outbox)
<1>0. PatientInv /\ Traceable /\ (SavesArrive => UpToDate /\ GraphOnDisk)
    BY DEF TraceInv
<1>1. /\ outbox # <<>> /\ outbox' = Tail(outbox)
      /\ UNCHANGED <<disk, bundle, pending, builds>>
    BY DEF Deliver, Receive
<1>2. /\ Running = {} /\ pending = {} /\ outbox' = <<>>
      /\ DOMAIN outbox = {1} /\ u = outbox[1] /\ u \in Update
      /\ u.graph \subseteq Loaded(u.code)
    BY <1>0, <1>1, DeliveredUpdate DEF PatientInv, ConnectedInv, OneAtATime, HmrInv, TypeOK
<1>3. Due = u.replace /\ Due' = {}
    BY <1>1, <1>2 DEF Due, Running
<1>4. u.replace \subseteq u.graph /\ \A m \in u.graph : u.code[m] \notin {Stub, None}
    BY <1>0, <1>2 DEF PatientInv, QuietInv, UpdatesExact, IsExact
<1>5. UpdateTraceable(u) /\ (SavesArrive => FromDisk(u.code))
    BY <1>0, <1>2 DEF UpToDate, Fresh, Current, Traceable
<1>6. Loaded(u.code) \ u.graph \subseteq Loaded(registry.run)
    BY <1>0, <1>1, <1>2, PatientPresent DEF LeftOut
<1> HIDE DEF u
<1>7. ASSUME NEW m \in Loaded(u.code) \ u.graph
      PROVE  \/ u.code[m] = Stub
             \/ registry.result[m] \in {None, u.code[m]} /\ u.code[m].imports \subseteq registry.graph[m]
    <2>1. m \in Module \ Due /\ registry.run[m] # None /\ u.code[m] # None
        BY <1>3, <1>4, <1>6 DEF Loaded
    <2>2. u.code[m] # Stub => m \notin Transformed
        BY <1>5, <2>1 DEF UpdateTraceable
    <2>3. CASE SavesArrive
        <3>1. u.code[m] \in {disk[m], Stub}
            BY <1>5, <2>1, <2>3 DEF FromDisk
        <3>2. registry.graph[m] = disk[m].imports
            BY <1>0, <2>1, <2>3 DEF GraphOnDisk
        <3>3. registry.result[m] \in {disk[m], Stub, None}
            BY <1>0, <2>1, <2>3 DEF UpToDate, Fresh, Current
        <3>4. registry.result[m] = Stub => m \in Transformed
            BY <1>0, <2>1 DEF Traceable, RegistryTraceable, StubsLegal
        <3> QED
            BY <2>2, <3>1, <3>2, <3>3, <3>4
    <2> QED
        BY <2>1, <2>2, <2>3
<1>8. Coherent(Merged(registry, u))
    <2>1. Coherent(registry)
        BY <1>0 DEF Traceable, RegistryTraceable
    <2> QED
        BY <1>2, <1>7, <2>1, MergedCoherent
<1> QED
    BY <1>1, <1>2, <1>3, <1>4, <1>5, <1>6, <1>8 DEF u, UpdateTraceable

(* What the app makes of it. *)
LEMMA DeliverKeepsTraceable ==
    ASSUME TraceInv, SavesArrive \/ Transformed = Module, Deliver, RequireFinds'
    PROVE  Traceable' /\ (SavesArrive => GraphOnDisk')
<1> DEFINE u == Head(outbox)
           reg == Evaluated(registry, u)
<1>0. PatientInv /\ Traceable /\ (SavesArrive => UpToDate /\ GraphOnDisk)
    BY DEF TraceInv
<1>1. /\ u \in Update /\ u.graph \subseteq Loaded(u.code)
      /\ u.replace \subseteq u.graph /\ Due = u.replace /\ Due' = {}
      /\ UpdateTraceable(u) /\ StubsLegal(u.code)
      /\ \A m \in u.graph : u.code[m] \notin {Stub, None}
      /\ Loaded(u.code) \ u.graph \subseteq Loaded(registry.run)
      /\ Coherent(Merged(registry, u))
      /\ UNCHANGED <<disk, bundle, builds>> /\ Running = {} /\ outbox' = <<>>
    BY DeliveredTraceable
<1>2. registry \in Registry /\ RegistryTraceable
    BY <1>0 DEF Traceable, RegistryTraceable, Coherent
<1>3. outbox # <<>> /\ HmrInv /\ (SavesArrive => FromDisk(u.code))
    <2>1. outbox # <<>> /\ HmrInv
        BY <1>0 DEF Deliver, Receive, PatientInv, ConnectedInv
    <2> QED
        BY <1>0, <2>1, DeliveredUpdate DEF UpToDate, Fresh, Current
<1>4. /\ \A m \in Module :
            registry'.run[m] = IF u.code[m] = None THEN registry.run[m] ELSE u.code[m]
      /\ \A m \in Module : registry'.result[m] \in
            {None, registry'.run[m], IF m \in u.graph THEN None ELSE registry.result[m]}
    BY <1>1, <1>2, <1>3, DeliverRun
<1> HIDE DEF u
<1>5. Coherent(reg)
    BY <1>1, CoherentRequire, EvaluatedIs
<1>6. reg.graph = Merged(registry, u).graph
    BY <1>1, EvaluatedIs, RequireParts DEF Coherent
<1>7. PICK o : registry' = PerformRefresh(reg, u.replace, o)
    BY DEF Deliver, HandleMessage, u
<1> HIDE DEF reg
<1>8. Coherent(registry') /\ registry'.graph = reg.graph
    BY <1>5, <1>7, CoherentRefresh
<1>9. StubsLegal(registry'.run)
    BY <1>1, <1>2, <1>4 DEF StubsLegal, RegistryTraceable
<1>10. StubsLegal(registry'.result)
    BY <1>2, <1>4, <1>9, SourceAssumption DEF StubsLegal, RegistryTraceable, Code
<1>11. ASSUME NEW m \in Cached(registry')
       PROVE  registry'.result[m].imports \subseteq Loaded(registry'.run)
    <2>1. m \in Module /\ registry'.result[m] # None
        BY DEF Cached, Loaded
    <2>2. Loaded(registry.run) \subseteq Loaded(registry'.run)
        BY <1>4 DEF Loaded
    <2>3. CASE registry'.result[m] = registry'.run[m]
        BY <2>1, <2>3 DEF RequireFinds, Loaded
    <2>4. CASE registry'.result[m] = registry.result[m]
        BY <1>2, <2>1, <2>2, <2>4 DEF RegistryTraceable, Cached, Loaded
    <2> QED
        BY <1>4, <2>1, <2>3, <2>4
<1>12. Traceable'
    <2>1. RegistryTraceable'
        BY <1>8, <1>9, <1>10, <1>11 DEF RegistryTraceable
    <2>2. Running' = {}
        BY <1>1 DEF Running
    <2> QED
        BY <1>0, <1>1, <2>1, <2>2 DEF Traceable
<1>13. ASSUME SavesArrive, NEW m \in Module, registry'.run[m] # None
       PROVE  registry'.graph[m] = disk[m].imports
    <2>1. registry'.graph[m] = IF m \in u.graph THEN u.code[m].imports ELSE registry.graph[m]
        <3>1. Merged(registry, u).graph[m] =
                    IF m \in u.graph THEN u.code[m].imports ELSE registry.graph[m]
            BY <1>1, <1>2, MergedFacts
        <3> QED
            BY <1>6, <1>8, <3>1
    <2>2. CASE m \in u.graph
        BY <1>1, <1>3, <1>13, <2>1, <2>2 DEF FromDisk
    <2>3. CASE m \notin u.graph
        <3>1. registry.run[m] # None
            BY <1>1, <1>4, <1>13, <2>3 DEF Loaded
        <3> QED
            BY <1>0, <1>1, <1>13, <2>1, <2>3, <3>1 DEF GraphOnDisk
    <2> QED
        BY <2>2, <2>3
<1> QED
    BY <1>1, <1>12, <1>13 DEF GraphOnDisk

LEMMA StartKeepsTraceable ==
    ASSUME TraceInv, Start, RequireFinds'
    PROVE  Traceable' /\ (SavesArrive => GraphOnDisk')
<1> DEFINE u == [replace |-> {}, graph |-> Loaded(bundle), code |-> bundle]
<1>0. PatientInv /\ Traceable /\ (SavesArrive => UpToDate)
    BY DEF TraceInv
<1>1. /\ ~connected /\ UNCHANGED <<disk, bundle, pending, builds, outbox>>
      /\ bundle \in [Module -> MaybeCode]
    BY <1>0 DEF Start, Connect, PatientInv, ConnectedInv, HmrInv, TypeOK
<1>2. Running = {} /\ outbox = <<>> /\ Running' = {}
    BY <1>0, <1>1 DEF PatientInv, OneAtATime, OnlyWhenConnected, Running
<1>3. u \in Update /\ u.graph = Loaded(u.code) /\ u.code = bundle
    BY <1>1 DEF Update, Loaded
<1> HIDE DEF u
<1>4. Coherent(Merged(EmptyRegistry, u))
    BY <1>3, CoherentEmpty, MergedCoherent
<1>5. registry' = Require(Merged(EmptyRegistry, u), {Entry})
    BY <1>3 DEF Start, RunBundle, Merged
<1>6. Coherent(registry') /\ registry'.graph = Merged(EmptyRegistry, u).graph
    BY <1>4, <1>5, CoherentRequire, RequireParts DEF Coherent
<1>7. registry'.run = bundle /\ \A m \in Module : registry'.result[m] \in {None, bundle[m]}
    BY <1>1, StartRun
<1>8. StubsLegal(registry'.run) /\ StubsLegal(registry'.result)
    BY <1>0, <1>7, SourceAssumption DEF StubsLegal, Traceable, Code
<1>9. ASSUME NEW m \in Cached(registry')
      PROVE  registry'.result[m].imports \subseteq Loaded(registry'.run)
    BY <1>7 DEF RequireFinds, Cached, Loaded
<1>10. RegistryTraceable'
    BY <1>6, <1>8, <1>9 DEF RegistryTraceable
<1>11. ASSUME SavesArrive, NEW m \in Module, registry'.run[m] # None
       PROVE  registry'.graph[m] = disk[m].imports
    <2>1. registry'.graph[m] = bundle[m].imports
        <3>1. m \in u.graph
            BY <1>3, <1>7, <1>11 DEF Loaded
        <3>2. Merged(EmptyRegistry, u).graph[m] = u.code[m].imports
            BY <1>3, <3>1, MergedFacts, EmptyRegistryFacts
        <3> QED
            BY <1>3, <1>6, <3>2
    <2>2. bundle[m] = disk[m]
        BY <1>0, <1>1, <1>7, <1>11 DEF UpToDate, Fresh, Current, FromDisk, Traceable
    <2> QED
        BY <2>1, <2>2
<1> QED
    BY <1>0, <1>1, <1>2, <1>10, <1>11 DEF Traceable, GraphOnDisk

LEMMA ReloadTraceable ==
    ASSUME bundle = NoCode, Running = {}, outbox = <<>>, registry = EmptyRegistry
    PROVE  Traceable /\ GraphOnDisk
<1>1. /\ registry.run = NoCode /\ registry.result = NoCode
      /\ \A m \in Module : NoCode[m] = None /\ None # Stub
    BY EmptyRegistryFacts, CodeFacts, SourceAssumption DEF EmptyRegistry, Code
<1>2. RegistryTraceable
    BY <1>1, CoherentEmpty, ClosedNoCode DEF RegistryTraceable, StubsLegal, Cached
<1> QED
    BY <1>1, <1>2 DEF Traceable, GraphOnDisk

LEMMA TraceStep ==
    ASSUME EditWhen = "quiet", MaxBatch <= 1, SavesArrive \/ Transformed = Module,
           TraceInv, [HmrNext]_vars
    PROVE  TraceInv'
<1>0. PatientInv /\ Traceable /\ (SavesArrive => UpToDate /\ GraphOnDisk)
    BY DEF TraceInv
<1>1. PatientInv' /\ (SavesArrive => UpToDate')
    BY <1>0, PatientStep, UpToDateStep DEF SavesArrive
<1>2. RequireFinds'
    BY <1>1 DEF PatientInv, ConnectedInv, HmrInv, ClientOK, Closed, RequireFinds
<1>3. Traceable' /\ (SavesArrive => GraphOnDisk')
    <2>1. CASE UNCHANGED vars
        BY <1>0, <2>1 DEF vars, serverVars, clientVars, Traceable, RegistryTraceable,
                BuildTraceable, UpdateTraceable, GraphOnDisk, Due, Running
    <2>2. CASE Reload
        <3>1. /\ Running' = {} /\ outbox' = <<>> /\ bundle' = NoCode
              /\ registry' = EmptyRegistry
            BY <2>2 DEF Reload, DropRegistry, BundleRequest, NoBuilds, Running
        <3>2. (bundle = NoCode /\ Running = {} /\ outbox = <<>> /\ registry = EmptyRegistry
                => Traceable /\ GraphOnDisk)'
            BY ReloadTraceable, PTL
        <3> QED
            BY <3>1, <3>2
    <2>3. CASE ServerStep /\ UNCHANGED clientVars
        BY <1>0, <2>3, ServerKeepsTraceable, ServerKeepsGraph
    <2> QED
        BY <1>2, <2>1, <2>2, <2>3, StartKeepsTraceable, DeliverKeepsTraceable DEF HmrNext
<1> QED
    BY <1>1, <1>3 DEF TraceInv, SavesArrive, AlwaysCompiles

(* An update of one file that is refreshed. *)
LEMMA RefreshedNoStale ==
    ASSUME TraceInv, SavesArrive \/ Transformed = Module, Deliver, outcome' = "refreshed"
    PROVE  StaleImports(registry') \subseteq StaleImports(registry)
<1> DEFINE u == Head(outbox)
           merged == Merged(registry, u)
           reg == Require(merged, u.replace)
<1>1. /\ u \in Update /\ u.graph \subseteq Loaded(u.code)
      /\ u.replace \subseteq u.graph /\ UpdateTraceable(u)
      /\ Coherent(Merged(registry, u))
    BY DeliveredTraceable
<1>2. registry \in Registry /\ RegistryTraceable
    BY DEF TraceInv, Traceable, RegistryTraceable, Coherent
<1> HIDE DEF u
<1>3. PICK r \in Module : u.replace = {r}
    BY <1>1 DEF UpdateTraceable
<1>4. reg = Evaluated(registry, u)
    BY EvaluatedIs
<1>5. Coherent(reg)
    BY <1>1, CoherentRequire
<1>6. outcome' \in Outcomes(reg, {r}) /\ registry' = PerformRefresh(reg, {r}, outcome')
    BY <1>3, <1>4 DEF Deliver, HandleMessage, u
<1>7. /\ merged \in Registry
      /\ \A m \in Module : merged.result[m] = IF m \in u.graph THEN None ELSE registry.result[m]
      /\ merged.linked = {l \in registry.linked : l[1] \notin u.graph /\ l[2] \notin u.graph}
    BY <1>1, <1>2, MergedFacts
<1> DEFINE X == Executed(merged, u.replace)
<1>8. X \subseteq Module \ Cached(merged)
    BY <1>3, <1>7, ExecutedFacts
<1> HIDE DEF merged
<1>9. /\ \A m \in Module : reg.result[m] = IF m \in X THEN merged.run[m] ELSE merged.result[m]
      /\ reg.linked = merged.linked \cup
            {l \in X \X Module : merged.run[l[1]] # None /\ l[2] \in merged.run[l[1]].imports}
    BY <1>7, RequireResult, RequireParts
<1> HIDE DEF reg, X
<1>10. ~Overflows(reg, {r}) /\ registry' = Refreshed(reg, {r})
    BY <1>6 DEF Outcomes, PerformRefresh
<1> SUFFICES ASSUME NEW p \in Module, NEW q \in Module, <<p, q>> \in StaleImports(registry')
             PROVE  <<p, q>> \in StaleImports(registry)
    BY DEF StaleImports, Cached, Loaded
<1>11. /\ p \in Cached(reg) /\ q \in reg.result[p].imports
       /\ ~IsRefreshBoundary(reg, q) /\ <<p, q>> \notin reg.linked
       /\ q \notin Visited(reg, {r})
    BY <1>5, <1>10, RefreshAddsNoStale
<1>12. p \notin X
    BY <1>9, <1>11 DEF Cached, Loaded
<1>13. p \notin u.graph /\ reg.result[p] = registry.result[p] /\ p \in Cached(registry)
    BY <1>7, <1>9, <1>11, <1>12 DEF Cached, Loaded
<1>14. q \notin u.graph
    <2>1. q \in Loaded(registry.run)
        BY <1>2, <1>11, <1>13 DEF RegistryTraceable
    <2>2. q # r
        BY <1>11, ClosureContains DEF Visited
    <2> QED
        BY <1>1, <1>3, <2>1, <2>2 DEF UpdateTraceable
<1>15. <<p, q>> \notin registry.linked
    BY <1>7, <1>9, <1>11, <1>13, <1>14
<1>16. ~IsRefreshBoundary(registry, q)
    <2> SUFFICES ASSUME IsRefreshBoundary(registry, q) PROVE FALSE
        OBVIOUS
    <2>1. registry.result[q] # None /\ merged.result[q] = registry.result[q]
        BY <1>7, <1>14 DEF IsRefreshBoundary
    <2>2. q \notin X
        BY <1>8, <2>1 DEF Cached, Loaded
    <2>3. reg.result[q] = registry.result[q]
        BY <1>9, <2>1, <2>2
    <2> QED
        BY <1>11, <2>3 DEF IsRefreshBoundary
<1> QED
    BY <1>11, <1>13, <1>15, <1>16 DEF StaleImports

LEMMA TraceInit == HmrInit => TraceInv
<1> SUFFICES ASSUME HmrInit PROVE TraceInv
    OBVIOUS
<1>1. /\ Running = {} /\ outbox = <<>> /\ bundle = NoCode /\ registry = EmptyRegistry
    BY DEF HmrInit, Init, ClientInit, NoBuilds, Running
<1> QED
    BY <1>1, ReloadTraceable, PatientInit, UpToDateInit DEF TraceInv

(***************************************************************************)
(* For a patient developer who saves one file at a time, a refresh that    *)
(* says that it has succeeded leaves no importer behind with outdated      *)
(* exports: the walk to the boundaries misses none                         *)
(* (require.runtime.ts:161-203).  Either all that is saved compiles and is *)
(* reported, or, whatever breaks or goes unreported, every file is one     *)
(* that the hot-module plugin can leave out as a stub.                     *)
(***************************************************************************)
THEOREM RefreshReachesAll ==
    ASSUME EditWhen = "quiet", MaxBatch <= 1,
           SavesArrive \/ Transformed = Module
    PROVE  HmrSpec => RefreshReachesImporters
<1> USE DEF SavesArrive
<1>1. HmrInit => TraceInv
    BY TraceInit
<1>2. TraceInv /\ [HmrNext]_vars => TraceInv'
    BY TraceStep
<1>3. TraceInv /\ [HmrNext]_vars =>
        [Deliver /\ outcome' = "refreshed"
            => StaleImports(registry') \subseteq StaleImports(registry)]_vars
    BY RefreshedNoStale
<1> QED
    BY <1>1, <1>2, <1>3, PTL DEF HmrSpec, RefreshReachesImporters
-----------------------------------------------------------------------------
(***************************************************************************)
(* Joined to an app, the server still does what DevBundler says of it by   *)
(* itself: the app adds to its steps and never to what they do to it.      *)
(***************************************************************************)
THEOREM ServerByItself == HmrSpec => Spec
<1>1. HmrInit => Init
    BY DEF HmrInit
<1>2. [HmrNext]_vars => [Next]_serverVars
    BY DEF HmrNext, Next, Reload, Start, Deliver, vars
<1> QED
    BY <1>1, <1>2, PTL DEF HmrSpec, Spec

(***************************************************************************)
(* So a watched session never loses track of a file, whatever the app is   *)
(* sent, and whenever it connects, receives or reloads.                    *)
(***************************************************************************)
THEOREM NothingForgottenWithApp == HmrSpec => NeverForgotten
BY ServerByItself, NothingForgotten, PTL

(* The history variables of HmrGiven only watch. *)
LEMMA GivenIsHistory == GivenSpec => HmrSpec
<1>1. GivenInit => HmrInit
    BY DEF GivenInit
<1>2. [GivenNext]_givenVars => [HmrNext]_vars
    BY DEF GivenNext, givenVars, HmrNext, Reload
<1> QED
    BY <1>1, <1>2, PTL DEF GivenSpec, HmrSpec

(***************************************************************************)
(* Hot reloading of one save of one file after the other, all of it that   *)
(* TLC checks in one run but for the liveness, with saves that break and   *)
(* saves that go unreported: only these are missing from the app whenever  *)
(* nothing is under way, an update is exact and leaves out only what the   *)
(* app has, a refresh misses no importer, and the whole goes from one      *)
(* state of the project to the next.                                       *)
(***************************************************************************)
THEOREM PatientHotReload ==
    ASSUME EditWhen = "quiet", MaxBatch <= 1, SavesArrive \/ Transformed = Module
    PROVE  GivenFairSpec => /\ [](OnlyMissedBehind /\ StubsArePresent /\ UpdatesExact)
                            /\ RefreshReachesImporters
                            /\ ReloadsWhole
<1>1. GivenSpec => []OnlyMissedBehind
    BY OnlyDroppedAreBehind
<1>2. HmrSpec => []StubsArePresent
    BY StubsAlwaysPresent
<1>3. HmrSpec => []UpdatesExact
    BY ServerByItself, QuietUpdatesExact, PTL
<1>4. HmrSpec => RefreshReachesImporters
    BY RefreshReachesAll
<1>5. GivenSpec => ReloadsWhole
    BY HmrImplementsHotReload
<1> QED
    BY <1>1, <1>2, <1>3, <1>4, <1>5, GivenIsHistory, PTL DEF GivenFairSpec
=============================================================================
