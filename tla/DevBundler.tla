----------------------------- MODULE DevBundler -----------------------------
(***************************************************************************)
(* The server half of hot reloading for one client: the set of modules the *)
(* server believes the client has (ClientKnownModules), the full build,    *)
(* the file watcher, the hot-reload builds it starts and the WebSocket.    *)
(*                                                                         *)
(* Node runs one callback at a time, so an action is what runs between two *)
(* awaits.  Every watcher callback starts its own esbuild.build, and       *)
(* nothing makes one wait for another: builds of one client overlap.       *)
(*                                                                         *)
(* Every request makes its own ClientKnownModules, so a second client      *)
(* shares only the files on disk; one client is modelled here.             *)
(***************************************************************************)
EXTENDS SourceFiles, Sequences

CONSTANTS
    Slot,          \* at most Cardinality(Slot) hot-reload builds at once (a bound)
    MaxOutbox,     \* at most this many updates on the socket (a bound)
    MaxBatch,      \* at most this many files in one watcher event (a bound)
    EditWhen,      \* when the developer may save a file, see EditAllowed
    WatcherErrors  \* whether the watcher may report an error instead of events

ASSUME BundlerAssumption ==
    /\ MaxOutbox \in Nat /\ MaxBatch \in Nat
    /\ EditWhen \in {"anytime", "watching", "connected", "quiet"}
    /\ WatcherErrors \in BOOLEAN

VARIABLES
    disk,       \* the content of every file
    phase,      \* how far the handler of GET /index.bundle has come
    bundle,     \* what the full build has loaded; then the bundle it shipped
    known,      \* ClientKnownModules
    pending,    \* saved files whose watcher event has not been delivered
    builds,     \* the running hot-reload builds
    hasError,   \* has_error of the request handler
    connected,  \* the client has an open socket to this session
    outbox      \* updates sent on the socket and not yet received

serverVars == <<disk, phase, bundle, known, pending, builds, hasError,
                connected, outbox>>

Phase == {"idle", "bundling", "bundled", "watching", "failed"}

(***************************************************************************)
(* A hot-reload build: the files of the watcher event, those of them that  *)
(* were known (modules_to_hot_replace), the files being read and what has  *)
(* been loaded.  An update: the modules to replace, the keys of the graph  *)
(* update (modules_in_payload) and the code of every input of the build.   *)
(***************************************************************************)
Build == [changed : SUBSET Module,
          replace : SUBSET Module,
          reading : SUBSET Module,
          code    : [Module -> MaybeCode]]

Update == [replace : SUBSET Module,
           graph   : SUBSET Module,
           code    : [Module -> MaybeCode]]

ASSUME NoneAssumption == None \notin Build

NoBuilds == [s \in Slot |-> None]

Running == {s \in Slot : builds[s] # None}

Init ==
    /\ disk \in [Module -> UNION {Source[m] : m \in Module}]
    /\ \A m \in Module : disk[m] \in Source[m]
    /\ phase = "idle"
    /\ bundle = NoCode
    /\ known = {}
    /\ pending = {}
    /\ builds = NoBuilds
    /\ hasError = FALSE
    /\ connected = FALSE
    /\ outbox = <<>>
-----------------------------------------------------------------------------
(***************************************************************************)
(* The developer and the file watcher.                                     *)
(***************************************************************************)

(* "anytime": also while the bundle is being made.  "watching": once the     *)
(* watcher is subscribed.  "connected": and the app's socket is open.        *)
(* "quiet": and every earlier save has been built and delivered.             *)
EditAllowed ==
    \/ EditWhen = "anytime"
    \/ /\ phase = "watching"
       /\ \/ EditWhen = "watching"
          \/ EditWhen = "connected" /\ connected
          \/ EditWhen = "quiet" /\ connected /\ Running = {} /\ outbox = <<>>

Edit(m) ==
    /\ EditAllowed
    /\ Cardinality(pending \cup {m}) <= MaxBatch
    /\ \E c \in Source[m] \ {disk[m]} : disk' = [disk EXCEPT ![m] = c]
    /\ pending' = IF phase = "watching" THEN pending \cup {m} ELSE pending
    /\ UNCHANGED <<phase, bundle, known, builds, hasError, connected, outbox>>

(* The watcher reports an error: its callback logs it and returns. *)
WatcherError ==
    /\ WatcherErrors
    /\ pending # {}
    /\ pending' = {}
    /\ UNCHANGED <<disk, phase, bundle, known, builds, hasError, connected,
                   outbox>>

(* Mutant: the changed files stay known. *)
InvalidatedNothing(changed) == known

(* The known modules once a watcher event has been handled. *)
Invalidated(changed) == known \ changed

(***************************************************************************)
(* build_hmr_payload up to its await.  No changed file is known: it        *)
(* returns undefined.  Otherwise a build starts on the known ones.         *)
(***************************************************************************)
NotifyIrrelevant ==
    /\ pending # {}
    /\ pending \cap known = {}
    /\ pending' = {}
    /\ known' = Invalidated(pending)
    /\ UNCHANGED <<disk, phase, bundle, builds, hasError, connected, outbox>>

Notify(s) ==
    /\ pending \cap known # {}
    /\ builds[s] = None
    /\ builds' = [builds EXCEPT ![s] = [changed |-> pending,
                                        replace |-> pending \cap known,
                                        reading |-> {},
                                        code    |-> NoCode]]
    /\ known' = Invalidated(pending)
    /\ pending' = {}
    /\ UNCHANGED <<disk, phase, bundle, hasError, connected, outbox>>
-----------------------------------------------------------------------------
(***************************************************************************)
(* GET /index.bundle: the full build, then the subscription to the watcher.*)
(***************************************************************************)

(* A request, or a reload of the app: a new session with nothing known. *)
BundleRequest ==
    /\ phase # "bundling"
    /\ phase' = "bundling"
    /\ bundle' = NoCode
    /\ known' = {}
    /\ pending' = {}
    /\ builds' = NoBuilds
    /\ hasError' = FALSE
    /\ connected' = FALSE
    /\ outbox' = <<>>
    /\ UNCHANGED disk

FullLoad(m) ==
    /\ phase = "bundling"
    /\ m \in Discovered({Entry}, bundle) \ Loaded(bundle)
    /\ bundle' = [bundle EXCEPT ![m] = disk[m]]
    /\ UNCHANGED <<disk, phase, known, pending, builds, hasError, connected,
                   outbox>>

AllCompile(code) == \A m \in Loaded(code) : code[m].compiles

FullEnds ==
    /\ phase = "bundling"
    /\ Discovered({Entry}, bundle) \subseteq Loaded(bundle)

FullDone ==
    /\ FullEnds
    /\ AllCompile(bundle)
    /\ phase' = "bundled"
    /\ known' = Loaded(bundle)
    /\ UNCHANGED <<disk, bundle, pending, builds, hasError, connected, outbox>>

(* The client is sent `throw new Error(...)` and no watcher is started. *)
FullFailed ==
    /\ FullEnds
    /\ ~AllCompile(bundle)
    /\ phase' = "failed"
    /\ known' = {}
    /\ UNCHANGED <<disk, bundle, pending, builds, hasError, connected, outbox>>

(* watcher.subscribe resolves: saves are noticed from here on. *)
Subscribed ==
    /\ phase = "bundled"
    /\ phase' = "watching"
    /\ UNCHANGED <<disk, bundle, known, pending, builds, hasError, connected,
                   outbox>>

(* The app has run the bundle and its WebSocket is open. *)
Connect ==
    /\ phase \in {"bundled", "watching"}
    /\ ~connected
    /\ connected' = TRUE
    /\ UNCHANGED <<disk, phase, bundle, known, pending, builds, hasError,
                   outbox>>
-----------------------------------------------------------------------------
(***************************************************************************)
(* A hot-reload build.  esbuild calls the hot-module plugin for every file *)
(* it discovers; the plugin consults ClientKnownModules at that moment,    *)
(* and the file is read later.                                             *)
(***************************************************************************)
ToLoad(b) == Discovered(b.replace, b.code) \ (Loaded(b.code) \cup b.reading)

(* Mutant: whatever is not being replaced is taken to be in the client. *)
StubUnlessReplaced(m) ==
    m \in Transformed /\ \A s \in Running : m \notin builds[s].replace

IsStubbed(m) == m \in known /\ m \in Transformed

OnLoadStub(s, m) ==
    /\ s \in Running
    /\ m \in ToLoad(builds[s])
    /\ IsStubbed(m)
    /\ builds' = [builds EXCEPT ![s].code[m] = Stub]
    /\ UNCHANGED <<disk, phase, bundle, known, pending, hasError, connected,
                   outbox>>

OnLoadTransform(s, m) ==
    /\ s \in Running
    /\ m \in ToLoad(builds[s])
    /\ ~IsStubbed(m)
    /\ builds' = [builds EXCEPT ![s].reading = @ \cup {m}]
    /\ UNCHANGED <<disk, phase, bundle, known, pending, hasError, connected,
                   outbox>>

ReadFile(s, m) ==
    /\ s \in Running
    /\ m \in builds[s].reading
    /\ builds' = [builds EXCEPT ![s].code[m] = disk[m],
                                ![s].reading = @ \ {m}]
    /\ UNCHANGED <<disk, phase, bundle, known, pending, hasError, connected,
                   outbox>>

BuildEnds(s) ==
    /\ s \in Running
    /\ builds[s].reading = {}
    /\ ToLoad(builds[s]) = {}

(* Mutants: the newly imported modules are forgotten; nothing is left out. *)
InPayloadReplaced(b) == b.replace \ known
InPayloadAll(b) == Loaded(b.code)

(* modules_in_payload: the inputs of the build that are not known by now. *)
InPayload(b) == Loaded(b.code) \ known

(* Mutant: the payload has no stub for the modules that it leaves out. *)
PayloadWithoutStubs(b) ==
    [replace |-> b.replace, graph |-> InPayload(b),
     code |-> [m \in Module |-> IF m \in InPayload(b) THEN b.code[m] ELSE None]]

Payload(b) == [replace |-> b.replace, graph |-> InPayload(b), code |-> b.code]

(***************************************************************************)
(* The rest of build_hmr_payload and of the watcher callback: the update   *)
(* goes to the client's socket if it is open, and nowhere otherwise.       *)
(***************************************************************************)
BuildDone(s) ==
    /\ BuildEnds(s)
    /\ AllCompile(builds[s].code)
    /\ connected => Len(outbox) < MaxOutbox
    /\ known' = known \cup InPayload(builds[s])
    /\ outbox' = IF connected THEN Append(outbox, Payload(builds[s])) ELSE outbox
    /\ hasError' = FALSE
    /\ builds' = [builds EXCEPT ![s] = None]
    /\ UNCHANGED <<disk, phase, bundle, pending, connected>>

(* Mutants: no reset; the list is added in place of its members. *)
ResetNothing(b) == known
ResetList(b) == known \cup {b.changed}

(* The known modules after a failed build: the invalidation is undone for *)
(* every file of the event.                                               *)
Reset(b) == known \cup b.changed

BuildFailed(s) ==
    /\ BuildEnds(s)
    /\ ~AllCompile(builds[s].code)
    /\ known' = Reset(builds[s])
    /\ hasError' = TRUE
    /\ builds' = [builds EXCEPT ![s] = None]
    /\ UNCHANGED <<disk, phase, bundle, pending, connected, outbox>>

(* The client takes an update off the socket. *)
Receive ==
    /\ outbox # <<>>
    /\ outbox' = Tail(outbox)
    /\ UNCHANGED <<disk, phase, bundle, known, pending, builds, hasError,
                   connected>>
-----------------------------------------------------------------------------
BuildStep(s) ==
    \/ Notify(s)
    \/ \E m \in Module : \/ OnLoadStub(s, m)
                         \/ OnLoadTransform(s, m)
                         \/ ReadFile(s, m)
    \/ BuildDone(s)
    \/ BuildFailed(s)

(* The steps that neither open a session nor reach the client. *)
ServerStep ==
    \/ \E m \in Module : Edit(m) \/ FullLoad(m)
    \/ WatcherError
    \/ NotifyIrrelevant
    \/ FullDone
    \/ FullFailed
    \/ Subscribed
    \/ \E s \in Slot : BuildStep(s)

Next ==
    \/ ServerStep
    \/ BundleRequest
    \/ Connect
    \/ Receive

(* What goes on by itself, without the developer. *)
Progress ==
    \/ \E m \in Module : FullLoad(m)
    \/ FullDone
    \/ FullFailed
    \/ Subscribed
    \/ Connect
    \/ NotifyIrrelevant
    \/ \E s \in Slot : BuildStep(s)
    \/ Receive

Spec == Init /\ [][Next]_serverVars
-----------------------------------------------------------------------------
TypeOK ==
    /\ disk \in [Module -> Content]
    /\ phase \in Phase
    /\ bundle \in [Module -> MaybeCode]
    /\ known \subseteq Module
    /\ pending \subseteq Module
    /\ builds \in [Slot -> Build \cup {None}]
    /\ hasError \in BOOLEAN
    /\ connected \in BOOLEAN
    /\ outbox \in Seq(Update)

(* The files that are known, whose next save is going to be rebuilt, and   *)
(* those that a running build is replacing, of which a save is ignored as  *)
(* long as it runs.                                                        *)
Tracked == known \cup UNION {builds[s].replace : s \in Running}

(***************************************************************************)
(* However builds overlap and fail, a watched session never loses track of *)
(* a file (dev-bundler.ts:128-169): what is deleted when a watcher event   *)
(* comes in is put back when its build ends, well or badly.                *)
(***************************************************************************)
NeverForgotten ==
    [][phase = "watching" /\ phase' = "watching" => Tracked \subseteq Tracked']_serverVars

(***************************************************************************)
(* An update carries in full, and announces in its graph, "the modules to  *)
(* replace + the newly included modules if any" (dev-bundler.ts:149).      *)
(***************************************************************************)
IsExact(u) ==
    /\ u.replace \subseteq u.graph
    /\ \A m \in u.graph : u.code[m] \notin {Stub, None}

UpdatesExact == \A i \in DOMAIN outbox : IsExact(outbox[i])
=============================================================================
