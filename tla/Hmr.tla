-------------------------------- MODULE Hmr --------------------------------
(***************************************************************************)
(* Hot reloading end to end: the dev bundler of one session and the module *)
(* registry of the app it serves, joined by the bundle response and by the *)
(* socket.                                                                 *)
(***************************************************************************)
EXTENDS DevBundler, RequireRuntime

vars == <<serverVars, clientVars>>

HmrInit == Init /\ ClientInit

(* The app asks for a bundle; whatever was running in it is gone. *)
Reload == BundleRequest /\ DropRegistry

(* The app runs the bundle; ws-client.runtime.ts, part of it, connects. *)
Start == Connect /\ RunBundle(bundle)

Deliver == Receive /\ HandleMessage(Head(outbox))

HmrNext ==
    \/ ServerStep /\ UNCHANGED clientVars
    \/ Reload
    \/ Start
    \/ Deliver

HmrSpec == HmrInit /\ [][HmrNext]_vars

(***************************************************************************)
(* Node's event loop, esbuild, the watcher and the socket never stop while *)
(* they have something to do.  Saving a file, reloading the app and a      *)
(* watcher error are left to chance.                                       *)
(***************************************************************************)
Fairness == WF_serverVars(Progress)

FairSpec == HmrSpec /\ Fairness
-----------------------------------------------------------------------------
(* Nothing is on its way from a saved file to the app. *)
Settled ==
    /\ phase = "watching" /\ connected
    /\ pending = {} /\ Running = {} /\ outbox = <<>>

KnownOnDisk ==
    \A m \in known : /\ registry.run[m] \in {disk[m], Stub}
                     /\ registry.result[m] \in {disk[m], Stub, None}

(***************************************************************************)
(* Once everything has been delivered and every known file compiles, the   *)
(* code the app has for a known module is the code on disk, and so is the  *)
(* code its cached exports came from.  (Where the run cache holds the stub *)
(* in place of the code, see StubNeverRun.)                                *)
(***************************************************************************)
InSync == Settled /\ (\A m \in known : disk[m].compiles) => KnownOnDisk

(***************************************************************************)
(* The same once every file of the project compiles, be it again: what is  *)
(* left behind when a build fails catches up when the mistake has been     *)
(* mended, in whichever file it was ("Changed modules that are already     *)
(* included in the bundle", dev-bundler.ts:119).                           *)
(***************************************************************************)
MendedInSync == Settled /\ (\A m \in Module : disk[m].compiles) => KnownOnDisk

(***************************************************************************)
(* `Module ... not found in run cache` is never thrown: whatever code the  *)
(* app has, it also has the modules that this code requires.               *)
(***************************************************************************)
RequireFinds ==
    \A m \in Loaded(registry.run) :
        registry.run[m].imports \subseteq Loaded(registry.run)

(***************************************************************************)
(* Every module the app has code for is known to the server, or about to   *)
(* be replaced by a running build: nothing in the app is beyond the reach  *)
(* of hot reloading for good, whatever builds failed or overlapped.        *)
(***************************************************************************)
ClientModulesTracked ==
    phase \in {"bundled", "watching"} => Loaded(registry.run) \subseteq Tracked

(***************************************************************************)
(* A module that an update leaves out "is already present in the client"   *)
(* (esbuild-plugin-hot-module.ts:22).                                      *)
(***************************************************************************)
StubsArePresent ==
    outbox # <<>> =>
        \A m \in Module :
            Head(outbox).code[m] = Stub => registry.run[m] # None

(***************************************************************************)
(* A stub only stands in for a module whose result is cached: "the require *)
(* will be intercepted by the runtime and the cached version will be used" *)
(* (esbuild-plugin-hot-module.ts:24).  No cached result comes from a stub. *)
(***************************************************************************)
StubNeverRun == \A m \in Module : registry.result[m] # Stub

(* Cached modules that hold an outdated copy of the exports of an import   *)
(* which React refresh cannot patch in place.                              *)
StaleImports(reg) ==
    {l \in Cached(reg) \X Module :
        /\ l[2] \in reg.result[l[1]].imports
        /\ l \notin reg.linked
        /\ ~IsRefreshBoundary(reg, l[2])}

(***************************************************************************)
(* A refresh that says it succeeded leaves no module holding outdated      *)
(* exports: all importers up to the boundaries have been run again.        *)
(***************************************************************************)
RefreshReachesImporters ==
    [][Deliver /\ outcome' = "refreshed"
        => StaleImports(registry') \subseteq StaleImports(registry)]_vars
=============================================================================
