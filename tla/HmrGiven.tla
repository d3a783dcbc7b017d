------------------------------ MODULE HmrGiven ------------------------------
(***************************************************************************)
(* Hmr with two history variables: the code that the app was last given    *)
(* for a module in a bundle or an update, as the registry itself forgets   *)
(* it when a stub is registered over it; and the files whose last save     *)
(* came to nothing.  With them, Hmr implements HotReload.                  *)
(***************************************************************************)
EXTENDS Hmr

VARIABLES given, missed

givenVars == <<vars, given, missed>>

GivenInit == HmrInit /\ given = NoCode /\ missed = {}

(* What the code of a bundle or an update gives on top of g. *)
Give(g, code) ==
    [m \in Module |-> IF code[m] \in {Stub, None} THEN g[m] ELSE code[m]]

Saved == {m \in Module : disk'[m] # disk[m]}

(* The files of an event that the server gives up: the watcher reports an  *)
(* error in place of a file that the app has, or the build fails.          *)
Dropped ==
    {m \in Module : \/ WatcherError /\ m \in pending \cap known
                    \/ \E s \in Slot : BuildFailed(s) /\ m \in builds[s].changed}

GivenNext ==
    \/ /\ ServerStep
       /\ missed' = (missed \cup Dropped) \ Saved
       /\ UNCHANGED <<clientVars, given>>
    \/ Reload /\ given' = NoCode /\ missed' = {}
    \/ Start /\ given' = Give(NoCode, bundle) /\ UNCHANGED missed
    \/ Deliver /\ given' = Give(given, Head(outbox).code) /\ UNCHANGED missed

GivenSpec == GivenInit /\ [][GivenNext]_givenVars

GivenFairSpec == GivenSpec /\ Fairness

App == INSTANCE HotReload WITH source <- disk, lost <- missed, app <- given

(***************************************************************************)
(* Seen from the developer, one save after the other, the app goes from    *)
(* one state of the whole project to the next: an update brings everything *)
(* the app has, and all that it needs from now on, to what is on disk      *)
(* (dev-bundler.ts:120-178), although it only carries a few modules, and a *)
(* save whose build fails is as if it had not been made.                   *)
(***************************************************************************)
ReloadsWhole == App!Spec

(***************************************************************************)
(* Once everything has been delivered, every module the server knows is in *)
(* the app as it is on disk, unless its own last save was given up: a      *)
(* failed build costs the app the files of its event and no others, though *)
(* it makes all of them known again (dev-bundler.ts:169).                  *)
(***************************************************************************)
OnlyMissedBehind ==
    Settled =>
        \A m \in known \ missed : /\ registry.run[m] \in {disk[m], Stub}
                                  /\ registry.result[m] \in {disk[m], Stub, None}

(***************************************************************************)
(* When saves and reloads stop, every save is delivered or given up, and   *)
(* the app ends up running what is on disk, but for what was given up.     *)
(***************************************************************************)
CatchesUp ==
    \/ []<><<TRUE>>_disk
    \/ []<>(phase # "watching")
    \/ <>[](Settled /\ OnlyMissedBehind)
=============================================================================
