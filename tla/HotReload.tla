----------------------------- MODULE HotReload -----------------------------
(***************************************************************************)
(* What hot reloading promises the developer: the app is given the code on *)
(* disk of all that it has and needs at once, and never a part of it.  A   *)
(* save may be lost: it is then as if it had not been made, until the file *)
(* is saved again or the app is reloaded.  Hmr implements it as long as    *)
(* one save is delivered before the next.                                  *)
(***************************************************************************)
EXTENDS SourceFiles

VARIABLES
    source,  \* the content of every file
    lost,    \* the files whose last save was lost
    app      \* the code that the app has been given for every module

vars == <<source, lost, app>>

Init ==
    /\ source \in [Module -> Content]
    /\ \A m \in Module : source[m] \in Source[m]
    /\ lost = {}
    /\ app = NoCode

Save(m) ==
    /\ \E c \in Source[m] : source' = [source EXCEPT ![m] = c]
    /\ lost' = lost \ {m}
    /\ UNCHANGED app

Lose(S) ==
    /\ lost' = lost \cup S
    /\ UNCHANGED <<source, app>>

(* The text that counts: of a lost save, the one that the app has. *)
Text(m) == IF m \in lost /\ app[m] # None THEN app[m] ELSE source[m]

(* The app starts, or is brought up to date with everything it has. *)
Sync ==
    LET needed == Closure({Entry} \cup Loaded(app), [m \in Module |-> Requires(Text(m))])
    IN  /\ \A m \in needed : Text(m).compiles
        /\ app' = [m \in Module |-> IF m \in needed THEN Text(m) ELSE None]
        /\ UNCHANGED <<source, lost>>

Quit ==
    /\ lost' = {}
    /\ app' = NoCode
    /\ UNCHANGED source

Next ==
    \/ Sync
    \/ Quit
    \/ \E m \in Module : Save(m)
    \/ \E S \in SUBSET Module : Lose(S)

Spec == Init /\ [][Next]_vars
=============================================================================
