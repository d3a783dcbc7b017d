--------------------------- MODULE MCRefreshWalk ---------------------------
(* All module graphs over three files, any of which may be boundaries. *)
EXTENDS RefreshWalk

CONSTANTS a, b, c

AnySource == [m \in Module |-> {[rev |-> 1, imports |-> {}, exports |-> "other",
                                 compiles |-> TRUE]}]

(* The code of the modules, of which those in ran have a result: the rest  *)
(* was not required again by a boundary that threw in an earlier refresh.  *)
Started(code, ran) ==
    [run    |-> code,
     result |-> [m \in Module |-> IF m \in ran THEN code[m] ELSE None],
     graph  |-> [m \in Module |-> code[m].imports],
     linked |-> {l \in ran \X ran : l[2] \in code[l[1]].imports}]

StartedOnAnyGraph ==
    {Started([m \in Module |-> [rev |-> 1, imports |-> g[m], exports |-> e[m],
                                compiles |-> TRUE]], ran) :
        g \in {f \in [Module -> SUBSET Module] : \A m \in Module : m \notin f[m]},
        e \in [Module -> {"components", "other"}],
        ran \in SUBSET Module}
=============================================================================
