---------------------------- MODULE MCTransform ----------------------------
(* The packages and the lists of plugins to try. *)
EXTENDS Transform, FiniteSets

SomePackages == {"<app-code>", "react-native", "react-native-reanimated", "lodash"}

FlowOnly == {"react-native"}

(* Every list without repetition that ends with swc. *)
SwcLast ==
    {Append(l, "swc") : l \in
        {l \in UNION {[1..n -> {"flow", "svg", "reanimated"}] : n \in 0..3} :
            \A i, j \in DOMAIN l : i # j => l[i] # l[j]}}

(* As swc does not know Flow, the flow plugin must be there. *)
Complete == {l \in SwcLast : \E i \in DOMAIN l : l[i] = "flow"}
=============================================================================
