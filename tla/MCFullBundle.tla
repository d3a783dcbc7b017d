---------------------------- MODULE MCFullBundle ----------------------------
(* A module graph that grows with every save. *)
EXTENDS FullBundle

Growing == [v \in Version |-> v + 1]
=============================================================================
