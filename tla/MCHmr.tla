------------------------------- MODULE MCHmr -------------------------------
(* Hot reloading end to end, on the small projects of MCSources. *)
EXTENDS Hmr, MCSources, TLC

(* Builds do not differ by the slot they run in. *)
SlotSymmetry == Permutations(Slot)
=============================================================================
