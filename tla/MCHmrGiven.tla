----------------------------- MODULE MCHmrGiven -----------------------------
(* Hot reloading end to end, with the code that the app has been given. *)
EXTENDS HmrGiven, MCSources
=============================================================================
