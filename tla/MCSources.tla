----------------------------- MODULE MCSources -----------------------------
(* Small projects for the model checker: the contents their files may have. *)
EXTENDS Naturals

CONSTANTS e, c, x, y

File(rev, imports, exports) ==
    [rev |-> rev, imports |-> imports, exports |-> exports, compiles |-> TRUE]

Broken(rev) ==
    [rev |-> rev, imports |-> {}, exports |-> "empty", compiles |-> FALSE]

(* e -> c -> x -> y: screen c uses component x, which uses helper y. *)
ChainSource ==
    [m \in {e, c, x, y} |->
        CASE m = e -> {File(1, {c}, "empty")}
          [] m = c -> {File(1, {x}, "components"), File(2, {x}, "components")}
          [] m = x -> {File(1, {y}, "components")}
          [] m = y -> {File(1, {}, "other"), File(2, {}, "other")}]

(* The smallest project in which something can be left out or go wrong.   *)
TinySource ==
    [m \in {e, c} |->
        CASE m = e -> {File(1, {c}, "empty"), File(2, {}, "other")}
          [] m = c -> {File(1, {}, "components"), Broken(2)}]

(* A project that keeps changing: c requires y or x, x may require y, x is *)
(* a component, a helper or broken, and y is a helper or a component.      *)
MendedSource ==
    [m \in {e, c, x, y} |->
        CASE m = e -> {File(1, {c}, "empty")}
          [] m = c -> {File(1, {y}, "other"), File(2, {x}, "components")}
          [] m = x -> {File(1, {}, "components"), File(2, {y}, "other"), Broken(3)}
          [] m = y -> {File(1, {}, "other"), File(2, {}, "components")}]

(* A project in which any file but the entry may be broken for a while. *)
BreakableSource ==
    [m \in {e, c, x, y} |->
        CASE m = e -> {File(1, {c}, "empty")}
          [] m = c -> {File(1, {}, "components"), File(2, {x}, "components"),
                       Broken(3)}
          [] m = x -> {File(1, {y}, "components"), Broken(2)}
          [] m = y -> {File(1, {}, "other"), File(2, {}, "other")}]
=============================================================================
