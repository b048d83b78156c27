--------------------------- MODULE MCObjectStore ---------------------------
(* Small instances of ObjectStore for TLC. *)
EXTENDS ObjectStore

CONSTANTS m1, m2, k1, k2, t1, b1

Lens == [v \in Stored |-> CASE v = Empty -> 0 [] v = t1 -> 1 [] v = b1 -> 2]
=============================================================================
