------------------------------ MODULE MCLease ------------------------------
(* Small instances of Lease for TLC. *)
EXTENDS LeaseInv, TLC

CONSTANTS v1, v2, p1, p2

(* Each volume belongs to a pod of its own, *)
TwoPods == v1 :> p1 @@ v2 :> p2
(* or one pod mounts the same object, and so the same Lease, twice. *)
OnePod == v1 :> p1 @@ v2 :> p1

(* Interval 1, and 1 + 3 * 1 <= 4: the tightest timely instance. *)
Durations == [v \in Volume |-> 4]

(* v2's node runs more than a lease duration ahead of v1's. *)
Skews == [v \in Volume |-> IF v = v2 THEN 6 ELSE 0]

(* Every lock request blocks, *)
AllBlock == Manager
(* or only those of the node whose clock is ahead. *)
OneBlocks == {m \in Manager : VolumeOf(m) = v2}
=============================================================================
