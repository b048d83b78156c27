---------------------------- MODULE MCLeaseWait ----------------------------
(* A small instance of LeaseWait for TLC: two handles of one volume. *)
EXTENDS LeaseWait, TLC

CONSTANTS v1, p1

MCPodOf == v1 :> p1
MCDuration == v1 :> 3
MCSkew == v1 :> -5
(* The first handle locks without blocking, the second waits for it. *)
MCBlocking == {<<v1, 2>>}
=============================================================================
