----------------------------- MODULE LeaseWait -----------------------------
(***************************************************************************)
(* Lease with a history variable: since when each blocked Acquire has had  *)
(* the chance to look at the Lease.  It bounds how long a waiter can stay  *)
(* asleep on a Lease whose holder died or left.                            *)
(***************************************************************************)
EXTENDS Lease

VARIABLE asked   \* asked[m]: its first attempt, or the last TryLock stopped

Waiting == {"sleep", "get", "got", "put"}

WInit == Init /\ asked = [m \in Manager |-> 0]

(* An attempt that TryLock stopped: back to sleep without a look. *)
TryLockFailed(m) ==
    pc[m] = "sleep" /\ pc'[m] = "sleep" /\ at'[m] # at[m]

WNext ==
    /\ Next
    /\ asked' = [m \in Manager |->
                   IF pc'[m] \notin Waiting THEN 0
                   ELSE IF pc[m] = "new" \/ TryLockFailed(m) THEN now
                   ELSE asked[m]]

WSpec == WInit /\ [][WNext]_<<vars, asked>>

(* One look at the Lease: a sleep, a read and a write. *)
Round(m) == Interval(m) + 2 * MaxLatency

(* How long a blocked Acquire sleeps on: after the last write of the Lease  *)
(* (or its own attempt, if later) it needs one round to see that            *)
(* write, waits out the holder's duration, and wakes within an interval;    *)
(* on a Lease with no holder it needs the first round only.  With the round *)
(* at a third of the duration this is claimable's "up to ~2x                *)
(* leaseDurationSeconds", and Acquire's "picked up promptly".               *)
ReclaimBound ==
    \A m \in Manager :
      pc[m] = "sleep" =>
        LET from == IF asked[m] > wroteAt THEN asked[m] ELSE wroteAt
        IN  now <= from + Round(m)
                   + IF lease.holder = None THEN 0 ELSE lease.dur + Round(m)

----------------------------------------------------------------------------
(* Why ReclaimBound holds *)

(* Time x is within d of m's first attempt or of the last write. *)
Near(m, x, d) == x <= asked[m] + d \/ x <= wroteAt + d

(* m looks at the Lease, or has begun to, within a round; or it saw the     *)
(* holder in time, and looks again once the duration it measures is over.   *)
Due(m) ==
    \/ Near(m, at[m], Round(m))
    \/ /\ lease.holder # None /\ Seen(m, lease)
       /\ at[m] <= obs[m].at + lease.dur + Interval(m)
       /\ Near(m, obs[m].at, Round(m) + MaxLatency)

(* A copy that is out of date was overtaken by a write during the attempt.  *)
Wakes(m) ==
    /\ asked[m] <= now
    /\ pc[m] = "sleep" => at[m] <= now + Interval(m)
    /\ pc[m] \in {"sleep", "get"} => Due(m)
    /\ pc[m] = "got" /\ cur[m].rv = lease.rv => Due(m)
    /\ pc[m] = "got" /\ cur[m].rv # lease.rv => at[m] <= wroteAt
    /\ pc[m] = "put" /\ cur[m].rv # lease.rv => at[m] <= wroteAt + MaxLatency

WaitInv == asked \in [Manager -> Nat] /\ \A m \in Manager : Wakes(m)
=============================================================================
