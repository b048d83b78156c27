---------------------------- MODULE WaitProofs ----------------------------
(***************************************************************************)
(* The bound on a blocked Acquire (LeaseWait) for every duration, latency, *)
(* skew and number of managers, from WaitInv and LeaseInv's SafeInv.       *)
(***************************************************************************)
EXTENDS LeaseWait, LeaseProofs

(* The numbers of one manager. *)
LEMMA WaitBasics ==
    ASSUME TypeOK, asked \in [Manager -> Nat], NEW m \in Manager
    PROVE  /\ Interval(m) \in Nat /\ Interval(m) >= 1 /\ MaxLatency \in Nat
           /\ now \in Nat /\ wroteAt \in Nat /\ asked[m] \in Nat
           /\ at[m] \in Nat /\ obs[m].at \in Nat
           /\ lease.rv \in Nat /\ cur[m].rv \in Nat
BY Basics, LeaseAssumption DEF TypeOK, LeaseRecord, ObsRecord

(* A step that applies no write, and leaves m where it was, leaves m's      *)
(* appointment with the Lease alone.                                        *)
LEMMA WakesKept ==
    ASSUME TypeOK, asked \in [Manager -> Nat], NEW m \in Manager, Wakes(m),
           UNCHANGED <<lease, wroteAt>>, now' \in Nat, now <= now',
           pc'[m] = pc[m], at'[m] = at[m], cur'[m] = cur[m],
           obs'[m] = obs[m], asked'[m] = asked[m]
    PROVE  Wakes(m)'
<1>1. Due(m) => Due(m)'
  BY DEF Due, Near, Seen, Round, Interval, VolumeOf
<1> QED
  BY <1>1, WaitBasics DEF Wakes, Interval, VolumeOf

(* A write, whoever sends it, starts the count again. *)
LEMMA WakesAfterWrite ==
    ASSUME TypeOK, Clocks, asked \in [Manager -> Nat], NEW m \in Manager,
           Wakes(m), wroteAt' = now, now' = now, lease'.rv = lease.rv + 1,
           pc[m] = "got" => cur[m].rv <= lease.rv,
           pc'[m] = pc[m], at'[m] = at[m], cur'[m] = cur[m],
           asked'[m] = asked[m]
    PROVE  Wakes(m)'
<1> USE WaitBasics
<1>1. pc[m] = "sleep" => at[m] <= now + Interval(m)
  BY DEF Wakes
<1>2. pc[m] \in {"get", "got", "put"} => at[m] <= now
  BY DEF Clocks
<1>3. pc[m] \in {"sleep", "get"} => at[m] <= now + Round(m)
  BY <1>1, <1>2 DEF Round
<1>4. pc[m] \in {"sleep", "get"} => Due(m)'
  BY <1>3 DEF Due, Near, Round, Interval, VolumeOf
<1>5. pc[m] = "got" => cur'[m].rv # lease'.rv
  OBVIOUS
<1> QED
  BY <1>1, <1>2, <1>4, <1>5 DEF Wakes, Interval, VolumeOf

(* A manager that is not Waiting has no appointment. *)
LEMMA WakesIdle ==
    ASSUME NEW m \in Manager, pc'[m] \notin Waiting, asked'[m] = 0,
           now' \in Nat
    PROVE  Wakes(m)'
BY DEF Wakes, Waiting

(* TryAcquire, and the Acquire loop around it (lease.go): what the manager  *)
(* that takes the step knows afterwards.                                    *)
LEMMA WakesAcquire ==
    ASSUME SafeInv, asked \in [Manager -> Nat], NEW m \in Manager, Wakes(m),
           AcquireStep(m), pc'[m] \in Waiting,
           asked'[m] = IF pc[m] = "new" \/ TryLockFailed(m) THEN now
                       ELSE asked[m]
    PROVE  Wakes(m)'
<1>0. /\ Interval(m) \in Nat /\ Interval(m) >= 1 /\ MaxLatency \in Nat
      /\ now \in Nat /\ wroteAt \in Nat /\ asked[m] \in Nat
      /\ at[m] \in Nat /\ obs[m].at \in Nat
      /\ lease.rv \in Nat /\ cur[m].rv \in Nat
      /\ TypeOK /\ Interval(m)' = Interval(m) /\ Round(m)' = Round(m)
      /\ Round(m) = Interval(m) + 2 * MaxLatency
  BY WaitBasics DEF SafeInv, Interval, VolumeOf, Round
<1>c. /\ obs[m].at <= now
      /\ pc[m] = "sleep" => now <= at[m]
      /\ pc[m] \in {"get", "got", "put"}
           => at[m] <= now /\ now <= at[m] + MaxLatency
  BY DEF SafeInv, Clocks
<1>1. ASSUME UNCHANGED <<lease, wroteAt, now>>, pc'[m] = "sleep",
             at'[m] = now + Interval(m), now <= wroteAt + 2 * MaxLatency,
             asked'[m] = asked[m]
      PROVE  Wakes(m)'
  BY <1>0, <1>1 DEF Wakes, Due, Near
<1>2. CASE TryAcquire(m)
  <2>1. UNCHANGED <<lease, wroteAt, now, obs>>
    BY <1>2 DEF TryAcquire
  <2>2. CASE pc'[m] = "get"
    <3>1. at'[m] = now
      BY <1>0, <1>2, <2>2 DEF TryAcquire, NotOk, TypeOK
    <3>2. CASE pc[m] = "new"
      BY <1>0, <2>1, <2>2, <3>1, <3>2 DEF Wakes, Due, Near
    <3>3. CASE pc[m] = "sleep"
      <4>1. at'[m] = at[m] /\ asked'[m] = asked[m]
        BY <1>0, <1>2, <1>c, <2>2, <3>1, <3>3
           DEF TryAcquire, Begins, TryLockFailed
      <4>2. Due(m)'
        BY <1>0, <2>1, <3>3, <4>1 DEF Wakes, Due, Near, Seen
      <4> QED
        BY <1>0, <2>1, <2>2, <3>3, <4>1, <4>2 DEF Wakes
    <3> QED
      BY <1>2, <3>2, <3>3 DEF TryAcquire, Begins
  <2>3. CASE pc'[m] = "sleep"
    <3>1. at'[m] = now + Interval(m)
      BY <1>0, <1>2, <2>3 DEF TryAcquire, NotOk, TypeOK
    <3>2. asked'[m] = now
      <4>1. pc[m] = "sleep" => now >= at[m]
        BY <1>2 DEF TryAcquire, Begins
      <4>2. pc[m] = "sleep" => TryLockFailed(m)
        BY <1>0, <2>3, <3>1, <4>1 DEF TryLockFailed
      <4> QED
        BY <1>2, <4>2 DEF TryAcquire, Begins
    <3> QED
      BY <1>0, <2>1, <2>3, <3>1, <3>2 DEF Wakes, Due, Near
  <2> QED
    BY <1>0, <1>2, <2>2, <2>3 DEF TryAcquire, NotOk, TypeOK, Waiting
<1>3. CASE AcquireGet(m)
  <2>1. /\ UNCHANGED <<lease, wroteAt, now, obs, at>> /\ pc[m] = "get"
        /\ pc'[m] = "got" /\ cur'[m] = lease /\ asked'[m] = asked[m]
    BY <1>0, <1>3 DEF AcquireGet, TypeOK, TryLockFailed
  <2>2. Due(m)'
    BY <1>0, <2>1 DEF Wakes, Due, Near, Seen
  <2> QED
    BY <1>0, <2>1, <2>2 DEF Wakes
<1>4. CASE Claim(m)
  <2>1. /\ UNCHANGED <<lease, wroteAt, now>> /\ pc[m] = "got"
        /\ pc'[m] = "put" /\ at'[m] = now /\ cur'[m].rv = cur[m].rv
        /\ asked'[m] = asked[m]
    BY <1>0, <1>4 DEF Claim, ClaimBody, TypeOK, TryLockFailed
  <2> QED
    BY <1>0, <1>c, <2>1 DEF Wakes
<1>5. CASE NotClaimable(m)
  <2>1. /\ UNCHANGED <<lease, wroteAt, now>> /\ pc[m] = "got"
        /\ pc'[m] = "sleep" /\ at'[m] = now + Interval(m)
        /\ asked'[m] = asked[m] /\ ~Claimable(m, cur[m])
    BY <1>0, <1>5 DEF NotClaimable, NotOk, TypeOK, TryLockFailed, Waiting
  <2>2. CASE cur[m].rv # lease.rv
    BY <1>0, <1>1, <1>c, <2>1, <2>2 DEF Wakes
  <2>3. CASE cur[m].rv = lease.rv
    <3>1. /\ cur[m] = lease /\ lease.holder # None /\ lease.dur \in Nat
      BY <1>0, <2>1, <2>3
         DEF SafeInv, Copies, Whole, Claimable, TypeOK, LeaseRecord
    <3>2. Due(m)
      BY <2>1, <2>3 DEF Wakes
    <3>3. /\ Seen(m, lease)'
          /\ now <= obs'[m].at + lease.dur
          /\ obs'[m].at \in Nat
          /\ obs'[m].at <= asked[m] + Round(m) + MaxLatency
              \/ obs'[m].at <= wroteAt + Round(m) + MaxLatency
      <4>1. CASE Seen(m, lease)
        <5>1. obs' = obs /\ now - obs[m].at <= lease.dur
          BY <1>0, <1>5, <2>1, <3>1, <4>1, LeaseAssumption
             DEF NotClaimable, Observe, Claimable, Expired
        <5> QED
          BY <1>0, <1>c, <2>1, <3>1, <3>2, <4>1, <5>1 DEF Due, Near, Seen
      <4>2. CASE ~Seen(m, lease)
        <5>1. obs'[m] = [holder |-> lease.holder,
                         renewTime |-> lease.renewTime, at |-> now]
          BY <1>0, <1>5, <3>1, <4>2 DEF NotClaimable, Observe, TypeOK
        <5>2. Near(m, at[m], Round(m))
          BY <3>2, <4>2 DEF Due
        <5> QED
          BY <1>0, <1>c, <2>1, <3>1, <5>1, <5>2 DEF Near, Seen
      <4> QED
        BY <4>1, <4>2
    <3>4. Due(m)'
      BY <1>0, <2>1, <3>1, <3>3 DEF Due, Near
    <3> QED
      BY <1>0, <2>1, <3>4 DEF Wakes
  <2> QED
    BY <2>2, <2>3
<1>6. CASE ClaimConflict(m)
  <2>1. /\ UNCHANGED <<lease, wroteAt, now>> /\ pc[m] = "put"
        /\ pc'[m] = "sleep" /\ at'[m] = now + Interval(m)
        /\ asked'[m] = asked[m] /\ cur[m].rv # lease.rv
    BY <1>0, <1>6
       DEF ClaimConflict, Current, NotOk, TypeOK, TryLockFailed, Waiting
  <2> QED
    BY <1>0, <1>1, <1>c, <2>1 DEF Wakes
<1>7. CASE \/ ClaimApplied(m) \/ AcquireFails(m)
           \/ Interrupt(m) \/ StartRenewal(m)
  BY <1>0, <1>7 DEF ClaimApplied, AcquireFails, Interrupt, StartRenewal, Drop,
     TypeOK, Waiting
<1> QED
  BY <1>2, <1>3, <1>4, <1>5, <1>6, <1>7 DEF AcquireStep

LEMMA WaitStep ==
    ASSUME SafeInv, WaitInv, [WNext]_<<vars, asked>>
    PROVE  WaitInv'
<1>0. /\ TypeOK /\ Clocks /\ asked \in [Manager -> Nat]
      /\ \A k \in Manager : Wakes(k)
      /\ \A k \in Manager : pc[k] = "got" => cur[k].rv <= lease.rv
      /\ now \in Nat
  BY DEF SafeInv, WaitInv, Copies, TypeOK
<1>1. CASE UNCHANGED <<vars, asked>>
  <2>1. \A k \in Manager : Wakes(k)'
    BY <1>0, <1>1, WakesKept DEF vars, lockVars
  <2> QED
    BY <1>0, <1>1, <2>1 DEF WaitInv
<1>2. CASE WNext
  <2>1. asked' \in [Manager -> Nat]
    BY <1>0, <1>2 DEF WNext
  <2>2. /\ now' \in Nat /\ now <= now'
        /\ \A k \in Manager : pc'[k] \notin Waiting => Wakes(k)'
    <3>1. now' \in {now, now + 1}
      BY <1>2 DEF WNext, Next, AcquireStep, TryAcquire, AcquireGet, Claim,
         NotClaimable, ClaimApplied, ClaimConflict, AcquireFails, Interrupt,
         StartRenewal, RenewStep, RenewStart, RenewGet, RenewStamp,
         RenewApplied, RenewAck, RenewFails, RenewReturns, ReleaseStep,
         Release, ReleaseGet, ReleaseSend, ReleaseApplied, ReleaseNothing,
         ReleaseFails, ReleaseReturns, Crash, Restart, Tick
    <3> QED
      BY <1>0, <1>2, <3>1, WakesIdle DEF WNext
  <2>3. ASSUME NEW k \in Manager, pc'[k] = pc[k], at'[k] = at[k],
               pc'[k] \in Waiting
        PROVE  asked'[k] = asked[k]
    BY <1>2, <2>3 DEF WNext, TryLockFailed, Waiting
  <2>4. ASSUME UNCHANGED <<lease, wroteAt>>, NEW k \in Manager,
               pc'[k] = pc[k], at'[k] = at[k], cur'[k] = cur[k],
               obs'[k] = obs[k]
        PROVE  Wakes(k)'
    BY <1>0, <2>2, <2>3, <2>4, WakesKept
  <2>5. ASSUME NEW body, Apply(body), now' = now, NEW k \in Manager,
               pc'[k] = pc[k], at'[k] = at[k], cur'[k] = cur[k]
        PROVE  Wakes(k)'
    <3>1. wroteAt' = now /\ lease'.rv = lease.rv + 1
      BY <2>5 DEF Apply
    <3> QED
      BY <1>0, <2>2, <2>3, <2>5, <3>1, WakesAfterWrite
  <2>6. ASSUME NEW m \in Manager, AcquireStep(m), NEW k \in Manager
        PROVE  Wakes(k)'
    <3>1. CASE k = m
      <4>1. pc'[m] \in Waiting =>
              asked'[m] = IF pc[m] = "new" \/ TryLockFailed(m) THEN now
                          ELSE asked[m]
        BY <1>2 DEF WNext
      <4> QED
        BY <1>0, <2>2, <2>6, <3>1, <4>1, WakesAcquire
    <3>2. CASE k # m
      <4>1. /\ pc'[k] = pc[k] /\ at'[k] = at[k] /\ cur'[k] = cur[k]
            /\ obs'[k] = obs[k]
        BY <1>0, <2>6, <3>2 DEF AcquireStep, TryAcquire, AcquireGet, Claim,
           NotClaimable, Observe, ClaimApplied, ClaimConflict, AcquireFails,
           Interrupt, StartRenewal, NotOk, Drop, TypeOK
      <4>2. CASE ClaimApplied(m)
        BY <2>5, <4>1, <4>2 DEF ClaimApplied
      <4>3. CASE ~ClaimApplied(m)
        <5>1. UNCHANGED <<lease, wroteAt>>
          BY <2>6, <4>3 DEF AcquireStep, TryAcquire, AcquireGet, Claim,
             NotClaimable, ClaimConflict, AcquireFails, Interrupt,
             StartRenewal
        <5> QED
          BY <2>4, <4>1, <5>1
      <4> QED
        BY <4>2, <4>3
    <3> QED
      BY <3>1, <3>2
  <2>7. ASSUME NEW m \in Manager, RenewStep(m), NEW k \in Manager
        PROVE  Wakes(k)'
    <3>1. UNCHANGED lockVars
      BY <2>7 DEF RenewStep, RenewStart, RenewGet, RenewStamp, RenewApplied,
         RenewAck, RenewFails, RenewReturns
    <3>2. CASE RenewApplied(m)
      BY <2>5, <3>1, <3>2 DEF RenewApplied, lockVars
    <3>3. CASE ~RenewApplied(m)
      <4>1. UNCHANGED <<lease, wroteAt>>
        BY <2>7, <3>3 DEF RenewStep, RenewStart, RenewGet, RenewStamp,
           RenewAck, RenewFails, RenewReturns
      <4> QED
        BY <2>4, <3>1, <4>1 DEF lockVars
    <3> QED
      BY <3>2, <3>3
  <2>8. ASSUME NEW m \in Manager, ReleaseStep(m), NEW k \in Manager
        PROVE  Wakes(k)'
    <3>1. CASE k = m
      <4>1. pc'[m] \in {"rget", "rgot", "rput", "done", "gone"}
        BY <1>0, <2>8 DEF ReleaseStep, Release, ReleaseGet, ReleaseSend,
           ReleaseApplied, ReleaseNothing, ReleaseFails, ReleaseReturns, TypeOK
      <4> QED
        BY <2>2, <3>1, <4>1 DEF Waiting
    <3>2. CASE k # m
      <4>1. /\ pc'[k] = pc[k] /\ at'[k] = at[k] /\ cur'[k] = cur[k]
            /\ obs'[k] = obs[k] /\ now' = now
        BY <1>0, <2>8, <3>2 DEF ReleaseStep, Release, ReleaseGet, ReleaseSend,
           ReleaseApplied, ReleaseNothing, ReleaseFails, ReleaseReturns, TypeOK
      <4>2. CASE ReleaseApplied(m)
        BY <2>5, <4>1, <4>2 DEF ReleaseApplied
      <4>3. CASE ~ReleaseApplied(m)
        <5>1. UNCHANGED <<lease, wroteAt>>
          BY <2>8, <4>3 DEF ReleaseStep, Release, ReleaseGet, ReleaseSend,
             ReleaseNothing, ReleaseFails
        <5> QED
          BY <2>4, <4>1, <5>1
      <4> QED
        BY <4>2, <4>3
    <3> QED
      BY <3>1, <3>2
  <2>9. ASSUME NEW v \in Volume, Crash(v), NEW k \in Manager
        PROVE  Wakes(k)'
    <3>1. UNCHANGED <<lease, wroteAt, now>>
      BY <2>9 DEF Crash
    <3>2. CASE VolumeOf(k) # v
      BY <2>4, <2>9, <3>1, <3>2 DEF Crash
    <3>3. CASE VolumeOf(k) = v /\ pc[k] = "put"
      <4>1. pc'[k] = "put" /\ at'[k] = at[k] /\ cur'[k] = cur[k]
        BY <2>9, <3>3 DEF Crash
      <4>2. asked'[k] = asked[k]
        BY <2>3, <3>3, <4>1 DEF Waiting
      <4> QED
        BY <1>0, <3>1, <3>3, <4>1, <4>2 DEF Wakes
    <3>4. CASE VolumeOf(k) = v /\ pc[k] # "put"
      BY <2>2, <2>9, <3>4 DEF Crash, Waiting
    <3> QED
      BY <3>2, <3>3, <3>4
  <2>10. ASSUME NEW v \in Volume, Restart(v), NEW k \in Manager
         PROVE  Wakes(k)'
    <3>1. CASE VolumeOf(k) = v
      BY <2>2, <2>10, <3>1 DEF Restart, Waiting
    <3>2. CASE VolumeOf(k) # v
      BY <2>4, <2>10, <3>2 DEF Restart
    <3> QED
      BY <3>1, <3>2
  <2>11. ASSUME Tick, NEW k \in Manager PROVE Wakes(k)'
    BY <2>4, <2>11 DEF Tick, lockVars
  <2>12. \A k \in Manager : Wakes(k)'
    BY <1>2, <2>6, <2>7, <2>8, <2>9, <2>10, <2>11 DEF WNext, Next
  <2> QED
    BY <2>1, <2>12 DEF WaitInv
<1> QED
  BY <1>1, <1>2

(* A blocked Acquire is never asleep longer than a round, plus, if somebody *)
(* holds the Lease, that holder's duration and another round, after the     *)
(* last write of the Lease or its own last look: a Lease whose holder died  *)
(* is reclaimed in bounded time, for every duration, latency and clock skew *)
(* (lease.go's Acquire and claimable), if identities are unique.            *)
THEOREM WaitIsBounded == PodsDistinct => (WSpec => []ReclaimBound)
<1> SUFFICES ASSUME PodsDistinct PROVE WSpec => []ReclaimBound
  OBVIOUS
<1>1. WInit => SafeInv /\ WaitInv
  <2> SUFFICES ASSUME WInit PROVE SafeInv /\ WaitInv
    OBVIOUS
  <2>1. SafeInv
    BY SafeInit DEF WInit
  <2>2. asked \in [Manager -> Nat] /\ \A m \in Manager : Wakes(m)
    BY DEF WInit, Init, Wakes
  <2> QED
    BY <2>1, <2>2 DEF WaitInv
<1>2. SafeInv /\ WaitInv /\ [WNext]_<<vars, asked>> => SafeInv' /\ WaitInv'
  <2>1. [WNext]_<<vars, asked>> => [Next]_vars
    BY DEF WNext
  <2> QED
    BY <2>1, SafeStep, WaitStep
<1>3. SafeInv /\ WaitInv => ReclaimBound
  <2> SUFFICES ASSUME SafeInv, WaitInv, NEW m \in Manager, pc[m] = "sleep"
               PROVE  LET from == IF asked[m] > wroteAt THEN asked[m]
                                  ELSE wroteAt
                      IN  now <= from + Round(m)
                            + IF lease.holder = None THEN 0
                              ELSE lease.dur + Round(m)
    BY DEF ReclaimBound
  <2>1. /\ Interval(m) \in Nat /\ MaxLatency \in Nat /\ now \in Nat
        /\ wroteAt \in Nat /\ asked[m] \in Nat /\ at[m] \in Nat
        /\ obs[m].at \in Nat
        /\ Round(m) = Interval(m) + 2 * MaxLatency
    BY WaitBasics DEF SafeInv, WaitInv, Round
  <2>2. now <= at[m] /\ Due(m)
    BY DEF SafeInv, Clocks, WaitInv, Wakes
  <2>3. lease.holder # None => lease.dur \in Nat
    BY DEF SafeInv, Copies, Whole, TypeOK, LeaseRecord
  <2> QED
    BY <2>1, <2>2, <2>3 DEF Due, Near
<1> QED
  BY <1>1, <1>2, <1>3, PTL DEF WSpec
=============================================================================
