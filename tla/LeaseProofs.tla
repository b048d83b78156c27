---------------------------- MODULE LeaseProofs ----------------------------
(***************************************************************************)
(* Lease's safety properties for every set of volumes, every number of     *)
(* managers, every duration, clock skew and API latency.  SafeInv needs    *)
(* only that identities are unique; FenceInv also that a renewal round     *)
(* fits in the duration (Timely).                                          *)
(***************************************************************************)
EXTENDS LeaseInv, TLAPS

(* What the constants of one manager are; Interval is lease.go's duration / *)
(* 3.                                                                       *)
LEMMA Basics ==
    \A m \in Manager :
      /\ VolumeOf(m) \in Volume
      /\ Duration[VolumeOf(m)] \in Nat
      /\ Skew[VolumeOf(m)] \in Int
      /\ Interval(m) \in Nat
      /\ Interval(m) >= 1
      /\ Identity(m) # None
      /\ Identity(m) \in Holder
<1> TAKE m \in Manager
<1>1. VolumeOf(m) \in Volume
  BY DEF Manager, VolumeOf
<1>2. Duration[VolumeOf(m)] \in {d \in Nat : d >= 3}
  BY <1>1, LeaseAssumption
<1>3. \A d \in Nat : d >= 3 => d \div 3 \in Nat /\ d \div 3 >= 1
  OBVIOUS
<1> QED
  BY <1>1, <1>2, <1>3, LeaseAssumption, IdentityAssumption DEF Interval, Holder

(* NewLease's identities are unique once every volume has a pod of its own. *)
LEMMA Distinct ==
    ASSUME PodsDistinct, NEW m \in Manager, NEW k \in Manager,
           Identity(m) = Identity(k)
    PROVE  m = k
BY DEF PodsDistinct, Identity, Manager

(* The records Init uses are well typed. *)
LEMMA Empty == Absent \in LeaseRecord /\ NoObs \in ObsRecord
BY DEF LeaseRecord, ObsRecord, Absent, NoObs, Holder

(* Every body sent to the server by create, takeOver, renewOnce and         *)
(* Release, every record the server makes of one, and every observation is  *)
(* well typed.                                                              *)
LEMMA Bodies ==
    ASSUME TypeOK, NEW m \in Manager, NEW l \in LeaseRecord
    PROVE  /\ Wall(m) \in Int
           /\ ClaimBody(m, l) \in LeaseRecord
           /\ RenewBody(m, l) \in LeaseRecord
           /\ ReleaseBody(l) \in LeaseRecord
           /\ [rv |-> lease.rv + 1, holder |-> l.holder,
               renewTime |-> l.renewTime, dur |-> l.dur] \in LeaseRecord
           /\ [holder |-> l.holder, renewTime |-> l.renewTime, at |-> now]
                \in ObsRecord
<1>1. Wall(m) \in Int
  BY Basics DEF Wall, TypeOK
<1>2. None \in Holder
  BY DEF Holder
<1> QED
  BY <1>1, <1>2, Basics
     DEF ClaimBody, RenewBody, ReleaseBody, TypeOK, LeaseRecord, ObsRecord

(* TypeOK holds initially. *)
LEMMA TypeInit == Init => TypeOK
BY Empty DEF Init, TypeOK

(* Every step preserves TypeOK. *)
LEMMA TypeStep == TypeOK /\ [Next]_vars => TypeOK'
<1> SUFFICES ASSUME TypeOK, [Next]_vars PROVE TypeOK'
  OBVIOUS
<1> USE Basics, Empty DEF TypeOK, lockVars, renewVars
<1>1. ASSUME NEW m \in Manager, AcquireStep(m) PROVE TypeOK'
  <2>1. CASE TryAcquire(m)
    BY <2>1 DEF TryAcquire, NotOk
  <2>2. CASE AcquireGet(m)
    BY <2>2 DEF AcquireGet
  <2>3. CASE Claim(m)
    BY <2>3, Bodies DEF Claim
  <2>4. CASE NotClaimable(m)
    <3>1. obs' \in [Manager -> ObsRecord]
      BY <2>4, Bodies DEF NotClaimable, Observe
    <3>2. /\ NotOk(m)
          /\ UNCHANGED <<now, alive, lease, wroteAt, held, healthy, renewVars>>
      BY <2>4 DEF NotClaimable
    <3> QED
      BY <3>1, <3>2 DEF NotOk
  <2>5. CASE ClaimApplied(m)
    BY <2>5, Bodies DEF ClaimApplied, Apply
  <2>6. CASE ClaimConflict(m)
    BY <2>6 DEF ClaimConflict, NotOk
  <2>7. CASE AcquireFails(m)
    BY <2>7 DEF AcquireFails, Drop
  <2>8. CASE Interrupt(m)
    BY <2>8 DEF Interrupt, Drop
  <2>9. CASE StartRenewal(m)
    BY <2>9 DEF StartRenewal
  <2> QED
    BY <1>1, <2>1, <2>2, <2>3, <2>4, <2>5, <2>6, <2>7, <2>8, <2>9
       DEF AcquireStep
<1>2. ASSUME NEW m \in Manager, RenewStep(m) PROVE TypeOK'
  <2>1. CASE RenewStart(m)
    BY <2>1 DEF RenewStart
  <2>2. CASE RenewGet(m)
    BY <2>2 DEF RenewGet
  <2>3. CASE RenewStamp(m)
    BY <2>3, Bodies DEF RenewStamp
  <2>4. CASE RenewApplied(m)
    BY <2>4, Bodies DEF RenewApplied, Apply
  <2>5. CASE RenewAck(m)
    BY <2>5 DEF RenewAck, RenewReturns
  <2>6. CASE RenewFails(m)
    BY <2>6 DEF RenewFails, RenewReturns
  <2> QED
    BY <1>2, <2>1, <2>2, <2>3, <2>4, <2>5, <2>6 DEF RenewStep
<1>3. ASSUME NEW m \in Manager, ReleaseStep(m) PROVE TypeOK'
  <2>1. CASE Release(m)
    BY <2>1 DEF Release, CancelRenewal
  <2>2. CASE ReleaseGet(m)
    BY <2>2 DEF ReleaseGet
  <2>3. CASE ReleaseSend(m)
    BY <2>3, Bodies DEF ReleaseSend
  <2>4. CASE ReleaseApplied(m)
    <3>1. lease' \in LeaseRecord
      BY <2>4, Bodies DEF ReleaseApplied, Apply
    <3>2. PICK how \in {"done", "gone"} : ReleaseReturns(m, how)
      BY <2>4 DEF ReleaseApplied
    <3> QED
      BY <2>4, <3>1, <3>2 DEF ReleaseApplied, ReleaseReturns, Apply
  <2>5. CASE ReleaseNothing(m)
    BY <2>5 DEF ReleaseNothing, ReleaseReturns
  <2>6. CASE ReleaseFails(m)
    BY <2>6 DEF ReleaseFails, ReleaseReturns
  <2> QED
    BY <1>3, <2>1, <2>2, <2>3, <2>4, <2>5, <2>6 DEF ReleaseStep
<1>4. ASSUME NEW v \in Volume, Crash(v) PROVE TypeOK'
  BY <1>4 DEF Crash
<1>5. ASSUME NEW v \in Volume, Restart(v) PROVE TypeOK'
  BY <1>5 DEF Restart
<1>6. CASE Tick
  BY <1>6 DEF Tick
<1>7. CASE UNCHANGED vars
  BY <1>7 DEF vars
<1> QED
  BY <1>1, <1>2, <1>3, <1>4, <1>5, <1>6, <1>7 DEF Next

(* Every step preserves Phases: the renewal loop runs only while the lease  *)
(* is held, plus one write it may have sent before Release cancelled it.    *)
LEMMA PhasesStep == TypeOK /\ Phases /\ [Next]_vars => Phases'
<1> SUFFICES ASSUME TypeOK, Phases, [Next]_vars PROVE Phases'
  OBVIOUS
<1> USE DEF TypeOK, Phases, lockVars, renewVars
<1>1. ASSUME NEW m \in Manager, AcquireStep(m) PROVE Phases'
  <2>1. CASE TryAcquire(m)
    BY <2>1 DEF TryAcquire, NotOk, Begins
  <2>2. CASE AcquireGet(m)
    BY <2>2 DEF AcquireGet
  <2>3. CASE Claim(m)
    BY <2>3 DEF Claim, ClaimBody, Wall
  <2>4. CASE NotClaimable(m)
    BY <2>4 DEF NotClaimable, NotOk
  <2>5. CASE ClaimApplied(m)
    BY <2>5 DEF ClaimApplied, Apply
  <2>6. CASE ClaimConflict(m)
    BY <2>6 DEF ClaimConflict, NotOk
  <2>7. CASE AcquireFails(m)
    BY <2>7 DEF AcquireFails, Drop, Attempting
  <2>8. CASE Interrupt(m)
    BY <2>8 DEF Interrupt, Drop
  <2>9. CASE StartRenewal(m)
    BY <2>9 DEF StartRenewal
  <2> QED
    BY <1>1, <2>1, <2>2, <2>3, <2>4, <2>5, <2>6, <2>7, <2>8, <2>9
       DEF AcquireStep
<1>2. ASSUME NEW m \in Manager, RenewStep(m) PROVE Phases'
  <2>1. CASE RenewStart(m)
    BY <2>1 DEF RenewStart
  <2>2. CASE RenewGet(m)
    BY <2>2 DEF RenewGet
  <2>3. CASE RenewStamp(m)
    BY <2>3 DEF RenewStamp, RenewBody, Wall
  <2>4. CASE RenewApplied(m)
    BY <2>4 DEF RenewApplied, Apply
  <2>5. CASE RenewAck(m)
    BY <2>5 DEF RenewAck, RenewReturns
  <2>6. CASE RenewFails(m)
    BY <2>6 DEF RenewFails, RenewReturns
  <2> QED
    BY <1>2, <2>1, <2>2, <2>3, <2>4, <2>5, <2>6 DEF RenewStep
<1>3. ASSUME NEW m \in Manager, ReleaseStep(m) PROVE Phases'
  <2>1. CASE Release(m)
    BY <2>1 DEF Release, CancelRenewal
  <2>2. CASE ReleaseGet(m)
    BY <2>2 DEF ReleaseGet
  <2>3. CASE ReleaseSend(m)
    BY <2>3 DEF ReleaseSend, ReleaseBody
  <2>4. CASE ReleaseApplied(m)
    BY <2>4 DEF ReleaseApplied, ReleaseReturns, Apply
  <2>5. CASE ReleaseNothing(m)
    BY <2>5 DEF ReleaseNothing, ReleaseReturns
  <2>6. CASE ReleaseFails(m)
    BY <2>6 DEF ReleaseFails, ReleaseReturns
  <2> QED
    BY <1>3, <2>1, <2>2, <2>3, <2>4, <2>5, <2>6 DEF ReleaseStep
<1>4. ASSUME NEW v \in Volume, Crash(v) PROVE Phases'
  BY <1>4 DEF Crash
<1>5. ASSUME NEW v \in Volume, Restart(v) PROVE Phases'
  BY <1>5 DEF Restart
<1>6. CASE Tick
  BY <1>6 DEF Tick
<1>7. CASE UNCHANGED vars
  BY <1>7 DEF vars
<1> QED
  BY <1>1, <1>2, <1>3, <1>4, <1>5, <1>6, <1>7 DEF Next

(* Every step preserves Clocks; Tick's urgency is what bounds the calls. *)
LEMMA ClocksStep == TypeOK /\ Phases /\ Clocks /\ [Next]_vars => Clocks'
<1> SUFFICES ASSUME TypeOK, Phases, Clocks, [Next]_vars PROVE Clocks'
  OBVIOUS
<1> USE Basics, LeaseAssumption
       DEF TypeOK, Phases, Clocks, lockVars, renewVars, NoObs
<1>1. ASSUME NEW m \in Manager, AcquireStep(m) PROVE Clocks'
  <2>1. CASE TryAcquire(m)
    BY <2>1 DEF TryAcquire, NotOk
  <2>2. CASE AcquireGet(m)
    BY <2>2 DEF AcquireGet
  <2>3. CASE Claim(m)
    BY <2>3 DEF Claim, ClaimBody, Wall
  <2>4. CASE NotClaimable(m)
    BY <2>4 DEF NotClaimable, NotOk, Observe
  <2>5. CASE ClaimApplied(m)
    BY <2>5 DEF ClaimApplied, Apply
  <2>6. CASE ClaimConflict(m)
    BY <2>6 DEF ClaimConflict, NotOk
  <2>7. CASE AcquireFails(m)
    BY <2>7 DEF AcquireFails, Drop
  <2>8. CASE Interrupt(m)
    BY <2>8 DEF Interrupt, Drop
  <2>9. CASE StartRenewal(m)
    BY <2>9 DEF StartRenewal
  <2> QED
    BY <1>1, <2>1, <2>2, <2>3, <2>4, <2>5, <2>6, <2>7, <2>8, <2>9
       DEF AcquireStep
<1>2. ASSUME NEW m \in Manager, RenewStep(m) PROVE Clocks'
  <2>1. CASE RenewStart(m)
    BY <2>1 DEF RenewStart
  <2>2. CASE RenewGet(m)
    BY <2>2 DEF RenewGet
  <2>3. CASE RenewStamp(m)
    BY <2>3 DEF RenewStamp, RenewBody, Wall
  <2>4. CASE RenewApplied(m)
    BY <2>4 DEF RenewApplied, Apply
  <2>5. CASE RenewAck(m)
    BY <2>5 DEF RenewAck, RenewReturns
  <2>6. CASE RenewFails(m)
    BY <2>6 DEF RenewFails, RenewReturns
  <2> QED
    BY <1>2, <2>1, <2>2, <2>3, <2>4, <2>5, <2>6 DEF RenewStep
<1>3. ASSUME NEW m \in Manager, ReleaseStep(m) PROVE Clocks'
  <2>1. CASE Release(m)
    BY <2>1 DEF Release, CancelRenewal
  <2>2. CASE ReleaseGet(m)
    BY <2>2 DEF ReleaseGet
  <2>3. CASE ReleaseSend(m)
    BY <2>3 DEF ReleaseSend, ReleaseBody
  <2>4. CASE ReleaseApplied(m)
    BY <2>4 DEF ReleaseApplied, ReleaseReturns, Apply
  <2>5. CASE ReleaseNothing(m)
    BY <2>5 DEF ReleaseNothing, ReleaseReturns
  <2>6. CASE ReleaseFails(m)
    BY <2>6 DEF ReleaseFails, ReleaseReturns
  <2> QED
    BY <1>3, <2>1, <2>2, <2>3, <2>4, <2>5, <2>6 DEF ReleaseStep
<1>4. ASSUME NEW v \in Volume, Crash(v) PROVE Clocks'
  BY <1>4 DEF Crash
<1>5. ASSUME NEW v \in Volume, Restart(v) PROVE Clocks'
  BY <1>5 DEF Restart, OnTime, ObsRecord
<1>6. CASE Tick
  BY <1>6 DEF Tick, OnTime, ObsRecord
<1>7. CASE UNCHANGED vars
  BY <1>7 DEF vars
<1> QED
  BY <1>1, <1>2, <1>3, <1>4, <1>5, <1>6, <1>7 DEF Next

(* Every step preserves Copies: while a read copy's resourceVersion is      *)
(* current nobody has written the Lease, so a claim based on it is still    *)
(* one the lock allows.                                                     *)
LEMMA CopiesStep ==
    TypeOK /\ Phases /\ Clocks /\ Observations /\ PodsDistinct /\ Copies
    /\ [Next]_vars
      => Copies'
<1> SUFFICES ASSUME TypeOK, Phases, Clocks, Observations, PodsDistinct,
                    Copies, [Next]_vars
             PROVE  Copies'
  OBVIOUS
<1> USE Basics, Distinct, LeaseAssumption
       DEF TypeOK, Phases, Clocks, Copies, Whole, LeaseRecord, lockVars,
           renewVars
<1>1. ASSUME NEW m \in Manager, AcquireStep(m) PROVE Copies'
  <2>1. CASE TryAcquire(m)
    BY <2>1 DEF TryAcquire, NotOk
  <2>2. CASE AcquireGet(m)
    BY <2>2 DEF AcquireGet
  <2>3. CASE Claim(m)
    BY <2>3
       DEF Claim, ClaimBody, Wall, Claimable, Expired, Seen, Observations,
           ObsRecord
  <2>4. CASE NotClaimable(m)
    BY <2>4 DEF NotClaimable, NotOk
  <2>5. CASE ClaimApplied(m)
    BY <2>5 DEF ClaimApplied, Apply, Current
  <2>6. CASE ClaimConflict(m)
    BY <2>6 DEF ClaimConflict, NotOk, Current
  <2>7. CASE AcquireFails(m)
    BY <2>7 DEF AcquireFails, Drop
  <2>8. CASE Interrupt(m)
    BY <2>8 DEF Interrupt, Drop
  <2>9. CASE StartRenewal(m)
    BY <2>9 DEF StartRenewal
  <2> QED
    BY <1>1, <2>1, <2>2, <2>3, <2>4, <2>5, <2>6, <2>7, <2>8, <2>9
       DEF AcquireStep
<1>2. ASSUME NEW m \in Manager, RenewStep(m) PROVE Copies'
  <2>1. CASE RenewStart(m)
    BY <2>1 DEF RenewStart
  <2>2. CASE RenewGet(m)
    BY <2>2 DEF RenewGet
  <2>3. CASE RenewStamp(m)
    BY <2>3 DEF RenewStamp, RenewBody, Wall
  <2>4. CASE RenewApplied(m)
    BY <2>4 DEF RenewApplied, Apply, Current
  <2>5. CASE RenewAck(m)
    BY <2>5 DEF RenewAck, RenewReturns
  <2>6. CASE RenewFails(m)
    BY <2>6 DEF RenewFails, RenewReturns
  <2> QED
    BY <1>2, <2>1, <2>2, <2>3, <2>4, <2>5, <2>6 DEF RenewStep
<1>3. ASSUME NEW m \in Manager, ReleaseStep(m) PROVE Copies'
  <2>1. CASE Release(m)
    BY <2>1 DEF Release, CancelRenewal
  <2>2. CASE ReleaseGet(m)
    BY <2>2 DEF ReleaseGet
  <2>3. CASE ReleaseSend(m)
    BY <2>3 DEF ReleaseSend, ReleaseBody
  <2>4. CASE ReleaseApplied(m)
    BY <2>4 DEF ReleaseApplied, ReleaseReturns, Apply, Current
  <2>5. CASE ReleaseNothing(m)
    BY <2>5 DEF ReleaseNothing, ReleaseReturns, Current
  <2>6. CASE ReleaseFails(m)
    BY <2>6 DEF ReleaseFails, ReleaseReturns
  <2> QED
    BY <1>3, <2>1, <2>2, <2>3, <2>4, <2>5, <2>6 DEF ReleaseStep
<1>4. ASSUME NEW v \in Volume, Crash(v) PROVE Copies'
  BY <1>4 DEF Crash
<1>5. ASSUME NEW v \in Volume, Restart(v) PROVE Copies'
  BY <1>5 DEF Restart
<1>6. CASE Tick
  BY <1>6 DEF Tick
<1>7. CASE UNCHANGED vars
  BY <1>7 DEF vars
<1> QED
  BY <1>1, <1>2, <1>3, <1>4, <1>5, <1>6, <1>7 DEF Next

(* Every step preserves Stamps: each renewal stamps a later renew time than *)
(* any its manager wrote before, so a renewed Lease never looks like one    *)
(* seen earlier.                                                            *)
LEMMA StampsStep ==
    TypeOK /\ Phases /\ Clocks /\ Copies /\ Observations /\ PodsDistinct
    /\ Stamps /\ [Next]_vars
      => Stamps'
<1> SUFFICES ASSUME TypeOK, Phases, Clocks, Copies, Observations,
                    PodsDistinct, Stamps, [Next]_vars
             PROVE  Stamps'
  OBVIOUS
<1> USE Basics, Distinct, LeaseAssumption
       DEF TypeOK, Phases, Clocks, Copies, Whole, Stamps, Older, Wall,
           Observations, LeaseRecord, ObsRecord, NoObs, Absent, lockVars,
           renewVars
<1>1. ASSUME NEW m \in Manager, AcquireStep(m) PROVE Stamps'
  <2>1. CASE TryAcquire(m)
    <3>1. /\ pc[m] \in {"new", "sleep"} /\ rpc[m] = "off"
          /\ pc'[m] \in {"get", "sleep", "gone"}
          /\ \A k \in Manager \ {m} : /\ pc'[k] = pc[k]
                                     /\ at'[k] = at[k]
                                     /\ cur'[k] = cur[k]
          /\ UNCHANGED <<now, lease, obs, rpc, rat>>
      BY <2>1 DEF TryAcquire, NotOk, Begins
    <3>2. ASSUME NEW k \in Manager, NEW c, Older(k, c) PROVE Older(k, c)'
      <4>1. CASE k = m
        BY <3>1, <3>2, <4>1
      <4>2. CASE k # m
        BY <3>1, <3>2, <4>2
      <4> QED
        BY <4>1, <4>2
    <3> HIDE DEF Older, TypeOK, Clocks, Copies, Observations
    <3> QED
      BY <3>1, <3>2
  <2>2. CASE AcquireGet(m)
    BY <2>2 DEF AcquireGet
  <2>3. CASE Claim(m)
    BY <2>3 DEF Claim, ClaimBody, Wall
  <2>4. CASE NotClaimable(m)
    BY <2>4 DEF NotClaimable, NotOk, Observe, Claimable, Seen
  <2>5. CASE ClaimApplied(m)
    BY <2>5 DEF ClaimApplied, Apply, Current
  <2>6. CASE ClaimConflict(m)
    BY <2>6 DEF ClaimConflict, NotOk
  <2>7. CASE AcquireFails(m)
    BY <2>7 DEF AcquireFails, Drop, Attempting
  <2>8. CASE Interrupt(m)
    BY <2>8 DEF Interrupt, Drop
  <2>9. CASE StartRenewal(m)
    BY <2>9 DEF StartRenewal
  <2> QED
    BY <1>1, <2>1, <2>2, <2>3, <2>4, <2>5, <2>6, <2>7, <2>8, <2>9
       DEF AcquireStep
<1>2. ASSUME NEW m \in Manager, RenewStep(m) PROVE Stamps'
  <2>1. CASE RenewStart(m)
    BY <2>1 DEF RenewStart
  <2>2. CASE RenewGet(m)
    BY <2>2 DEF RenewGet
  <2>3. CASE RenewStamp(m)
    BY <2>3 DEF RenewStamp, RenewBody, Wall
  <2>4. CASE RenewApplied(m)
    BY <2>4 DEF RenewApplied, Apply, Current
  <2>5. CASE RenewAck(m)
    BY <2>5 DEF RenewAck, RenewReturns
  <2>6. CASE RenewFails(m)
    BY <2>6 DEF RenewFails, RenewReturns
  <2> QED
    BY <1>2, <2>1, <2>2, <2>3, <2>4, <2>5, <2>6 DEF RenewStep
<1>3. ASSUME NEW m \in Manager, ReleaseStep(m) PROVE Stamps'
  <2>1. CASE Release(m)
    BY <2>1 DEF Release, CancelRenewal
  <2>2. CASE ReleaseGet(m)
    BY <2>2 DEF ReleaseGet
  <2>3. CASE ReleaseSend(m)
    BY <2>3 DEF ReleaseSend, ReleaseBody
  <2>4. CASE ReleaseApplied(m)
    BY <2>4 DEF ReleaseApplied, ReleaseReturns, Apply, Current
  <2>5. CASE ReleaseNothing(m)
    BY <2>5 DEF ReleaseNothing, ReleaseReturns
  <2>6. CASE ReleaseFails(m)
    BY <2>6 DEF ReleaseFails, ReleaseReturns
  <2> QED
    BY <1>3, <2>1, <2>2, <2>3, <2>4, <2>5, <2>6 DEF ReleaseStep
<1>4. ASSUME NEW v \in Volume, Crash(v) PROVE Stamps'
  BY <1>4 DEF Crash
<1>5. ASSUME NEW v \in Volume, Restart(v) PROVE Stamps'
  BY <1>5 DEF Restart
<1>6. CASE Tick
  BY <1>6 DEF Tick
<1>7. CASE UNCHANGED vars
  BY <1>7 DEF vars
<1> QED
  BY <1>1, <1>2, <1>3, <1>4, <1>5, <1>6, <1>7 DEF Next

(* Every step preserves Observations: claimable's clock for the pair now on *)
(* the Lease never started before the write that put it there.              *)
LEMMA ObservationsStep ==
    TypeOK /\ Phases /\ Clocks /\ Copies /\ Stamps /\ PodsDistinct /\
    Observations /\ [Next]_vars
      => Observations'
<1> SUFFICES ASSUME TypeOK, Phases, Clocks, Copies, Stamps, PodsDistinct,
                    Observations, [Next]_vars
             PROVE  Observations'
  OBVIOUS
<1> USE Basics, Distinct, LeaseAssumption
       DEF TypeOK, Phases, Clocks, Copies, Whole, Stamps, Older, Wall,
           Observations, Seen, LeaseRecord, ObsRecord, NoObs, lockVars,
           renewVars
<1>1. ASSUME NEW m \in Manager, AcquireStep(m) PROVE Observations'
  <2>1. CASE TryAcquire(m)
    BY <2>1 DEF TryAcquire, NotOk
  <2>2. CASE AcquireGet(m)
    BY <2>2 DEF AcquireGet
  <2>3. CASE Claim(m)
    BY <2>3 DEF Claim, ClaimBody, Wall
  <2>4. CASE NotClaimable(m)
    BY <2>4 DEF NotClaimable, NotOk, Observe, Claimable
  <2>5. CASE ClaimApplied(m)
    BY <2>5 DEF ClaimApplied, Apply, Current
  <2>6. CASE ClaimConflict(m)
    BY <2>6 DEF ClaimConflict, NotOk
  <2>7. CASE AcquireFails(m)
    BY <2>7 DEF AcquireFails, Drop
  <2>8. CASE Interrupt(m)
    BY <2>8 DEF Interrupt, Drop
  <2>9. CASE StartRenewal(m)
    BY <2>9 DEF StartRenewal
  <2> QED
    BY <1>1, <2>1, <2>2, <2>3, <2>4, <2>5, <2>6, <2>7, <2>8, <2>9
       DEF AcquireStep
<1>2. ASSUME NEW m \in Manager, RenewStep(m) PROVE Observations'
  <2>1. CASE RenewStart(m)
    BY <2>1 DEF RenewStart
  <2>2. CASE RenewGet(m)
    BY <2>2 DEF RenewGet
  <2>3. CASE RenewStamp(m)
    BY <2>3 DEF RenewStamp, RenewBody, Wall
  <2>4. CASE RenewApplied(m)
    BY <2>4 DEF RenewApplied, Apply, Current
  <2>5. CASE RenewAck(m)
    BY <2>5 DEF RenewAck, RenewReturns
  <2>6. CASE RenewFails(m)
    BY <2>6 DEF RenewFails, RenewReturns
  <2> QED
    BY <1>2, <2>1, <2>2, <2>3, <2>4, <2>5, <2>6 DEF RenewStep
<1>3. ASSUME NEW m \in Manager, ReleaseStep(m) PROVE Observations'
  <2>1. CASE Release(m)
    BY <2>1 DEF Release, CancelRenewal
  <2>2. CASE ReleaseGet(m)
    BY <2>2 DEF ReleaseGet
  <2>3. CASE ReleaseSend(m)
    BY <2>3 DEF ReleaseSend, ReleaseBody
  <2>4. CASE ReleaseApplied(m)
    BY <2>4 DEF ReleaseApplied, ReleaseReturns, Apply, Current
  <2>5. CASE ReleaseNothing(m)
    BY <2>5 DEF ReleaseNothing, ReleaseReturns
  <2>6. CASE ReleaseFails(m)
    BY <2>6 DEF ReleaseFails, ReleaseReturns
  <2> QED
    BY <1>3, <2>1, <2>2, <2>3, <2>4, <2>5, <2>6 DEF ReleaseStep
<1>4. ASSUME NEW v \in Volume, Crash(v) PROVE Observations'
  BY <1>4 DEF Crash
<1>5. ASSUME NEW v \in Volume, Restart(v) PROVE Observations'
  BY <1>5 DEF Restart
<1>6. CASE Tick
  BY <1>6 DEF Tick
<1>7. CASE UNCHANGED vars
  BY <1>7 DEF vars
<1> QED
  BY <1>1, <1>2, <1>3, <1>4, <1>5, <1>6, <1>7 DEF Next

(* Every step preserves FenceInv: the write that made a manager healthy is  *)
(* too recent for anyone to have waited out its duration.                   *)
LEMMA FenceStep ==
    SafeInv /\ PodsDistinct /\ Timely /\ FenceInv /\ [Next]_vars
      => FenceInv'
<1> SUFFICES ASSUME SafeInv, PodsDistinct, Timely, FenceInv, [Next]_vars
             PROVE  FenceInv'
  OBVIOUS
<1> USE Basics, Distinct, LeaseAssumption
       DEF SafeInv, TypeOK, Phases, Clocks, Copies, Whole, LeaseRecord,
           Timely, FenceInv, Recent, Healthy, lockVars, renewVars
<1>1. ASSUME NEW m \in Manager, AcquireStep(m) PROVE FenceInv'
  <2>1. CASE TryAcquire(m)
    BY <2>1 DEF TryAcquire, NotOk, Begins
  <2>2. CASE AcquireGet(m)
    BY <2>2 DEF AcquireGet
  <2>3. CASE Claim(m)
    BY <2>3 DEF Claim, ClaimBody, Wall
  <2>4. CASE NotClaimable(m)
    BY <2>4 DEF NotClaimable, NotOk
  <2>5. CASE ClaimApplied(m)
    BY <2>5 DEF ClaimApplied, Apply, Current
  <2>6. CASE ClaimConflict(m)
    BY <2>6 DEF ClaimConflict, NotOk
  <2>7. CASE AcquireFails(m)
    BY <2>7 DEF AcquireFails, Drop, Attempting
  <2>8. CASE Interrupt(m)
    BY <2>8 DEF Interrupt, Drop
  <2>9. CASE StartRenewal(m)
    BY <2>9 DEF StartRenewal
  <2> QED
    BY <1>1, <2>1, <2>2, <2>3, <2>4, <2>5, <2>6, <2>7, <2>8, <2>9
       DEF AcquireStep
<1>2. ASSUME NEW m \in Manager, RenewStep(m) PROVE FenceInv'
  <2>1. CASE RenewStart(m)
    BY <2>1 DEF RenewStart
  <2>2. CASE RenewGet(m)
    BY <2>2 DEF RenewGet
  <2>3. CASE RenewStamp(m)
    BY <2>3 DEF RenewStamp, RenewBody, Wall
  <2>4. CASE RenewApplied(m)
    BY <2>4 DEF RenewApplied, Apply, Current
  <2>5. CASE RenewAck(m)
    BY <2>5 DEF RenewAck, RenewReturns
  <2>6. CASE RenewFails(m)
    BY <2>6 DEF RenewFails, RenewReturns
  <2> QED
    BY <1>2, <2>1, <2>2, <2>3, <2>4, <2>5, <2>6 DEF RenewStep
<1>3. ASSUME NEW m \in Manager, ReleaseStep(m) PROVE FenceInv'
  <2>1. CASE Release(m)
    BY <2>1 DEF Release, CancelRenewal
  <2>2. CASE ReleaseGet(m)
    BY <2>2 DEF ReleaseGet
  <2>3. CASE ReleaseSend(m)
    BY <2>3 DEF ReleaseSend, ReleaseBody
  <2>4. CASE ReleaseApplied(m)
    BY <2>4 DEF ReleaseApplied, ReleaseReturns, Apply, Current
  <2>5. CASE ReleaseNothing(m)
    BY <2>5 DEF ReleaseNothing, ReleaseReturns
  <2>6. CASE ReleaseFails(m)
    BY <2>6 DEF ReleaseFails, ReleaseReturns
  <2> QED
    BY <1>3, <2>1, <2>2, <2>3, <2>4, <2>5, <2>6 DEF ReleaseStep
<1>4. ASSUME NEW v \in Volume, Crash(v) PROVE FenceInv'
  BY <1>4 DEF Crash
<1>5. ASSUME NEW v \in Volume, Restart(v) PROVE FenceInv'
  BY <1>5 DEF Restart
<1>6. CASE Tick
  BY <1>6 DEF Tick
<1>7. CASE UNCHANGED vars
  BY <1>7 DEF vars
<1> QED
  BY <1>1, <1>2, <1>3, <1>4, <1>5, <1>6, <1>7 DEF Next

(* SafeInv holds initially. *)
LEMMA SafeInit == Init => SafeInv
<1> SUFFICES ASSUME Init PROVE SafeInv
  OBVIOUS
<1>1. TypeOK
  BY TypeInit
<1> QED
  BY <1>1, Basics, LeaseAssumption
     DEF Init, SafeInv, Phases, Clocks, Copies, Whole, Stamps, Older, Wall,
         Observations, Absent, NoObs

(* Every step preserves SafeInv. *)
LEMMA SafeStep == PodsDistinct /\ SafeInv /\ [Next]_vars => SafeInv'
BY TypeStep, PhasesStep, ClocksStep, CopiesStep, StampsStep, ObservationsStep
   DEF SafeInv

(* Type correctness of the Lease protocol. *)
THEOREM TypeCorrect == Spec => []TypeOK
BY TypeInit, TypeStep, PTL DEF Spec

(* The invariant that needs no bound on latency holds always. *)
THEOREM SafeCorrect == PodsDistinct => (Spec => []SafeInv)
<1> SUFFICES ASSUME PodsDistinct PROVE Spec => []SafeInv
  OBVIOUS
<1>1. SafeInv /\ [Next]_vars => SafeInv'
  BY SafeStep
<1> QED
  BY SafeInit, <1>1, PTL DEF Spec

(* FenceInv holds initially: nobody is healthy. *)
LEMMA FenceInit == Init => FenceInv
BY Basics DEF Init, FenceInv, Recent, Healthy

(* FenceInv contains FenceHolds. *)
LEMMA FenceImplies == FenceInv => FenceHolds
BY DEF FenceInv, Recent, FenceHolds

(* Two managers that are both on the Lease are one manager. *)
LEMMA FenceExcludes == PodsDistinct /\ FenceInv => MutualExclusion
BY Distinct DEF FenceInv, Recent, MutualExclusion

(* Committer.Commit's fence is sound: with unique identities and an API     *)
(* server that answers within the time renewal leaves (Timely), a manager   *)
(* whose Healthy() is true is the holder on the API server.                 *)
THEOREM FenceCorrect == PodsDistinct /\ Timely => (Spec => []FenceHolds)
<1> SUFFICES ASSUME PodsDistinct, Timely PROVE Spec => []FenceHolds
  OBVIOUS
<1>1. SafeInv /\ FenceInv /\ [Next]_vars => SafeInv' /\ FenceInv'
  BY SafeStep, FenceStep
<1> QED
  BY SafeInit, FenceInit, <1>1, FenceImplies, PTL DEF Spec

(* Under the same assumptions no two handles in the cluster pass the fence  *)
(* at the same time.                                                        *)
THEOREM ExclusionCorrect ==
    PodsDistinct /\ Timely => (Spec => []MutualExclusion)
<1> SUFFICES ASSUME PodsDistinct, Timely PROVE Spec => []MutualExclusion
  OBVIOUS
<1>1. SafeInv /\ FenceInv /\ [Next]_vars => SafeInv' /\ FenceInv'
  BY SafeStep, FenceStep
<1>2. FenceInv => MutualExclusion
  BY FenceExcludes
<1> QED
  BY SafeInit, FenceInit, <1>1, <1>2, PTL DEF Spec

(* The initial Lease is the initial lock. *)
LEMMA LockInit == Init => Lock!LInit
BY DEF Init, Lock!LInit, Absent

(* A step of the protocol is a step of the lock or changes nothing the lock *)
(* shows: create and takeOver take it, renewOnce extends it, Release gives  *)
(* it up, and the clock passes.                                             *)
LEMMA LockStep ==
    PodsDistinct /\ SafeInv /\ [Next]_vars
      => [Lock!LNext]_(Lock!lvars)
<1> SUFFICES ASSUME PodsDistinct, SafeInv, [Next]_vars
             PROVE  [Lock!LNext]_(Lock!lvars)
  OBVIOUS
<1> USE Basics DEF SafeInv, lockVars, renewVars, Lock!lvars
<1>1. ASSUME NEW m \in Manager, AcquireStep(m) PROVE [Lock!LNext]_(Lock!lvars)
  <2>1. CASE TryAcquire(m)
    BY <2>1 DEF TryAcquire, NotOk
  <2>2. CASE AcquireGet(m)
    BY <2>2 DEF AcquireGet
  <2>3. CASE Claim(m)
    BY <2>3 DEF Claim, ClaimBody, Wall
  <2>4. CASE NotClaimable(m)
    BY <2>4 DEF NotClaimable, NotOk
  <2>5. CASE ClaimApplied(m)
    <3>1. Lock!Take(Identity(m))
      BY <2>5, LeaseAssumption
         DEF ClaimApplied, Apply, Current, Lock!Take, TypeOK, Copies,
             Clocks, Whole, LeaseRecord
    <3> QED
      BY <3>1 DEF Lock!LNext
  <2>6. CASE ClaimConflict(m)
    BY <2>6 DEF ClaimConflict, NotOk
  <2>7. CASE AcquireFails(m)
    BY <2>7 DEF AcquireFails, Drop
  <2>8. CASE Interrupt(m)
    BY <2>8 DEF Interrupt, Drop
  <2>9. CASE StartRenewal(m)
    BY <2>9 DEF StartRenewal
  <2> QED
    BY <1>1, <2>1, <2>2, <2>3, <2>4, <2>5, <2>6, <2>7, <2>8, <2>9
       DEF AcquireStep
<1>2. ASSUME NEW m \in Manager, RenewStep(m) PROVE [Lock!LNext]_(Lock!lvars)
  <2>1. CASE RenewStart(m)
    BY <2>1 DEF RenewStart
  <2>2. CASE RenewGet(m)
    BY <2>2 DEF RenewGet
  <2>3. CASE RenewStamp(m)
    BY <2>3 DEF RenewStamp, RenewBody, Wall
  <2>4. CASE RenewApplied(m)
    <3>1. Lock!Extend(Identity(m))
      BY <2>4, LeaseAssumption
         DEF RenewApplied, Apply, Current, Lock!Extend, TypeOK, Copies,
             Clocks, Whole, LeaseRecord
    <3> QED
      BY <3>1 DEF Lock!LNext
  <2>5. CASE RenewAck(m)
    BY <2>5 DEF RenewAck, RenewReturns
  <2>6. CASE RenewFails(m)
    BY <2>6 DEF RenewFails, RenewReturns
  <2> QED
    BY <1>2, <2>1, <2>2, <2>3, <2>4, <2>5, <2>6 DEF RenewStep
<1>3. ASSUME NEW m \in Manager, ReleaseStep(m) PROVE [Lock!LNext]_(Lock!lvars)
  <2>1. CASE Release(m)
    BY <2>1 DEF Release, CancelRenewal
  <2>2. CASE ReleaseGet(m)
    BY <2>2 DEF ReleaseGet
  <2>3. CASE ReleaseSend(m)
    BY <2>3 DEF ReleaseSend, ReleaseBody
  <2>4. CASE ReleaseApplied(m)
    <3>1. Lock!GiveUp(Identity(m))
      BY <2>4, LeaseAssumption
         DEF ReleaseApplied, Apply, Current, ReleaseReturns, Lock!GiveUp,
             TypeOK, Copies, Clocks, Whole, LeaseRecord
    <3> QED
      BY <3>1 DEF Lock!LNext
  <2>5. CASE ReleaseNothing(m)
    BY <2>5 DEF ReleaseNothing, ReleaseReturns
  <2>6. CASE ReleaseFails(m)
    BY <2>6 DEF ReleaseFails, ReleaseReturns
  <2> QED
    BY <1>3, <2>1, <2>2, <2>3, <2>4, <2>5, <2>6 DEF ReleaseStep
<1>4. ASSUME NEW v \in Volume, Crash(v) PROVE [Lock!LNext]_(Lock!lvars)
  BY <1>4 DEF Crash
<1>5. ASSUME NEW v \in Volume, Restart(v) PROVE [Lock!LNext]_(Lock!lvars)
  BY <1>5 DEF Restart, Lock!LNext, Lock!Pass
<1>6. CASE Tick
  BY <1>6 DEF Tick, Lock!LNext, Lock!Pass
<1>7. CASE UNCHANGED vars
  BY <1>7 DEF vars
<1> QED
  BY <1>1, <1>2, <1>3, <1>4, <1>5, <1>6, <1>7 DEF Next

(* With unique identities the Lease protocol implements the expiring lock,  *)
(* however slow the API server and however skewed the clocks: claimable,    *)
(* the local observation clock and the resourceVersion check never take the *)
(* Lease from a holder that wrote it less than its duration ago.            *)
THEOREM RefinesLock == PodsDistinct => (Spec => ImplementsExpiringLock)
<1> SUFFICES ASSUME PodsDistinct PROVE Spec => ImplementsExpiringLock
  OBVIOUS
<1>1. SafeInv /\ [Next]_vars => SafeInv'
  BY SafeStep
<1>2. SafeInv /\ [Next]_vars => [Lock!LNext]_(Lock!lvars)
  BY LockStep
<1> QED
  BY SafeInit, LockInit, <1>1, <1>2, PTL
     DEF Spec, ImplementsExpiringLock, Lock!LSpec
=============================================================================
