------------------------------- MODULE Lease -------------------------------
(***************************************************************************)
(* The lock behind flock(2): every open handle that asks for the lock      *)
(* mints one LeaseManager (pkg/objectfs/lease.go) on the volume's single   *)
(* coordination.k8s.io Lease and takes, renews and releases it.            *)
(*                                                                         *)
(* A manager is the n-th one its volume hands out (Volume.NewLease).  All  *)
(* managers of one volume live in one FUSE server; volumes are served by   *)
(* processes on different nodes, whose wall clocks differ by Skew.  Each   *)
(* API call is a request, an answer the server computes at one instant,    *)
(* and a response; requests may fail before or after they take effect.     *)
(***************************************************************************)
EXTENDS Integers

CONSTANTS
    Volume,      \* the mounted volumes that share the Lease
    PodOf,       \* [Volume -> Pod]: the UID of the pod a volume belongs to
    MaxLeases,   \* bound: managers a volume mints
    Blocking,    \* the managers that lock with Setlkw; the others use Setlk
    Duration,    \* [Volume -> Nat]: Cfg.LeaseDuration
    Skew,        \* [Volume -> Int]: wall clock of the node minus true time
    MaxLatency,  \* longest time an API call is outstanding
    MaxTime,     \* bound: the clock stops here
    Restarts,    \* bound: the volumes that are published again after a crash
    None         \* an absent field of the Lease

ASSUME LeaseAssumption ==
    /\ MaxLeases \in Nat
    /\ Duration \in [Volume -> {d \in Nat : d >= 3}]
    /\ Skew \in [Volume -> Int]
    /\ MaxLatency \in Nat
    /\ MaxTime \in Nat
    /\ None \notin Int

Manager == Volume \X (1..MaxLeases)

VolumeOf(m) == m[1]

(* NewLease: podUID plus the volume's own sequence number. *)
Identity(m) == <<PodOf[m[1]], m[2]>>

ASSUME IdentityAssumption == \A m \in Manager : Identity(m) # None

(* A fault: the loops run at half the duration. *)
IntervalHalf(m) == Duration[VolumeOf(m)] \div 2

(* Renewal and polling both run at a third of the duration. *)
Interval(m) == Duration[VolumeOf(m)] \div 3

VARIABLES
    now,      \* true time
    alive,    \* alive[v]: the process that serves volume v is running
    lease,    \* the Lease object at the API server; rv = 0 before it exists
    wroteAt,  \* true time of the last write the server applied
    pc,       \* pc[m]: where m's TryAcquire, Acquire or Release stands
    at,       \* at[m]: start of m's current API call, or end of its sleep
    cur,      \* cur[m]: the Lease m read, or the body of its pending write
    obs,      \* obs[m]: m.obs, the last foreign pair seen and when
    held,     \* held[m]: m.held
    healthy,  \* healthy[m]: m.healthy
    rpc,      \* rpc[m]: where m's renewLoop stands
    rat,      \* rat[m]: start of the loop's API call, or end of its sleep
    rcur      \* rcur[m]: the Lease the loop read, or the body of its write

lockVars  == <<pc, at, cur, obs>>
renewVars == <<rpc, rat, rcur>>
vars == <<now, alive, lease, wroteAt, lockVars, held, healthy, renewVars>>

Absent == [rv |-> 0, holder |-> None, renewTime |-> None, dur |-> None]

NoObs == [holder |-> None, renewTime |-> None, at |-> 0]

(* The wall clock m stamps the Lease with; measured intervals use now. *)
Wall(m) == now + Skew[VolumeOf(m)]

(* Healthy() *)
Healthy(m) == held[m] /\ healthy[m]

Init ==
    /\ now = 0
    /\ alive = [v \in Volume |-> TRUE]
    /\ lease = Absent
    /\ wroteAt = 0
    /\ pc = [m \in Manager |-> "new"]
    /\ at = [m \in Manager |-> 0]
    /\ cur = [m \in Manager |-> Absent]
    /\ obs = [m \in Manager |-> NoObs]
    /\ held = [m \in Manager |-> FALSE]
    /\ healthy = [m \in Manager |-> FALSE]
    /\ rpc = [m \in Manager |-> "off"]
    /\ rat = [m \in Manager |-> 0]
    /\ rcur = [m \in Manager |-> Absent]

----------------------------------------------------------------------------
(* The API server: a write carries the resourceVersion it was based on     *)
(* (none for a create) and is refused unless that is still current.        *)

Current(body) == body.rv = lease.rv

Apply(body) ==
    /\ lease' = [rv |-> lease.rv + 1, holder |-> body.holder,
                  renewTime |-> body.renewTime, dur |-> body.dur]
    /\ wroteAt' = now

----------------------------------------------------------------------------
(* TryAcquire, and the Acquire loop around it *)

(* m.local is held from TryLock until TryAcquire returns. *)
Attempting == {"get", "got", "put", "won"}

LocalFree(v) ==
    \A k \in Manager : VolumeOf(k) = v => pc[k] \notin Attempting

(* holderSeq hands out the sequence numbers in order. *)
Minted(m) ==
    \A k \in Manager : k[1] = m[1] /\ k[2] < m[2] => pc[k] # "new"

Begins(m) ==
    \/ pc[m] = "new" /\ Minted(m)
    \/ pc[m] = "sleep" /\ now >= at[m]

(* TryAcquire returned (false, nil): Acquire sleeps, flock(LOCK_NB) is told *)
(* EWOULDBLOCK and its manager is dropped.                                  *)
NotOk(m) ==
    LET again == m \in Blocking /\ alive[VolumeOf(m)] IN
    /\ pc' = [pc EXCEPT ![m] = IF again THEN "sleep" ELSE "gone"]
    /\ at' = [at EXCEPT ![m] = IF again THEN now + Interval(m) ELSE 0]
    /\ cur' = [cur EXCEPT ![m] = Absent]

(* TryAcquire returned an error, which Acquire passes on. *)
Drop(m) ==
    /\ pc' = [pc EXCEPT ![m] = "gone"]
    /\ at' = [at EXCEPT ![m] = 0]
    /\ cur' = [cur EXCEPT ![m] = Absent]
    /\ obs' = [obs EXCEPT ![m] = NoObs]

(* TryLock decides whether the attempt reaches the API server at all. *)
TryAcquire(m) ==
    /\ Begins(m)
    /\ IF LocalFree(VolumeOf(m))
       THEN /\ pc' = [pc EXCEPT ![m] = "get"]
            /\ at' = [at EXCEPT ![m] = now]
            /\ UNCHANGED cur
       ELSE NotOk(m)
    /\ UNCHANGED <<now, alive, lease, wroteAt, obs, held, healthy, renewVars>>

AcquireGet(m) ==
    /\ pc[m] = "get"
    /\ pc' = [pc EXCEPT ![m] = "got"]
    /\ cur' = [cur EXCEPT ![m] = lease]
    /\ UNCHANGED <<now, alive, lease, wroteAt, at, obs, held, healthy,
                   renewVars>>

(* claimable's observation matches the pair on the Lease l. *)
Seen(m, l) ==
    /\ obs[m].holder = l.holder
    /\ obs[m].renewTime = l.renewTime

(* A fault: expiry is judged by the holder's clock. *)
ExpiredByRenewTime(m, l) ==
    l.renewTime # None /\ Wall(m) - l.renewTime > l.dur

Expired(m, l) ==
    LET dur == IF l.dur = None THEN Duration[VolumeOf(m)] ELSE l.dur IN
    Seen(m, l) /\ now - obs[m].at > dur

Claimable(m, l) ==
    \/ l.holder = None
    \/ l.holder = Identity(m)
    \/ l.renewTime = None
    \/ Expired(m, l)

(* A fault: the write does not carry the version that was read. *)
ClaimBodyBlind(m, l) ==
    [rv |-> None, holder |-> Identity(m), renewTime |-> Wall(m),
     dur |-> Duration[VolumeOf(m)]]

(* create and takeOver: the body of the write that makes m the holder. *)
ClaimBody(m, l) ==
    [rv |-> l.rv, holder |-> Identity(m), renewTime |-> Wall(m),
     dur |-> Duration[VolumeOf(m)]]

Claim(m) ==
    /\ pc[m] = "got"
    /\ Claimable(m, cur[m])
    /\ pc' = [pc EXCEPT ![m] = "put"]
    /\ at' = [at EXCEPT ![m] = now]
    /\ cur' = [cur EXCEPT ![m] = ClaimBody(m, cur[m])]
    /\ UNCHANGED <<now, alive, lease, wroteAt, obs, held, healthy, renewVars>>

(* A fault: every sighting starts the clock again. *)
ObserveAlways(m, l) ==
    obs' = [obs EXCEPT ![m] = [holder |-> l.holder,
                               renewTime |-> l.renewTime, at |-> now]]

(* The first sighting of a pair starts our clock; later ones leave it. *)
Observe(m, l) ==
    obs' = IF Seen(m, l) THEN obs
           ELSE [obs EXCEPT ![m] = [holder |-> l.holder,
                                    renewTime |-> l.renewTime, at |-> now]]

NotClaimable(m) ==
    /\ pc[m] = "got"
    /\ ~Claimable(m, cur[m])
    /\ Observe(m, cur[m])
    /\ NotOk(m)
    /\ UNCHANGED <<now, alive, lease, wroteAt, held, healthy, renewVars>>

ClaimApplied(m) ==
    /\ pc[m] = "put"
    /\ Current(cur[m])
    /\ Apply(cur[m])
    /\ pc' = [pc EXCEPT ![m] = "won"]
    /\ UNCHANGED <<now, alive, at, cur, obs, held, healthy, renewVars>>

(* Conflict or AlreadyExists: lost the race. *)
ClaimConflict(m) ==
    /\ pc[m] = "put"
    /\ ~Current(cur[m])
    /\ NotOk(m)
    /\ UNCHANGED <<now, alive, lease, wroteAt, obs, held, healthy, renewVars>>

(* An API error, a cancelled ctx or a lost response, at any point. *)
AcquireFails(m) ==
    /\ pc[m] \in Attempting
    /\ Drop(m)
    /\ UNCHANGED <<now, alive, lease, wroteAt, held, healthy, renewVars>>

(* The signal that interrupts a sleeping Acquire. *)
Interrupt(m) ==
    /\ pc[m] = "sleep"
    /\ Drop(m)
    /\ UNCHANGED <<now, alive, lease, wroteAt, held, healthy, renewVars>>

StartRenewal(m) ==
    /\ pc[m] = "won"
    /\ alive[VolumeOf(m)]
    /\ pc' = [pc EXCEPT ![m] = "held"]
    /\ at' = [at EXCEPT ![m] = 0]
    /\ cur' = [cur EXCEPT ![m] = Absent]
    /\ obs' = [obs EXCEPT ![m] = NoObs]
    /\ held' = [held EXCEPT ![m] = TRUE]
    /\ healthy' = [healthy EXCEPT ![m] = TRUE]
    /\ rpc' = [rpc EXCEPT ![m] = "sleep"]
    /\ rat' = [rat EXCEPT ![m] = now + Interval(m)]
    /\ UNCHANGED <<now, alive, lease, wroteAt, rcur>>

----------------------------------------------------------------------------
(* renewLoop and renewOnce *)

RenewStart(m) ==
    /\ rpc[m] = "sleep"
    /\ now >= rat[m]
    /\ rpc' = [rpc EXCEPT ![m] = "get"]
    /\ rat' = [rat EXCEPT ![m] = now]
    /\ UNCHANGED <<now, alive, lease, wroteAt, lockVars, held, healthy, rcur>>

RenewGet(m) ==
    /\ rpc[m] = "get"
    /\ rpc' = [rpc EXCEPT ![m] = "got"]
    /\ rcur' = [rcur EXCEPT ![m] = lease]
    /\ UNCHANGED <<now, alive, lease, wroteAt, lockVars, held, healthy, rat>>

RenewBody(m, l) ==
    [rv |-> l.rv, holder |-> l.holder, renewTime |-> Wall(m), dur |-> l.dur]

(* renewOnce goes on to write only a Lease that still names us. *)
RenewStamp(m) ==
    /\ rpc[m] = "got"
    /\ rcur[m].holder = Identity(m)
    /\ rpc' = [rpc EXCEPT ![m] = "put"]
    /\ rat' = [rat EXCEPT ![m] = now]
    /\ rcur' = [rcur EXCEPT ![m] = RenewBody(m, rcur[m])]
    /\ UNCHANGED <<now, alive, lease, wroteAt, lockVars, held, healthy>>

RenewApplied(m) ==
    /\ rpc[m] = "put"
    /\ Current(rcur[m])
    /\ Apply(rcur[m])
    /\ rpc' = [rpc EXCEPT ![m] = "renewed"]
    /\ UNCHANGED <<now, alive, lockVars, held, healthy, rat, rcur>>

(* A fault: a failed renewal leaves the manager healthy. *)
RenewReturnsHealthy(m, ok) ==
    /\ healthy' = [healthy EXCEPT ![m] = ok \/ @]
    /\ rpc' = [rpc EXCEPT ![m] = IF held[m] THEN "sleep" ELSE "off"]
    /\ rat' = [rat EXCEPT ![m] = IF held[m] THEN now + Interval(m) ELSE 0]
    /\ rcur' = [rcur EXCEPT ![m] = Absent]
    /\ UNCHANGED <<now, alive, lease, wroteAt, lockVars, held>>

(* renewOnce returned; the loop records the outcome and sleeps, unless     *)
(* Release cancelled it.                                                   *)
RenewReturns(m, ok) ==
    /\ healthy' = [healthy EXCEPT ![m] = ok]
    /\ rpc' = [rpc EXCEPT ![m] = IF held[m] THEN "sleep" ELSE "off"]
    /\ rat' = [rat EXCEPT ![m] = IF held[m] THEN now + Interval(m) ELSE 0]
    /\ rcur' = [rcur EXCEPT ![m] = Absent]
    /\ UNCHANGED <<now, alive, lease, wroteAt, lockVars, held>>

RenewAck(m) ==
    /\ rpc[m] = "renewed"
    /\ RenewReturns(m, TRUE)

(* Someone else holds the Lease, a conflict, or any API error. *)
RenewFails(m) ==
    /\ rpc[m] \in {"get", "got", "put", "renewed"}
    /\ RenewReturns(m, FALSE)

----------------------------------------------------------------------------
(* Release *)

(* cancel() ends the loop; a write already sent may still take effect. *)
CancelRenewal(m) ==
    LET sent == rpc[m] \in {"put", "renewed"} IN
    /\ rpc' = [rpc EXCEPT ![m] = IF sent THEN @ ELSE "off"]
    /\ rat' = [rat EXCEPT ![m] = IF sent THEN @ ELSE 0]
    /\ rcur' = [rcur EXCEPT ![m] = IF sent THEN @ ELSE Absent]

Release(m) ==
    /\ pc[m] = "held"
    /\ held' = [held EXCEPT ![m] = FALSE]
    /\ healthy' = [healthy EXCEPT ![m] = FALSE]
    /\ CancelRenewal(m)
    /\ pc' = [pc EXCEPT ![m] = "rget"]
    /\ at' = [at EXCEPT ![m] = now]
    /\ UNCHANGED <<now, alive, lease, wroteAt, cur, obs>>

ReleaseGet(m) ==
    /\ pc[m] = "rget"
    /\ pc' = [pc EXCEPT ![m] = "rgot"]
    /\ cur' = [cur EXCEPT ![m] = lease]
    /\ UNCHANGED <<now, alive, lease, wroteAt, at, obs, held, healthy,
                   renewVars>>

ReleaseBody(l) ==
    [rv |-> l.rv, holder |-> None, renewTime |-> None, dur |-> l.dur]

(* Clear holder and renew time, if the Lease still names us. *)
ReleaseSend(m) ==
    /\ pc[m] = "rgot"
    /\ cur[m].holder = Identity(m)
    /\ pc' = [pc EXCEPT ![m] = "rput"]
    /\ at' = [at EXCEPT ![m] = now]
    /\ cur' = [cur EXCEPT ![m] = ReleaseBody(cur[m])]
    /\ UNCHANGED <<now, alive, lease, wroteAt, obs, held, healthy, renewVars>>

(* Release returns: "done" when it returned nil, "gone" on an error. *)
ReleaseReturns(m, how) ==
    /\ pc' = [pc EXCEPT ![m] = how]
    /\ at' = [at EXCEPT ![m] = 0]
    /\ cur' = [cur EXCEPT ![m] = Absent]
    /\ UNCHANGED <<now, alive, obs, held, healthy, renewVars>>

ReleaseApplied(m) ==
    /\ pc[m] = "rput"
    /\ Current(cur[m])
    /\ Apply(cur[m])
    /\ \E how \in {"done", "gone"} : ReleaseReturns(m, how)

(* Someone else already took it, or our write met a conflict: nil. *)
ReleaseNothing(m) ==
    /\ \/ pc[m] = "rgot" /\ cur[m].holder # Identity(m)
       \/ pc[m] = "rput" /\ ~Current(cur[m])
    /\ ReleaseReturns(m, "done")
    /\ UNCHANGED <<lease, wroteAt>>

ReleaseFails(m) ==
    /\ pc[m] \in {"rget", "rgot", "rput"}
    /\ ReleaseReturns(m, "gone")
    /\ UNCHANGED <<lease, wroteAt>>

----------------------------------------------------------------------------
(* The process serving v dies; only writes already sent can still land. *)
Crash(v) ==
    LET Dies(m) == VolumeOf(m) = v
        Sent(m) == pc[m] \in {"put", "rput"}
        RSent(m) == rpc[m] \in {"put", "renewed"}
    IN
    /\ alive[v]
    /\ alive' = [alive EXCEPT ![v] = FALSE]
    /\ pc' = [m \in Manager |-> IF Dies(m) /\ ~Sent(m) THEN "gone" ELSE pc[m]]
    /\ at' = [m \in Manager |-> IF Dies(m) /\ ~Sent(m) THEN 0 ELSE at[m]]
    /\ cur' = [m \in Manager |-> IF Dies(m) /\ ~Sent(m) THEN Absent ELSE cur[m]]
    /\ obs' = [m \in Manager |-> IF Dies(m) THEN NoObs ELSE obs[m]]
    /\ held' = [m \in Manager |-> ~Dies(m) /\ held[m]]
    /\ healthy' = [m \in Manager |-> ~Dies(m) /\ healthy[m]]
    /\ rpc' = [m \in Manager |-> IF Dies(m) /\ ~RSent(m) THEN "off" ELSE rpc[m]]
    /\ rat' = [m \in Manager |-> IF Dies(m) /\ ~RSent(m) THEN 0 ELSE rat[m]]
    /\ rcur' = [m \in Manager |-> IF Dies(m) /\ ~RSent(m) THEN Absent ELSE rcur[m]]
    /\ UNCHANGED <<now, lease, wroteAt>>

(* Time passes: no call outlives MaxLatency and timers fire when due. *)
OnTime(m) ==
    /\ pc[m] \in {"get", "got", "put", "won", "rget", "rgot", "rput"}
          => now < at[m] + MaxLatency
    /\ pc[m] = "sleep" => now < at[m]
    /\ rpc[m] \in {"get", "got", "put", "renewed"} => now < rat[m] + MaxLatency
    /\ rpc[m] = "sleep" => now < rat[m]

Tick ==
    /\ now < MaxTime
    /\ \A m \in Manager : OnTime(m)
    /\ now' = now + 1
    /\ UNCHANGED <<alive, lease, wroteAt, lockVars, held, healthy, renewVars>>

(* The plugin is back and publishes v again: a new Volume whose sequence    *)
(* starts over, so its managers have the identities of the dead ones.  This *)
(* takes longer than what the dead process had sent, and a moment at least. *)
Restart(v) ==
    LET Mine(m) == VolumeOf(m) = v IN
    /\ v \in Restarts
    /\ ~alive[v]
    /\ \A m \in Manager : Mine(m) => pc[m] \in {"done", "gone"} /\ rpc[m] = "off"
    /\ now < MaxTime
    /\ \A m \in Manager : OnTime(m)
    /\ now' = now + 1
    /\ alive' = [alive EXCEPT ![v] = TRUE]
    /\ pc' = [m \in Manager |-> IF Mine(m) THEN "new" ELSE pc[m]]
    /\ UNCHANGED <<lease, wroteAt, at, cur, obs, held, healthy, renewVars>>

----------------------------------------------------------------------------
AcquireStep(m) ==
    \/ TryAcquire(m)
    \/ AcquireGet(m)
    \/ Claim(m)
    \/ NotClaimable(m)
    \/ ClaimApplied(m)
    \/ ClaimConflict(m)
    \/ AcquireFails(m)
    \/ Interrupt(m)
    \/ StartRenewal(m)

RenewStep(m) ==
    \/ RenewStart(m)
    \/ RenewGet(m)
    \/ RenewStamp(m)
    \/ RenewApplied(m)
    \/ RenewAck(m)
    \/ RenewFails(m)

ReleaseStep(m) ==
    \/ Release(m)
    \/ ReleaseGet(m)
    \/ ReleaseSend(m)
    \/ ReleaseApplied(m)
    \/ ReleaseNothing(m)
    \/ ReleaseFails(m)

Next ==
    \/ \E m \in Manager : AcquireStep(m) \/ RenewStep(m) \/ ReleaseStep(m)
    \/ \E v \in Volume : Crash(v) \/ Restart(v)
    \/ Tick

Spec == Init /\ [][Next]_vars

----------------------------------------------------------------------------
Holder == {Identity(m) : m \in Manager} \cup {None}

LeaseRecord ==
    [rv : Nat, holder : Holder,
     renewTime : Int \cup {None}, dur : Nat \cup {None}]

ObsRecord == [holder : Holder, renewTime : Int \cup {None}, at : Nat]

(* Type invariant of the variables above. *)
TypeOK ==
    /\ now \in Nat
    /\ alive \in [Volume -> BOOLEAN]
    /\ lease \in LeaseRecord
    /\ wroteAt \in Nat
    /\ pc \in [Manager -> {"new", "sleep", "get", "got", "put", "won", "held",
                          "rget", "rgot", "rput", "done", "gone"}]
    /\ at \in [Manager -> Nat]
    /\ cur \in [Manager -> LeaseRecord]
    /\ obs \in [Manager -> ObsRecord]
    /\ held \in [Manager -> BOOLEAN]
    /\ healthy \in [Manager -> BOOLEAN]
    /\ rpc \in [Manager -> {"off", "sleep", "get", "got", "put", "renewed"}]
    /\ rat \in [Manager -> Nat]
    /\ rcur \in [Manager -> LeaseRecord]

(* What the fence needs of the API server: a renewal round, from one        *)
(* applied write to the loop learning that the next one failed, fits in the *)
(* duration the other side waits out.                                       *)
Timely ==
    \A m \in Manager : Interval(m) + 3 * MaxLatency <= Duration[VolumeOf(m)]

(* Holder identities are unique: no two volumes belong to one pod. *)
PodsDistinct == \A v, w \in Volume : PodOf[v] = PodOf[w] => v = w

(* A manager whose Healthy() is true is the holder on the API server, so a  *)
(* commit that passes the fence (Committer.Commit) is made under the lock.  *)
FenceHolds == \A m \in Manager : Healthy(m) => lease.holder = Identity(m)

(* No two handles, in one pod or in two, pass the fence at the same time.   *)
MutualExclusion ==
    \A m, k \in Manager : Healthy(m) /\ Healthy(k) => m = k

(* After a Release that returned nil the Lease no longer names its manager, *)
(* "so the next acquirer does not have to wait out the full duration".      *)
ReleaseFrees ==
    \A m \in Manager : pc[m] = "done" => lease.holder # Identity(m)

(* What the Lease promises, in terms of the API object alone.               *)
Lock == INSTANCE ExpiringLock WITH
    Id <- {Identity(m) : m \in Manager},
    Term <- {Duration[v] : v \in Volume},
    Nobody <- None,
    clock <- now, owner <- lease.holder, since <- wroteAt, term <- lease.dur

(* Every write the server applies is a legal step of the lock: claimable,   *)
(* the observation clock and the resourceVersion check together never take  *)
(* the Lease from a holder that wrote it less than its duration ago,        *)
(* whatever the skew of the nodes' clocks and however slow the API is.      *)
ImplementsExpiringLock == Lock!LSpec

=============================================================================
