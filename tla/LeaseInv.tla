----------------------------- MODULE LeaseInv ------------------------------
(***************************************************************************)
(* The inductive invariant behind Lease's safety properties, in named      *)
(* parts, each about one thing the code relies on.  LeaseProofs proves it  *)
(* for every instance.                                                     *)
(***************************************************************************)
EXTENDS Lease

(* Where a manager is decides what else it may be doing.                    *)
Phases ==
    \A m \in Manager :
      /\ held[m] <=> pc[m] = "held"
      /\ pc[m] \in {"new", "sleep", "get", "got", "put", "won"} => rpc[m] = "off"
      /\ rpc[m] \in {"sleep", "get", "got"} => held[m]

(* Timers and calls against the clock. *)
Clocks ==
    /\ wroteAt <= now
    /\ \A m \in Manager :
         /\ obs[m].at <= now
         /\ pc[m] = "sleep" => now <= at[m]
         /\ pc[m] \in {"get", "got", "put", "won", "rget", "rgot", "rput"}
              => at[m] <= now /\ now <= at[m] + MaxLatency
         /\ rpc[m] = "sleep" => now <= rat[m]
         /\ rpc[m] \in {"get", "got", "put", "renewed"}
              => rat[m] <= now /\ now <= rat[m] + MaxLatency

(* A record some server version had: a holder comes with a renew time.      *)
Whole(l) ==
    /\ l.holder # None => l.renewTime # None /\ l.rv > 0
    /\ l.rv > 0 => l.dur # None

(* A read copy is the Lease itself as long as its version is current, and a *)
(* pending write based on a current version is one the lock allows.         *)
Copies ==
    /\ Whole(lease)
    /\ \A m \in Manager : lease.holder = Identity(m)
                            => lease.dur = Duration[VolumeOf(m)]
    /\ \A m \in Manager :
         /\ pc[m] \in {"got", "rgot"} =>
              /\ Whole(cur[m])
              /\ cur[m].rv <= lease.rv
              /\ cur[m].rv = lease.rv => cur[m] = lease
         /\ rpc[m] = "got" =>
              /\ Whole(rcur[m])
              /\ rcur[m].rv <= lease.rv
              /\ rcur[m].rv = lease.rv => rcur[m] = lease
         /\ pc[m] = "put" =>
              /\ cur[m] = [rv |-> cur[m].rv, holder |-> Identity(m),
                           renewTime |-> at[m] + Skew[VolumeOf(m)],
                           dur |-> Duration[VolumeOf(m)]]
              /\ cur[m].rv <= lease.rv
              /\ cur[m].rv = lease.rv =>
                   \/ lease.holder \in {None, Identity(m)}
                   \/ now - wroteAt > lease.dur
         /\ pc[m] = "won" => cur[m].renewTime = at[m] + Skew[VolumeOf(m)]
         /\ pc[m] = "rput" =>
              /\ cur[m].holder = None /\ cur[m].renewTime = None
              /\ cur[m].rv > 0 /\ cur[m].rv <= lease.rv
              /\ cur[m].rv = lease.rv =>
                   lease.holder = Identity(m) /\ cur[m].dur = lease.dur
         /\ rpc[m] \in {"put", "renewed"} =>
              /\ rcur[m].holder = Identity(m)
              /\ rcur[m].renewTime = rat[m] + Skew[VolumeOf(m)]
         /\ rpc[m] = "put" =>
              /\ rcur[m].rv > 0 /\ rcur[m].rv <= lease.rv
              /\ rcur[m].rv = lease.rv =>
                   lease.holder = Identity(m) /\ rcur[m].dur = lease.dur

(* The pair that k is about to write has never been seen: c is any record   *)
(* with a holder and a renew time that somebody keeps.                      *)
Older(k, c) ==
    c.holder = Identity(k) =>
      /\ c.renewTime <= Wall(k)
      /\ pc[k] \in {"new", "sleep", "get", "got"} => c.renewTime < Wall(k)
      /\ pc[k] = "put" => c.renewTime < at[k] + Skew[VolumeOf(k)]
      /\ pc[k] = "won" => c.renewTime <= at[k] + Skew[VolumeOf(k)]
      /\ rpc[k] = "sleep"
           => c.renewTime + Interval(k) <= rat[k] + Skew[VolumeOf(k)]
      /\ rpc[k] \in {"get", "got", "put"}
           => c.renewTime < rat[k] + Skew[VolumeOf(k)]
      /\ rpc[k] = "renewed" => c.renewTime <= rat[k] + Skew[VolumeOf(k)]

Stamps ==
    \A k \in Manager :
      /\ Older(k, lease)
      /\ \A m \in Manager : /\ pc[m] = "got" => Older(k, cur[m])
                            /\ Older(k, obs[m])

(* An observation of the pair now on the Lease is no older than the write   *)
(* that put it there: expiry measured from it errs on the holder's side.    *)
Observations ==
    \A m \in Manager :
      /\ obs[m].holder # None => obs[m].renewTime # None
      /\ obs[m].holder # None /\ Seen(m, lease) => wroteAt <= obs[m].at

(* The invariant without timing: holds for every latency. *)
SafeInv == TypeOK /\ Phases /\ Clocks /\ Copies /\ Stamps /\ Observations

(* A manager that passes the fence, or is about to, wrote recently.         *)
Recent(m) ==
    /\ pc[m] = "won" => lease.holder = Identity(m) /\ at[m] <= wroteAt
    /\ held[m] /\ rpc[m] = "renewed"
         => lease.holder = Identity(m) /\ rat[m] <= wroteAt
    /\ Healthy(m) =>
         /\ lease.holder = Identity(m)
         /\ rpc[m] # "off"
         /\ rpc[m] \in {"sleep", "get", "got"}
              => rat[m] <= wroteAt + MaxLatency + Interval(m)
         /\ rpc[m] = "put"
              => rat[m] <= wroteAt + 2 * MaxLatency + Interval(m)

FenceInv == \A m \in Manager : Recent(m)
=============================================================================
