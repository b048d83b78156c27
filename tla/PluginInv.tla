----------------------------- MODULE PluginInv ------------------------------
(***************************************************************************)
(* The inductive invariants behind NodePlugin's safety properties, in      *)
(* named parts, and the conditions under which they hold.  PluginProofs    *)
(* proves them for every instance.                                         *)
(***************************************************************************)
EXTENDS NodePlugin

Deleting(c) == pc[c] \in {"unmount", "undetach", "save"}

----------------------------------------------------------------------------
(* The per-target lock: under every overlap, failure and restart *)

Refs(l) == {c \in Call : tl[c] = l}

(* Where a handler stands decides what it has. *)
Phases ==
    \A c \in Call :
      /\ target[c] = None <=> pc[c] = "idle"
      /\ tl[c] # None <=> Publishing(c) \/ pc[c] \in {"wait", "unref"}

(* The table has the lock its handlers refer to, one for each target, and   *)
(* keeps none that nobody refers to.                                        *)
Table ==
    /\ \A c \in Call : tl[c] # None => locks[target[c]] = tl[c]
    /\ \A t, u \in Target : locks[t] # None /\ locks[t] = locks[u] => t = u
    /\ \A t \in Target : locks[t] # None => \E c \in Call : tl[c] = locks[t]

(* The count that decides when a lock leaves the table is right. *)
Counted == \A l \in Call : refs[l] = Cardinality(Refs(l))

(* Whoever is past lockTarget has the lock's token. *)
Token ==
    /\ \A c \in Call : Publishing(c) => ~free[tl[c]]
    /\ \A c, d \in Call :
         Publishing(c) /\ Publishing(d) /\ tl[c] = tl[d] => c = d

LockInv == TypeOK /\ Phases /\ Table /\ Counted /\ Token

----------------------------------------------------------------------------
(* The mount stack: if the state file can be written, and an unpublish is   *)
(* not sent while another call on its target runs                           *)

Serial == ~PersistMayFail /\ "unpublish" \notin Overlap

(* A target being published is in nobody else's hands: the registry does    *)
(* not have it, and Shutdown has nothing to unmount there.                  *)
Unclaimed ==
    /\ \A c \in Call : pc[c] \in {"check", "detach", "mount", "put"}
                         => target[c] \notin live
    /\ \A t \in Target : draining # None /\ t \in draining /\ t \notin live =>
         phase[t] # "wanted" /\ \A c \in Handlers(t) : Deleting(c)

(* A target being unpublished is not published at the same time. *)
Unpublished ==
    \A c \in Call : Deleting(c) =>
      /\ target[c] \notin live
      /\ phase[target[c]] # "wanted"
      /\ Handlers(target[c]) = {c}

(* At most one mount, and where a handler or the registry counts on it, the *)
(* one they count on.                                                       *)
Stack ==
    /\ \A t \in Target : mounts[t] \in {<<>>, <<"served">>, <<"dead">>}
    /\ \A c \in Call : pc[c] = "mount" => mounts[target[c]] = <<>>
    /\ \A c \in Call : pc[c] = "put" => mounts[target[c]] = <<"served">>

MountInv == LockInv /\ Unclaimed /\ Unpublished /\ Stack /\ LiveIsMounted

----------------------------------------------------------------------------
(* The records: if, besides, a publish is retried while another runs only   *)
(* on the fast path                                                         *)

Sequential == ~PersistMayFail /\ Overlap \subseteq {"republish"}

Alone ==
    \A c, d \in Call : target[c] = target[d] /\ c # d /\ pc[c] # "idle"
                         => pc[c] = "swap"

(* The state file has what the registry has, but for the target of a Put    *)
(* that is not done.                                                        *)
Recorded ==
    /\ live \subseteq records
    /\ \A t \in records \ disk : \E c \in Handlers(t) : pc[c] = "persist"

Safe(t) == t \in records /\ t \in disk

(* An answer OK, and the promise to answer OK, are given for what a restart *)
(* will find recorded.                                                      *)
Answered ==
    \A c \in Call :
      /\ pc[c] = "swap" => target[c] \in live
      /\ outcome[c] = "ok" => pc[c] \in {"unlock", "unref"} /\ Safe(target[c])
      /\ pc[c] = "persist" => target[c] \in records
      /\ pc[c] \in {"check", "detach", "mount", "put", "persist"} =>
           IF restarting[c] THEN Safe(target[c]) ELSE ~published[target[c]]

(* What the kubelet was told is mounted stays recorded until it is deleted. *)
Remembered ==
    \A t \in Target :
      published[t] /\ (phase[t] = "wanted" \/ \E c \in Handlers(t) : ~Deleting(c))
        => Safe(t)

RecordInv == LockInv /\ Alone /\ Recorded /\ Answered /\ Remembered

----------------------------------------------------------------------------
(* What unpublish leaves behind: if, besides, umount does not fail and a    *)
(* crash cannot meet another target's save                                  *)

Contained ==
    /\ Sequential /\ ~UnmountMayFail
    /\ MaxRestarts = 0 \/ \A t, u \in Target : t = u

(* A mount the kubelet knows of is recorded, or being removed right now,    *)
(* and a restart would find it recorded.                                    *)
Traced ==
    \A t \in Target : published[t] /\ Mounted(t) =>
      /\ \/ t \in records
         \/ \E c \in Handlers(t) : pc[c] \in {"unmount", "undetach"}
      /\ restarts < MaxRestarts => t \in disk

(* What Delete has taken out of the maps, it has unmounted when it saves. *)
Removing ==
    \A c \in Call : Deleting(c) =>
      /\ target[c] \notin records
      /\ pc[c] = "save" => ~(published[target[c]] /\ Mounted(target[c]))

Removed ==
    \A t \in Target : phase[t] = "removed" =>
      /\ t \notin live \cup records \cup disk
      /\ \A c \in Handlers(t) : Deleting(c)

StrandedInv == MountInv /\ RecordInv /\ Traced /\ Removing /\ Removed

----------------------------------------------------------------------------
(* What is mounted was accepted *)

Accepted ==
    /\ \A t \in live : Acceptable(attrs[t])
    /\ \A c \in Call : pc[c] \in {"detach", "mount", "put"}
                         => Acceptable(attrs[target[c]])
=============================================================================
