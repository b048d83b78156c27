------------------------------ MODULE DataPath ------------------------------
(***************************************************************************)
(* One key of one Secret or ConfigMap, as several mounts see it: each      *)
(* volume's Cache and watch loop (cache.go), the handles opened on it      *)
(* (handle.go, fs.go), the Committer (commit.go), and the flock between    *)
(* them.  Every API call is a request that the server answers at one       *)
(* instant and a response used later; whatever else the process does runs  *)
(* in between.                                                             *)
(*                                                                         *)
(* The Lease is abstracted to what module Lease establishes of it: one     *)
(* owner, and a manager that is Healthy is the owner.  A manager is named  *)
(* after the thread whose setlk minted it.  File content is a number: one  *)
(* for each write, or None for a key that is absent.                       *)
(***************************************************************************)
EXTENDS Integers, Sequences

CONSTANTS
    Volume,
    Handle,
    Thread,       \* application threads with a descriptor of a handle
    VolumeOf,     \* [Handle -> Volume]
    HandleOf,     \* [Thread -> Handle]
    Disciplined,  \* TRUE: applications write, and commit a file they made,
                  \* only while holding the flock
    Uses,         \* the calls they make besides open, write and close;
                  \* "edit": somebody else writes the object too
    Initial,      \* the key's first value
    PatchMayFail, \* TRUE: a Patch may be refused or its answer lost
    LeaseMayFail, \* TRUE: renewal may fail and the Lease expire
    MayAge,       \* TRUE: the staleness bound may pass without a Set
    MaxWrites,    \* bound: values written
    MaxVersions,  \* bound: versions of the object
    None          \* no key, no lease, no owner

Value == 0..MaxWrites

(* The calls that commit or give a lease back. *)
Calls == {"flush", "close", "last", "unlock", "setlk", "modify", "unlink"}

ASSUME PathAssumption ==
    /\ VolumeOf \in [Handle -> Volume]
    /\ HandleOf \in [Thread -> Handle]
    /\ \A h \in Handle : \E t \in Thread : HandleOf[t] = h
    /\ {Disciplined, PatchMayFail, LeaseMayFail, MayAge} \subseteq BOOLEAN
    /\ Uses \subseteq {"create", "trunc", "unlink", "modify", "edit"}
    /\ Initial \in {0, None}
    /\ MaxWrites \in Nat /\ MaxVersions \in Nat \ {0}
    /\ None \notin Thread \cup Value /\ None \notin Calls

VARIABLES
    log,      \* log[n]: the key's value in the object's n-th version
    owner,    \* the manager on the Lease
    running,  \* running[t]: the renewal loop of the manager t minted runs
    healthy,  \* healthy[t]: Healthy() of that manager
    cache,    \* cache[v]: the current Snapshot; rv 0 is ResourceVersion ""
    stale,    \* stale[v]: the staleness bound has passed since the last Set
    lpc,      \* lpc[v]: where the watch loop (Run, watchOnce) stands
    lsnap,    \* lsnap[v]: the Snapshot the loop has in hand
    pos,      \* pos[v]: version of the last event its watch delivered
    buf,      \* buf[h]: the handle's pinned content
    dirty,    \* dirty[h]: h.dirty
    lease,    \* lease[h]: h.lease
    fd,       \* fd[t]: the thread has a descriptor of its handle
    tpc,      \* tpc[t]: where its system call stands
    op,       \* op[t]: which of the Calls is running, or None
    tsnap,    \* tsnap[t]: the Snapshot it has in hand
    tval,     \* tval[t]: the value its commit is writing
    tlease,   \* tlease[t]: the manager its commit is fenced with
    writes,   \* values written so far
    unsaved,  \* unsaved[h]: last value written to h, until h has patched it
    flushed,  \* flushed[h]: the last close(2) returned 0
    base      \* base[h]: the key's value when its user last saw or set it

managerVars == <<running, healthy>>
lockVars    == <<owner, managerVars>>
cacheVars   == <<cache, stale>>
loopVars    == <<lpc, lsnap, pos>>
viewVars    == <<cacheVars, loopVars>>
handleVars  == <<buf, dirty, lease>>
callVars    == <<tpc, op, tsnap, tval, tlease>>
ghostVars   == <<writes, unsaved, flushed, base>>
vars == <<log, lockVars, viewVars, handleVars, fd, callVars, ghostVars>>

(* A quorum read: what Store.Get answers. *)
Object == [rv |-> Len(log), val |-> log[Len(log)]]

Event(n) == [rv |-> n, val |-> log[n]]

NoSnap == [rv |-> 0, val |-> None]

V(t) == VolumeOf[HandleOf[t]]

(* publish has already made a first Fresh when the mount appears. *)
Init ==
    /\ log = <<Initial>>
    /\ owner = None
    /\ running = [t \in Thread |-> FALSE]
    /\ healthy = [t \in Thread |-> FALSE]
    /\ cache = [v \in Volume |-> [rv |-> 1, val |-> Initial]]
    /\ stale = [v \in Volume |-> FALSE]
    /\ lpc = [v \in Volume |-> "get"]
    /\ lsnap = [v \in Volume |-> NoSnap]
    /\ pos = [v \in Volume |-> 0]
    /\ buf = [h \in Handle |-> None]
    /\ dirty = [h \in Handle |-> FALSE]
    /\ lease = [h \in Handle |-> None]
    /\ fd = [t \in Thread |-> FALSE]
    /\ tpc = [t \in Thread |-> "idle"]
    /\ op = [t \in Thread |-> None]
    /\ tsnap = [t \in Thread |-> NoSnap]
    /\ tval = [t \in Thread |-> None]
    /\ tlease = [t \in Thread |-> None]
    /\ writes = 0
    /\ unsaved = [h \in Handle |-> None]
    /\ flushed = [h \in Handle |-> FALSE]
    /\ base = [h \in Handle |-> None]

----------------------------------------------------------------------------
(* Cache *)

(* Set: unconditional. *)
Set(v, snap) ==
    /\ cache' = [cache EXCEPT ![v] = snap]
    /\ stale' = [stale EXCEPT ![v] = FALSE]

(* setFromWatch's comparison; a derived Snapshot has no version to compare. *)
Newer(v, snap) == cache[v].rv = 0 \/ snap.rv > cache[v].rv

(* The staleness bound passes with nothing installed. *)
Age(v) ==
    /\ MayAge /\ ~stale[v]
    /\ stale' = [stale EXCEPT ![v] = TRUE]
    /\ UNCHANGED <<log, lockVars, cache, loopVars, handleVars, fd, callVars,
                   ghostVars>>

(* Run: the Fresh before each watch.  A Get that fails is tried again. *)
LoopGet(v) ==
    /\ lpc[v] = "get"
    /\ lpc' = [lpc EXCEPT ![v] = "got"]
    /\ lsnap' = [lsnap EXCEPT ![v] = Object]
    /\ UNCHANGED <<log, lockVars, cacheVars, pos, handleVars, fd, callVars,
                   ghostVars>>

LoopSet(v) ==
    /\ lpc[v] = "got"
    /\ Set(v, lsnap[v])
    /\ lpc' = [lpc EXCEPT ![v] = "watch"]
    /\ pos' = [pos EXCEPT ![v] = lsnap[v].rv]
    /\ lsnap' = [lsnap EXCEPT ![v] = NoSnap]
    /\ UNCHANGED <<log, lockVars, handleVars, fd, callVars, ghostVars>>

(* watchOnce: the next event is compared with the cache ... *)
WatchEvent(v) ==
    /\ lpc[v] = "watch"
    /\ pos[v] < Len(log)
    /\ LET ev == Event(pos[v] + 1) IN
       IF Newer(v, ev)
       THEN /\ lpc' = [lpc EXCEPT ![v] = "store"]
            /\ lsnap' = [lsnap EXCEPT ![v] = ev]
       ELSE UNCHANGED <<lpc, lsnap>>
    /\ pos' = [pos EXCEPT ![v] = pos[v] + 1]
    /\ UNCHANGED <<log, lockVars, cacheVars, handleVars, fd, callVars,
                   ghostVars>>

(* ... and installed, which is a step of its own. *)
WatchStore(v) ==
    /\ lpc[v] = "store"
    /\ Set(v, lsnap[v])
    /\ lpc' = [lpc EXCEPT ![v] = "watch"]
    /\ lsnap' = [lsnap EXCEPT ![v] = NoSnap]
    /\ UNCHANGED <<log, lockVars, pos, handleVars, fd, callVars, ghostVars>>

(* The watch closes or fails; Run starts over with a Fresh. *)
WatchEnds(v) ==
    /\ lpc[v] = "watch"
    /\ lpc' = [lpc EXCEPT ![v] = "get"]
    /\ pos' = [pos EXCEPT ![v] = 0]
    /\ UNCHANGED <<log, lockVars, cacheVars, lsnap, handleVars, fd, callVars,
                   ghostVars>>

----------------------------------------------------------------------------
(* The object has other writers: kubectl, a controller, a mount that is not *)
(* one of Volume, or a Patch that its client has given up as failed and the *)
(* server applies after all, which brings an older value back.              *)
Edit ==
    /\ "edit" \in Uses
    /\ Len(log) < MaxVersions /\ writes < MaxWrites
    /\ \E value \in (0..writes + 1) \cup {None} : log' = Append(log, value)
    /\ writes' = writes + 1
    /\ UNCHANGED <<lockVars, viewVars, handleVars, fd, callVars, unsaved,
                   flushed, base>>

----------------------------------------------------------------------------
(* Opening a handle *)

Idle(t) == tpc[t] = "idle"

(* The application writes the next value. *)
NextValue ==
    /\ writes < MaxWrites
    /\ writes' = writes + 1

Goto(t, where) == tpc' = [tpc EXCEPT ![t] = where]

(* newHandle, on a Snapshot in which the key had the value seen.  Other     *)
(* threads that share the open file description have their own descriptor   *)
(* of it from the start, by dup(2) or fork(2).                              *)
NewHandle(t, seen, value, isDirty) ==
    LET h == HandleOf[t] IN
    /\ buf' = [buf EXCEPT ![h] = value]
    /\ dirty' = [dirty EXCEPT ![h] = isDirty]
    /\ lease' = [lease EXCEPT ![h] = None]
    /\ fd' = [u \in Thread |-> fd[u] \/ HandleOf[u] = h]
    /\ unsaved' = [unsaved EXCEPT ![h] = IF isDirty THEN value ELSE None]
    /\ flushed' = [flushed EXCEPT ![h] = FALSE]
    /\ base' = [base EXCEPT ![h] = seen]

(* No descriptor of t's handle exists and none is being released. *)
CanOpen(t) ==
    \A u \in Thread :
      HandleOf[u] = HandleOf[t] => ~fd[u] /\ tpc[u] \in {"idle", "oget", "ogot"}

(* A call on the path, which all start with MaybeFresh, given its answer.   *)
(* Lookup, Getattr and Readdir report it, or ENOENT. *)
Stat(t) ==
    /\ Goto(t, "idle")
    /\ UNCHANGED <<handleVars, fd, op, tval, ghostVars>>

(* File.Open pins the value, or with O_TRUNC stages an empty dirty buffer. *)
Open(t, snap) ==
    /\ snap.val # None /\ CanOpen(t)
    /\ Goto(t, "idle")
    /\ \/ NewHandle(t, snap.val, snap.val, FALSE) /\ UNCHANGED writes
       \/ /\ "trunc" \in Uses
          /\ NextValue
          /\ NewHandle(t, snap.val, writes + 1, TRUE)
    /\ UNCHANGED <<op, tval>>

(* Root.Create, which the kernel calls when Lookup found no key: an empty   *)
(* dirty handle, whether or not the key has appeared on the server.         *)
Create(t, snap) ==
    /\ "create" \in Uses
    /\ snap.val = None /\ CanOpen(t)
    /\ Goto(t, "idle")
    /\ NextValue
    /\ NewHandle(t, snap.val, writes + 1, TRUE)
    /\ UNCHANGED <<op, tval>>

(* truncate(2) without a handle, and Rename to another key if this one is   *)
(* there: an unfenced Commit of what the Snapshot's value makes of the key. *)
Modify(t, snap) ==
    /\ "modify" \in Uses
    /\ Disciplined => lease[HandleOf[t]] # None
    /\ NextValue
    /\ Goto(t, "fence")
    /\ op' = [op EXCEPT ![t] = "modify"]
    /\ \/ tval' = [tval EXCEPT ![t] = writes + 1]
       \/ snap.val # None /\ tval' = [tval EXCEPT ![t] = None]
    /\ UNCHANGED <<handleVars, fd, unsaved, flushed, base>>

Resolve(t, snap) ==
    /\ Stat(t) \/ Open(t, snap) \/ Create(t, snap) \/ Modify(t, snap)
    /\ tsnap' = [tsnap EXCEPT ![t] = IF op'[t] = "modify" THEN snap ELSE NoSnap]
    /\ UNCHANGED <<log, lockVars, loopVars, tlease>>

OpenCached(t) ==
    /\ Idle(t)
    /\ ~stale[V(t)]
    /\ Resolve(t, cache[V(t)])
    /\ UNCHANGED cacheVars

(* A fault: the bound is not looked at, and the cache always serves. *)
OpenStaleServed(t) ==
    /\ Idle(t)
    /\ stale[V(t)]
    /\ Resolve(t, cache[V(t)])
    /\ UNCHANGED cacheVars

(* MaybeFresh past the bound: it loads the entry, then asks the server. *)
OpenStale(t) ==
    /\ Idle(t)
    /\ stale[V(t)]
    /\ Goto(t, "oget")
    /\ tsnap' = [tsnap EXCEPT ![t] = cache[V(t)]]
    /\ UNCHANGED <<log, lockVars, viewVars, handleVars, fd, op, tval, tlease,
                   ghostVars>>

OpenGet(t) ==
    /\ tpc[t] = "oget"
    /\ Goto(t, "ogot")
    /\ tsnap' = [tsnap EXCEPT ![t] = Object]
    /\ UNCHANGED <<log, lockVars, viewVars, handleVars, fd, op, tval, tlease,
                   ghostVars>>

(* Fresh installs its answer, and MaybeFresh returns it. *)
OpenFresh(t) ==
    /\ tpc[t] = "ogot"
    /\ Set(V(t), tsnap[t])
    /\ Resolve(t, tsnap[t])

(* The refresh failed: the entry loaded before it is served. *)
OpenServesStale(t) ==
    /\ tpc[t] = "oget"
    /\ Resolve(t, tsnap[t])
    /\ UNCHANGED cacheVars

(* Write and truncate: a fresh buffer, and dirty. *)
Write(t) ==
    LET h == HandleOf[t] IN
    /\ Idle(t) /\ fd[t]
    /\ Disciplined => lease[h] # None
    /\ NextValue
    /\ buf' = [buf EXCEPT ![h] = writes + 1]
    /\ dirty' = [dirty EXCEPT ![h] = TRUE]
    /\ unsaved' = [unsaved EXCEPT ![h] = writes + 1]
    /\ UNCHANGED <<log, lockVars, viewVars, lease, fd, callVars, flushed, base>>

----------------------------------------------------------------------------
(* setlk *)

(* The last manager t minted has been released, so its name is free; a      *)
(* bound on the managers alive at once, not a condition of the code.        *)
NameFree(t) == ~running[t] /\ \A u \in Thread : tlease[u] # t

(* A handle that already holds the lock returns at once: no step. *)
SetlkBegin(t) ==
    /\ Idle(t) /\ fd[t]
    /\ NameFree(t)
    /\ lease[HandleOf[t]] = None
    /\ Goto(t, "acquire")
    /\ UNCHANGED <<log, lockVars, viewVars, handleVars, fd, op, tsnap, tval,
                   tlease, ghostVars>>

(* Acquire or TryAcquire succeeded; the renewal loop runs. *)
SetlkAcquired(t) ==
    /\ tpc[t] = "acquire"
    /\ owner = None
    /\ owner' = t
    /\ running' = [running EXCEPT ![t] = TRUE]
    /\ healthy' = [healthy EXCEPT ![t] = TRUE]
    /\ Goto(t, "fget")
    /\ UNCHANGED <<log, viewVars, handleVars, fd, op, tsnap, tval, tlease,
                   ghostVars>>

(* EWOULDBLOCK, EINTR or an API error. *)
SetlkGivesUp(t) ==
    /\ tpc[t] = "acquire"
    /\ Goto(t, "idle")
    /\ UNCHANGED <<log, lockVars, viewVars, handleVars, fd, op, tsnap, tval,
                   tlease, ghostVars>>

(* The mandatory quorum read. *)
SetlkGet(t) ==
    /\ tpc[t] = "fget"
    /\ Goto(t, "fgot")
    /\ tsnap' = [tsnap EXCEPT ![t] = Object]
    /\ UNCHANGED <<log, lockVars, viewVars, handleVars, fd, op, tval, tlease,
                   ghostVars>>

(* Fresh's Set. *)
SetlkSet(t) ==
    /\ tpc[t] = "fgot"
    /\ Set(V(t), tsnap[t])
    /\ Goto(t, "pin")
    /\ UNCHANGED <<log, lockVars, loopVars, handleVars, fd, op, tsnap, tval,
                   tlease, ghostVars>>

(* setlk pins the Snapshot Fresh returned, not Cache.Current(); a key that  *)
(* is gone leaves the buffer empty.                                         *)
PinnedFromCache(t) == cache[V(t)].val
Pinned(t) == tsnap[t].val

(* A fault: the early return of a dirty handle before h.lease is set. *)
SetlkPinDirtyFirst(t) ==
    LET h == HandleOf[t] IN
    /\ tpc[t] = "pin"
    /\ lease' = [lease EXCEPT ![h] = IF dirty[h] THEN @ ELSE t]
    /\ buf' = [buf EXCEPT ![h] = IF dirty[h] THEN @ ELSE Pinned(t)]
    /\ Goto(t, "idle")
    /\ tsnap' = [tsnap EXCEPT ![t] = NoSnap]
    /\ UNCHANGED <<log, lockVars, viewVars, dirty, fd, op, tval, tlease,
                   ghostVars>>

(* The handle takes the lease and, unless dirty, the Snapshot read. *)
SetlkPin(t) ==
    LET h == HandleOf[t] IN
    /\ tpc[t] = "pin"
    /\ lease' = [lease EXCEPT ![h] = t]
    /\ buf' = [buf EXCEPT ![h] = IF dirty[h] THEN @ ELSE Pinned(t)]
    /\ base' = [base EXCEPT ![h] = IF dirty[h] THEN @ ELSE Pinned(t)]
    /\ Goto(t, "idle")
    /\ tsnap' = [tsnap EXCEPT ![t] = NoSnap]
    /\ UNCHANGED <<log, lockVars, viewVars, dirty, fd, op, tval, tlease,
                   writes, unsaved, flushed>>

(* The quorum read failed: the lease is given back. *)
SetlkReadFails(t) ==
    /\ tpc[t] = "fget"
    /\ Goto(t, "release")
    /\ running' = [running EXCEPT ![t] = FALSE]
    /\ healthy' = [healthy EXCEPT ![t] = FALSE]
    /\ op' = [op EXCEPT ![t] = "setlk"]
    /\ tlease' = [tlease EXCEPT ![t] = t]
    /\ UNCHANGED <<log, owner, viewVars, handleVars, fd, tsnap, tval,
                   ghostVars>>

----------------------------------------------------------------------------
(* commit *)

(* What runs once commit has returned to the call that made it. *)
AfterCommit(o) == IF o \in {"unlock", "last"} THEN "drop" ELSE "return"

(* The lease commit hands to the Committer to be fenced with. *)
Fence(h) == IF dirty[h] THEN lease[h] ELSE None

(* handle.commit on a clean handle returns 0 at once; on a dirty one it     *)
(* copies buffer and lease.                                                 *)
Commit(t, o) ==
    LET h == HandleOf[t] IN
    /\ op' = [op EXCEPT ![t] = o]
    /\ Goto(t, IF dirty[h] THEN "fence" ELSE AfterCommit(o))
    /\ tval' = [tval EXCEPT ![t] = IF dirty[h] THEN buf[h] ELSE None]
    /\ tlease' = [tlease EXCEPT ![t] = Fence(h)]
    /\ flushed' = [flushed EXCEPT ![h] = IF o = "close" THEN ~dirty[h] ELSE @]
    /\ UNCHANGED <<log, lockVars, viewVars, handleVars, fd, tsnap, writes,
                   unsaved, base>>

(* The application may commit: it has a descriptor, and if it is to take    *)
(* the lock first, its key was there or it has the lock.                    *)
MayCommit(t) ==
    LET h == HandleOf[t] IN
    /\ Idle(t) /\ fd[t]
    /\ Disciplined => base[h] # None \/ lease[h] # None

(* fsync(2), or the Flush of a descriptor that is not the last. *)
Flush(t) == MayCommit(t) /\ Commit(t, "flush")

(* The Flush of close(2). *)
Close(t) == MayCommit(t) /\ Commit(t, "close")

(* A fault: unlock releases the Lease without committing first. *)
UnlockFirst(t) ==
    /\ MayCommit(t)
    /\ op' = [op EXCEPT ![t] = "unlock"]
    /\ Goto(t, "drop")
    /\ UNCHANGED <<log, lockVars, viewVars, handleVars, fd, tsnap, tval,
                   tlease, ghostVars>>

(* setlk with F_UNLCK, whether or not the handle holds a lease. *)
Unlock(t) == MayCommit(t) /\ Commit(t, "unlock")

(* Unlink, or another key renamed over this one: an unfenced Commit that    *)
(* looks at nothing first.                                                  *)
Unlink(t) ==
    /\ "unlink" \in Uses
    /\ Idle(t)
    /\ Goto(t, "fence")
    /\ op' = [op EXCEPT ![t] = "unlink"]
    /\ NextValue
    /\ \E value \in {None, writes + 1} : tval' = [tval EXCEPT ![t] = value]
    /\ UNCHANGED <<log, lockVars, viewVars, handleVars, fd, tsnap, tlease,
                   unsaved, flushed, base>>

(* The commits that are not a handle's. *)
Direct(t) == op[t] \in {"modify", "unlink"}

(* A fault: dirty is cleared although nothing was committed. *)
CommitFailedClean(t) ==
    LET h == HandleOf[t] IN
    /\ Goto(t, AfterCommit(op[t]))
    /\ tval' = [tval EXCEPT ![t] = None]
    /\ tlease' = [tlease EXCEPT ![t] = None]
    /\ tsnap' = [tsnap EXCEPT ![t] = NoSnap]
    /\ dirty' = [dirty EXCEPT ![h] = FALSE]
    /\ UNCHANGED <<log, lockVars, viewVars, buf, lease, fd, op, ghostVars>>

(* The call whose commit failed goes on with what follows it. *)
CommitFailed(t) ==
    /\ Goto(t, AfterCommit(op[t]))
    /\ tval' = [tval EXCEPT ![t] = None]
    /\ tlease' = [tlease EXCEPT ![t] = None]
    /\ tsnap' = [tsnap EXCEPT ![t] = NoSnap]
    /\ UNCHANGED <<log, lockVars, viewVars, handleVars, fd, op, ghostVars>>

(* Committer.Commit: the fence ... *)
FencePasses(t) ==
    /\ tpc[t] = "fence"
    /\ tlease[t] # None => healthy[tlease[t]]
    /\ Goto(t, "patch")
    /\ UNCHANGED <<log, lockVars, viewVars, handleVars, fd, op, tsnap, tval,
                   tlease, ghostVars>>

FenceRefuses(t) ==
    /\ tpc[t] = "fence"
    /\ tlease[t] # None /\ ~healthy[tlease[t]]
    /\ CommitFailed(t)

(* ... the Patch, applied by the server ... *)
Saved(t) ==
    LET h == HandleOf[t] IN
    /\ unsaved' = [unsaved EXCEPT ![h] =
                     IF ~Direct(t) /\ @ = tval[t] THEN None ELSE @]
    /\ base' = [base EXCEPT ![h] = IF fd[t] THEN tval[t] ELSE @]

PatchApplied(t) ==
    /\ tpc[t] = "patch"
    /\ Len(log) < MaxVersions
    /\ log' = Append(log, tval[t])
    /\ Saved(t)
    /\ Goto(t, "patched")
    /\ UNCHANGED <<lockVars, viewVars, handleVars, fd, op, tsnap, tval, tlease,
                   writes, flushed>>

(* ... refused (too large, forbidden, unreachable), or its answer lost ...  *)
PatchFails(t) ==
    /\ PatchMayFail
    /\ tpc[t] \in {"patch", "patched"}
    /\ CommitFailed(t)

(* Snapshot.With: the result has no ResourceVersion of its own. *)
DerivedVersioned(v, value) == [rv |-> cache[v].rv + 1, val |-> value]
Derived(v, value) == [rv |-> 0, val |-> value]

(* ... and the derived Snapshot that keeps our own write visible locally. *)
PatchSet(t) ==
    /\ tpc[t] = "patched"
    /\ Set(V(t), Derived(V(t), tval[t]))
    /\ Goto(t, "clean")
    /\ UNCHANGED <<log, lockVars, loopVars, handleVars, fd, op, tsnap, tval,
                   tlease, ghostVars>>

(* commit clears dirty under h.mu, taken a second time. *)
CommitClean(t) ==
    LET h == HandleOf[t] IN
    /\ tpc[t] = "clean"
    /\ dirty' = [dirty EXCEPT ![h] = Direct(t) /\ @]
    /\ flushed' = [flushed EXCEPT ![h] = @ \/ op[t] = "close"]
    /\ Goto(t, AfterCommit(op[t]))
    /\ tval' = [tval EXCEPT ![t] = None]
    /\ tlease' = [tlease EXCEPT ![t] = None]
    /\ tsnap' = [tsnap EXCEPT ![t] = NoSnap]
    /\ UNCHANGED <<log, lockVars, viewVars, buf, lease, fd, op, writes,
                   unsaved, base>>

----------------------------------------------------------------------------
(* After the commit *)

(* unlock and Release detach the lease from the handle; LeaseManager.Release *)
(* makes it unhealthy before it talks to the server.                         *)
DropLease(t) ==
    LET h == HandleOf[t] IN
    /\ tpc[t] = "drop"
    /\ lease' = [lease EXCEPT ![h] = None]
    /\ IF lease[h] = None
       THEN Goto(t, "return") /\ UNCHANGED <<managerVars, tlease>>
       ELSE /\ Goto(t, "release")
            /\ running' = [running EXCEPT ![lease[h]] = FALSE]
            /\ healthy' = [healthy EXCEPT ![lease[h]] = FALSE]
            /\ tlease' = [tlease EXCEPT ![t] = lease[h]]
    /\ UNCHANGED <<log, owner, viewVars, buf, dirty, fd, op, tsnap, tval,
                   ghostVars>>

(* LeaseManager.Release clears the holder if it is still ours; its errors   *)
(* are ignored and leave the Lease to expire.                               *)
ReleaseLease(t) ==
    /\ tpc[t] = "release"
    /\ owner' \in IF owner = tlease[t] THEN {None, owner} ELSE {owner}
    /\ Goto(t, "return")
    /\ tlease' = [tlease EXCEPT ![t] = None]
    /\ UNCHANGED <<log, managerVars, viewVars, handleVars, fd, op, tsnap, tval,
                   ghostVars>>

(* The call returns.  A close(2) has given up its descriptor by then; if it *)
(* was the last one, the kernel sends RELEASE, which commits once more.     *)
Return(t) ==
    LET h == HandleOf[t]
        last == \A u \in Thread : HandleOf[u] = h /\ fd[u] => u = t
    IN
    /\ tpc[t] = "return"
    /\ fd' = [fd EXCEPT ![t] = op[t] \notin {"close", "last"} /\ @]
    /\ IF op[t] = "close" /\ last
       THEN /\ op' = [op EXCEPT ![t] = "last"]
            /\ Goto(t, IF dirty[h] THEN "fence" ELSE "drop")
            /\ tval' = [tval EXCEPT ![t] = IF dirty[h] THEN buf[h] ELSE None]
            /\ tlease' = [tlease EXCEPT ![t] = Fence(h)]
            /\ UNCHANGED <<buf, dirty, base>>
       ELSE /\ op' = [op EXCEPT ![t] = None]
            /\ Goto(t, "idle")
            /\ buf' = [buf EXCEPT ![h] = IF op[t] = "last" THEN None ELSE @]
            /\ dirty' = [dirty EXCEPT ![h] = op[t] # "last" /\ @]
            /\ base' = [base EXCEPT ![h] = IF op[t] = "last" THEN None ELSE @]
            /\ UNCHANGED <<tval, tlease>>
    /\ UNCHANGED <<log, lockVars, viewVars, lease, tsnap, writes, unsaved,
                   flushed>>

----------------------------------------------------------------------------
(* The Lease, as module Lease promises it *)

RenewalFails(t) ==
    /\ LeaseMayFail
    /\ healthy[t]
    /\ healthy' = [healthy EXCEPT ![t] = FALSE]
    /\ UNCHANGED <<log, owner, running, viewVars, handleVars, fd, callVars,
                   ghostVars>>

RenewalRecovers(t) ==
    /\ running[t] /\ ~healthy[t] /\ owner = t
    /\ healthy' = [healthy EXCEPT ![t] = TRUE]
    /\ UNCHANGED <<log, owner, running, viewVars, handleVars, fd, callVars,
                   ghostVars>>

(* A Lease whose manager has stopped renewing it runs out. *)
Expire ==
    /\ owner # None
    /\ ~healthy[owner]
    /\ owner' = None
    /\ UNCHANGED <<log, managerVars, viewVars, handleVars, fd, callVars,
                   ghostVars>>

----------------------------------------------------------------------------
LoopStep(v) ==
    \/ LoopGet(v)
    \/ LoopSet(v)
    \/ WatchEvent(v)
    \/ WatchStore(v)

OpenStep(t) ==
    \/ OpenCached(t)
    \/ OpenStale(t)
    \/ OpenGet(t)
    \/ OpenFresh(t)
    \/ OpenServesStale(t)
    \/ Write(t)

LockStep(t) ==
    \/ SetlkBegin(t)
    \/ SetlkAcquired(t)
    \/ SetlkGivesUp(t)
    \/ SetlkGet(t)
    \/ SetlkSet(t)
    \/ SetlkPin(t)
    \/ SetlkReadFails(t)

CommitStep(t) ==
    \/ Flush(t)
    \/ Close(t)
    \/ Unlock(t)
    \/ Unlink(t)
    \/ FencePasses(t)
    \/ FenceRefuses(t)
    \/ PatchApplied(t)
    \/ PatchFails(t)
    \/ PatchSet(t)
    \/ CommitClean(t)
    \/ DropLease(t)
    \/ ReleaseLease(t)
    \/ Return(t)

Next ==
    \/ \E v \in Volume : Age(v) \/ LoopStep(v) \/ WatchEnds(v)
    \/ \E t \in Thread : OpenStep(t) \/ LockStep(t) \/ CommitStep(t)
    \/ \E t \in Thread : RenewalFails(t) \/ RenewalRecovers(t)
    \/ Expire
    \/ Edit

Spec == Init /\ [][Next]_vars

----------------------------------------------------------------------------
Snap == [rv : 0..MaxVersions, val : Value \cup {None}]

(* Type invariant. *)
TypeOK ==
    /\ log \in Seq(Value \cup {None}) /\ Len(log) \in 1..MaxVersions
    /\ owner \in Thread \cup {None}
    /\ running \in [Thread -> BOOLEAN]
    /\ healthy \in [Thread -> BOOLEAN]
    /\ cache \in [Volume -> Snap]
    /\ stale \in [Volume -> BOOLEAN]
    /\ lpc \in [Volume -> {"get", "got", "watch", "store"}]
    /\ lsnap \in [Volume -> Snap]
    /\ pos \in [Volume -> 0..MaxVersions]
    /\ buf \in [Handle -> Value \cup {None}]
    /\ dirty \in [Handle -> BOOLEAN]
    /\ lease \in [Handle -> Thread \cup {None}]
    /\ fd \in [Thread -> BOOLEAN]
    /\ tpc \in [Thread -> {"idle", "oget", "ogot", "acquire", "fget", "fgot",
                           "pin", "fence", "patch", "patched", "clean",
                           "drop", "release", "return"}]
    /\ op \in [Thread -> Calls \cup {None}]
    /\ tsnap \in [Thread -> Snap]
    /\ tval \in [Thread -> Value \cup {None}]
    /\ tlease \in [Thread -> Thread \cup {None}]
    /\ writes \in Value
    /\ unsaved \in [Handle -> Value \cup {None}]
    /\ flushed \in [Handle -> BOOLEAN]
    /\ base \in [Handle -> Value \cup {None}]

(* The key's value now. *)
Latest == log[Len(log)]

(* h holds the flock, its fence passes, and it has nothing unwritten. *)
LockedClean(h) ==
    /\ lease[h] # None
    /\ healthy[lease[h]]
    /\ ~dirty[h]

(* The promise of the mandatory quorum read: a handle that holds the lock   *)
(* reads what the server has, for as long as it holds it, if all writers    *)
(* take the lock.                                                           *)
FreshUnderLock == \A h \in Handle : LockedClean(h) => buf[h] = Latest

(* Every patch reaches the server while the handle that sent it still owns  *)
(* the lock it wrote under: commit comes before release, always.            *)
CommitUnderLock ==
    [][\A t \in Thread :
         PatchApplied(t) => tlease[t] # None /\ tlease[t] = owner]_vars

(* What the call t is in last knew of the key. *)
Known(t) == IF op[t] = "modify" THEN tsnap[t].val ELSE base[HandleOf[t]]

(* Whoever commits while holding the lock replaces a value it has seen: the *)
(* one its handle read under the lock or wrote itself, or the one a rename  *)
(* or truncate started from.  Nothing that another mount committed is       *)
(* overwritten unread.                                                      *)
NoLostUpdate ==
    [][\A t \in Thread :
         PatchApplied(t) /\ lease[HandleOf[t]] # None /\ op[t] # "unlink"
           => Known(t) = Latest]_vars

(* A close(2) that returned 0 on a handle that is then gone left nothing    *)
(* behind in its buffer.                                                    *)
NoSilentLoss ==
    \A h \in Handle :
      (\A t \in Thread : HandleOf[t] = h => Idle(t) /\ ~fd[t])
        => (flushed[h] => unsaved[h] = None)

(* Every Lease that is being renewed belongs to a call still in setlk or to *)
(* the handle that will release it: none is renewed for ever by nobody.     *)
NoLeakedLease ==
    \A t \in Thread :
      running[t] =>
        lease[HandleOf[t]] = t \/ tpc[t] \in {"fget", "fgot", "pin"}

(* A volume that is the only writer finds its own last commit in its cache  *)
(* whenever none of its calls is under way.                                 *)
OwnWritesVisible ==
    (\A t \in Thread : Idle(t)) => \A v \in Volume : cache[v].val = Latest

(* The Snapshot that the lock's quorum read installed is what the next open *)
(* on the same mount is served: nothing older replaces it in the cache.     *)
LockReadKept ==
    \A t \in Thread : tpc[t] = "pin" => cache[V(t)].val = Latest

(* Calls in progress return, watches deliver, time passes, consumers keep   *)
(* looking the file up, and a refresh does not fail every time.             *)
Fairness ==
    /\ \A v \in Volume : WF_vars(LoopStep(v)) /\ WF_vars(Age(v))
    /\ \A t \in Thread :
         WF_vars(~Idle(t) /\ (OpenStep(t) \/ LockStep(t) \/ CommitStep(t)))
    /\ \A v \in Volume :
         /\ SF_vars(\E t \in Thread : V(t) = v /\ OpenStale(t))
         /\ SF_vars(\E t \in Thread : V(t) = v /\ OpenGet(t))

FairSpec == Spec /\ Fairness

(* Once the writing stops, every mount's cache settles on the object's      *)
(* final value, whatever was installed out of order on the way.             *)
CacheConverges ==
    <>[](\A v \in Volume : cache[v].val = Latest)
=============================================================================
