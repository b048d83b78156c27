---------------------------- MODULE PathProofs ----------------------------
(***************************************************************************)
(* DataPath's safety properties for every set of volumes, handles and      *)
(* threads, every number of writes and versions: LeakInv and LossInv need  *)
(* only that no open file description is shared (OneUser); LockedInv needs *)
(* the applications and the server to be Cooperative, SeenInv also that    *)
(* nobody creates a file (Existing).                                       *)
(***************************************************************************)
EXTENDS PathInv, TLAPS

----------------------------------------------------------------------------
(* Types *)

(* What a quorum read answers and what a watch event carries are Snapshots  *)
(* (snapshot.go).                                                           *)
LEMMA Snapshots ==
    ASSUME TypeOK
    PROVE  /\ Object \in Snap /\ NoSnap \in Snap
           /\ Latest \in Value \cup {None}
           /\ Object.val = Latest
           /\ \A n \in 1..Len(log) : Event(n) \in Snap
<1>1. \A n \in 1..Len(log) : log[n] \in Value \cup {None}
  BY DEF TypeOK
<1>2. Len(log) \in 1..Len(log) /\ Len(log) \in 0..MaxVersions
  BY PathAssumption DEF TypeOK
<1>3. \A n \in 1..Len(log) : n \in 0..MaxVersions
  BY <1>2, PathAssumption DEF TypeOK
<1>4. 0 \in 0..MaxVersions
  BY PathAssumption
<1> QED
  BY <1>1, <1>2, <1>3, <1>4 DEF Object, NoSnap, Snap, Event, Latest

(* Every thread has a handle, and every handle a volume (volume.go). *)
LEMMA Places ==
    \A t \in Thread : HandleOf[t] \in Handle /\ V(t) \in Volume
BY PathAssumption DEF V

(* The cache and the watch loop (cache.go). *)
LEMMA LoopType ==
    ASSUME TypeOK, NEW v \in Volume, Age(v) \/ LoopStep(v) \/ WatchEnds(v)
    PROVE  TypeOK'
<1> USE Snapshots
<1>0. CASE Age(v)
  BY <1>0 DEF Age, TypeOK, lockVars, managerVars, loopVars, handleVars,
     callVars, ghostVars
<1>1. CASE WatchEnds(v)
  <2>1. 0 \in 0..MaxVersions
    BY PathAssumption
  <2> QED
    BY <1>1, <2>1 DEF WatchEnds, TypeOK, lockVars, managerVars, cacheVars,
       handleVars, callVars, ghostVars
<1>2. CASE LoopGet(v)
  BY <1>2 DEF LoopGet, TypeOK, lockVars, managerVars, cacheVars, loopVars,
     handleVars, callVars, ghostVars
<1>3. CASE LoopSet(v)
  <2>1. lsnap[v].rv \in 0..MaxVersions
    BY DEF TypeOK, Snap
  <2> QED
    BY <1>3, <2>1 DEF LoopSet, Set, TypeOK, lockVars, managerVars, cacheVars,
       loopVars, handleVars, callVars, ghostVars
<1>4. CASE WatchEvent(v)
  <2>1. pos[v] + 1 \in 1..Len(log) /\ pos[v] + 1 \in 0..MaxVersions
    BY <1>4, PathAssumption DEF WatchEvent, TypeOK
  <2>2. Event(pos[v] + 1) \in Snap
    BY <2>1
  <2> QED
    BY <1>4, <2>1, <2>2 DEF WatchEvent, TypeOK, lockVars, managerVars,
       cacheVars, loopVars, handleVars, callVars, ghostVars
<1>5. CASE WatchStore(v)
  BY <1>5 DEF WatchStore, Set, TypeOK, lockVars, managerVars, cacheVars,
     loopVars, handleVars, callVars, ghostVars
<1> QED
  BY <1>0, <1>1, <1>2, <1>3, <1>4, <1>5 DEF LoopStep

(* Lookup, Getattr, File.Open, Root.Create, truncate(2) and Rename, on the  *)
(* Snapshot that MaybeFresh served (fs.go).                                 *)
LEMMA ResolveType ==
    ASSUME TypeOK, NEW t \in Thread, NEW snap \in Snap, Resolve(t, snap),
           cache' \in [Volume -> Snap], stale' \in [Volume -> BOOLEAN]
    PROVE  TypeOK'
<1> DEFINE h == HandleOf[t]
<1>0. h \in Handle /\ snap.val \in Value \cup {None} /\ NoSnap \in Snap
  BY Places, Snapshots DEF Snap
<1>1. tsnap' \in [Thread -> Snap]
  BY <1>0 DEF Resolve, TypeOK
<1>2. writes < MaxWrites => writes + 1 \in Value
  BY PathAssumption DEF Value, TypeOK
<1>3. CASE Stat(t)
  BY <1>1, <1>3 DEF Resolve, Stat, Goto, TypeOK, lockVars, managerVars,
     loopVars, handleVars, ghostVars
<1>4. CASE Open(t, snap)
  <2>1. CASE NewHandle(t, snap.val, snap.val, FALSE) /\ UNCHANGED writes
    BY <1>0, <1>1, <1>4, <2>1 DEF Resolve, Open, NewHandle, Goto, TypeOK,
       lockVars, managerVars, loopVars
  <2>2. CASE NextValue /\ NewHandle(t, snap.val, writes + 1, TRUE)
    BY <1>0, <1>1, <1>2, <1>4, <2>2 DEF Resolve, Open, NewHandle, NextValue,
       Goto, TypeOK, lockVars, managerVars, loopVars
  <2> QED
    BY <1>4, <2>1, <2>2 DEF Open
<1>5. CASE Create(t, snap)
  BY <1>0, <1>1, <1>2, <1>5 DEF Resolve, Create, NewHandle, NextValue, Goto,
     TypeOK, lockVars, managerVars, loopVars
<1>6. CASE Modify(t, snap)
  <2>1. writes' \in Value /\ writes + 1 \in Value
    BY <1>2, <1>6 DEF Modify, NextValue
  <2>2. tval' \in [Thread -> Value \cup {None}]
    BY <1>6, <2>1 DEF Modify, TypeOK
  <2>3. tpc' = [tpc EXCEPT ![t] = "fence"] /\ op' = [op EXCEPT ![t] = "modify"]
    BY <1>6 DEF Modify, Goto
  <2> QED
    BY <1>1, <1>6, <2>1, <2>2, <2>3 DEF Calls, Resolve, Modify, TypeOK,
       lockVars, managerVars, loopVars, handleVars
<1> QED
  BY <1>3, <1>4, <1>5, <1>6 DEF Resolve

(* The calls on the path, and writes (fs.go, handle.go). *)
LEMMA OpenType ==
    ASSUME TypeOK, NEW t \in Thread, OpenStep(t)
    PROVE  TypeOK'
<1>0. /\ HandleOf[t] \in Handle /\ V(t) \in Volume
      /\ cache[V(t)] \in Snap /\ tsnap[t] \in Snap
      /\ Object \in Snap
  BY Places, Snapshots DEF TypeOK
<1>1. CASE OpenCached(t)
  BY <1>0, <1>1, ResolveType DEF OpenCached, cacheVars, TypeOK
<1>2. CASE OpenStale(t)
  BY <1>0, <1>2 DEF OpenStale, Goto, TypeOK, lockVars, managerVars, viewVars,
     cacheVars, loopVars, handleVars, ghostVars
<1>7. CASE OpenGet(t)
  BY <1>0, <1>7 DEF OpenGet, Goto, TypeOK, lockVars, managerVars, viewVars,
     cacheVars, loopVars, handleVars, ghostVars
<1>3. CASE OpenFresh(t)
  BY <1>0, <1>3, ResolveType DEF OpenFresh, Set, TypeOK
<1>4. CASE OpenServesStale(t)
  BY <1>0, <1>4, ResolveType DEF OpenServesStale, cacheVars, TypeOK
<1>5. CASE Write(t)
  <2>1. writes + 1 \in Value
    BY <1>5, PathAssumption DEF Write, NextValue, Value, TypeOK
  <2> QED
    BY <1>0, <1>5, <2>1 DEF Write, NextValue, TypeOK, lockVars, managerVars,
       viewVars, cacheVars, loopVars, callVars
<1> QED
  BY <1>1, <1>2, <1>3, <1>4, <1>5, <1>7 DEF OpenStep

(* setlk (handle.go). *)
LEMMA LockType ==
    ASSUME TypeOK, NEW t \in Thread, LockStep(t)
    PROVE  TypeOK'
<1>0. /\ HandleOf[t] \in Handle /\ V(t) \in Volume
      /\ tsnap[t] \in Snap /\ tsnap[t].val \in Value \cup {None}
      /\ Object \in Snap /\ NoSnap \in Snap
  BY Places, Snapshots DEF TypeOK, Snap
<1>1. CASE SetlkBegin(t) \/ SetlkGivesUp(t)
  BY <1>1 DEF SetlkBegin, SetlkGivesUp, Goto, TypeOK, lockVars, managerVars,
     viewVars, cacheVars, loopVars, handleVars, ghostVars
<1>2. CASE SetlkAcquired(t)
  BY <1>2 DEF SetlkAcquired, Goto, TypeOK, viewVars, cacheVars, loopVars,
     handleVars, ghostVars
<1>3. CASE SetlkGet(t)
  BY <1>0, <1>3 DEF SetlkGet, Goto, TypeOK, lockVars, managerVars, viewVars,
     cacheVars, loopVars, handleVars, ghostVars
<1>4. CASE SetlkSet(t)
  BY <1>0, <1>4 DEF SetlkSet, Set, Goto, TypeOK, lockVars, managerVars,
     loopVars, handleVars, ghostVars
<1>5. CASE SetlkPin(t)
  BY <1>0, <1>5 DEF SetlkPin, Pinned, Goto, TypeOK, lockVars, managerVars,
     viewVars, cacheVars, loopVars
<1>6. CASE SetlkReadFails(t)
  BY <1>6 DEF Calls, SetlkReadFails, Goto, TypeOK, viewVars, cacheVars,
     loopVars, handleVars, ghostVars
<1> QED
  BY <1>1, <1>2, <1>3, <1>4, <1>5, <1>6 DEF LockStep

(* Return's two outcomes: the close(2) of the last descriptor goes on to    *)
(* Release (LastReturn), any other call ends (OtherReturn).                 *)
LastReturn(t) ==
    LET h == HandleOf[t] IN
    /\ op[t] = "close"
    /\ fd' = [fd EXCEPT ![t] = FALSE]
    /\ op' = [op EXCEPT ![t] = "last"]
    /\ Goto(t, IF dirty[h] THEN "fence" ELSE "drop")
    /\ tval' = [tval EXCEPT ![t] = IF dirty[h] THEN buf[h] ELSE None]
    /\ tlease' = [tlease EXCEPT ![t] = Fence(h)]
    /\ UNCHANGED <<buf, dirty, base>>

OtherReturn(t) ==
    LET h == HandleOf[t] IN
    /\ fd' = [fd EXCEPT ![t] = op[t] \notin {"close", "last"} /\ @]
    /\ op' = [op EXCEPT ![t] = None]
    /\ Goto(t, "idle")
    /\ buf' = [buf EXCEPT ![h] = IF op[t] = "last" THEN None ELSE @]
    /\ dirty' = [dirty EXCEPT ![h] = op[t] # "last" /\ @]
    /\ base' = [base EXCEPT ![h] = IF op[t] = "last" THEN None ELSE @]
    /\ UNCHANGED <<tval, tlease>>

LEMMA ReturnCases ==
    ASSUME NEW t \in Thread, Return(t)
    PROVE  /\ tpc[t] = "return"
           /\ UNCHANGED <<log, lockVars, viewVars, lease, tsnap, writes,
                          unsaved, flushed>>
           /\ LastReturn(t) \/ OtherReturn(t)
           /\ OneUser => (op[t] = "close" => LastReturn(t))
<1>1. (op[t] \notin {"close", "last"} /\ fd[t]) = FALSE \/ op[t] # "close"
  OBVIOUS
<1> DEFINE last == \A u \in Thread : HandleOf[u] = HandleOf[t] /\ fd[u] => u = t
<1>2. OneUser => last
  BY DEF OneUser
<1> HIDE DEF last
<1>3. CASE op[t] = "close" /\ last
  BY <1>1, <1>3 DEF Return, LastReturn, last
<1>4. CASE ~(op[t] = "close" /\ last)
  BY <1>2, <1>4 DEF Return, OtherReturn, last
<1> QED
  BY <1>3, <1>4

LEMMA LastReturnType ==
    ASSUME TypeOK, NEW t \in Thread, LastReturn(t),
           UNCHANGED <<log, lockVars, viewVars, lease, tsnap, writes, unsaved,
                       flushed>>
    PROVE  TypeOK'
<1>1. HandleOf[t] \in Handle /\ Fence(HandleOf[t]) \in Thread \cup {None}
  BY Places DEF TypeOK, Fence
<1> QED
  BY <1>1 DEF Calls, LastReturn, Goto, TypeOK, lockVars, managerVars, viewVars,
     cacheVars, loopVars

LEMMA OtherReturnType ==
    ASSUME TypeOK, NEW t \in Thread, OtherReturn(t),
           UNCHANGED <<log, lockVars, viewVars, lease, tsnap, writes, unsaved,
                       flushed>>
    PROVE  TypeOK'
BY Places DEF OtherReturn, Goto, TypeOK, lockVars, managerVars, viewVars,
   cacheVars, loopVars

(* commit, the Committer's fence, Patch and Set, and what follows them      *)
(* (handle.go, commit.go).                                                  *)
LEMMA CommitType ==
    ASSUME TypeOK, NEW t \in Thread, CommitStep(t)
    PROVE  TypeOK'
<1> DEFINE h == HandleOf[t]
<1>0. /\ h \in Handle /\ V(t) \in Volume
      /\ tval[t] \in Value \cup {None} /\ buf[h] \in Value \cup {None}
      /\ lease[h] \in Thread \cup {None}
      /\ NoSnap \in Snap
      /\ \A o : AfterCommit(o) \in {"drop", "return"}
      /\ Fence(h) \in Thread \cup {None}
  BY Places, Snapshots DEF TypeOK, AfterCommit, Fence
<1>1. ASSUME NEW o \in {"flush", "close", "unlock"}, Commit(t, o)
      PROVE  TypeOK'
  BY <1>0, <1>1 DEF Calls, Commit, Goto, TypeOK, lockVars, managerVars,
     viewVars, cacheVars, loopVars, handleVars
<1>2. CASE Flush(t) \/ Close(t) \/ Unlock(t)
  BY <1>1, <1>2 DEF Flush, Close, Unlock
<1>3. CASE Unlink(t)
  <2>1. writes + 1 \in Value
    BY <1>3, PathAssumption DEF Unlink, NextValue, Value, TypeOK
  <2> QED
    BY <1>3, <2>1 DEF Calls, Unlink, NextValue, Goto, TypeOK, lockVars,
       managerVars, viewVars, cacheVars, loopVars, handleVars
<1>4. CASE FencePasses(t)
  BY <1>4 DEF FencePasses, Goto, TypeOK, lockVars, managerVars, viewVars,
     cacheVars, loopVars, handleVars, ghostVars
<1>5. CASE FenceRefuses(t) \/ PatchFails(t)
  <2>1. CommitFailed(t)
    BY <1>5 DEF FenceRefuses, PatchFails
  <2> QED
    BY <1>0, <2>1 DEF CommitFailed, Goto, TypeOK, lockVars, managerVars,
       viewVars, cacheVars, loopVars, handleVars, ghostVars
<1>6. CASE PatchApplied(t)
  <2>1. log' \in Seq(Value \cup {None}) /\ Len(log') \in 1..MaxVersions
    BY <1>0, <1>6, PathAssumption DEF PatchApplied, TypeOK
  <2> QED
    BY <1>0, <1>6, <2>1 DEF PatchApplied, Saved, Goto, TypeOK, lockVars,
       managerVars, viewVars, cacheVars, loopVars, handleVars
<1>7. CASE PatchSet(t)
  <2>1. Derived(V(t), tval[t]) \in Snap
    BY <1>0, PathAssumption DEF Derived, Snap
  <2> QED
    BY <1>0, <1>7, <2>1 DEF PatchSet, Set, Goto, TypeOK, lockVars,
       managerVars, loopVars, handleVars, ghostVars
<1>8. CASE CommitClean(t)
  BY <1>0, <1>8 DEF CommitClean, Goto, TypeOK, lockVars, managerVars,
     viewVars, cacheVars, loopVars
<1>9. CASE DropLease(t)
  BY <1>0, <1>9 DEF DropLease, Goto, TypeOK, managerVars, viewVars, cacheVars,
     loopVars, ghostVars
<1>10. CASE ReleaseLease(t)
  BY <1>0, <1>10 DEF ReleaseLease, Goto, TypeOK, managerVars, viewVars,
     cacheVars, loopVars, handleVars, ghostVars
<1>11. CASE Return(t)
  BY <1>11, ReturnCases, LastReturnType, OtherReturnType
<1> QED
  BY <1>2, <1>3, <1>4, <1>5, <1>6, <1>7, <1>8, <1>9, <1>10, <1>11
     DEF CommitStep

(* Every step keeps the types. *)
LEMMA TypeStep == TypeOK /\ [Next]_vars => TypeOK'
<1> SUFFICES ASSUME TypeOK, [Next]_vars PROVE TypeOK'
  OBVIOUS
<1>1. ASSUME NEW t \in Thread, RenewalFails(t) \/ RenewalRecovers(t)
      PROVE  TypeOK'
  BY <1>1 DEF RenewalFails, RenewalRecovers, TypeOK, viewVars, cacheVars,
     loopVars, handleVars, callVars, ghostVars
<1>2. CASE Expire
  BY <1>2 DEF Expire, TypeOK, managerVars, viewVars, cacheVars, loopVars,
     handleVars, callVars, ghostVars
<1>3. CASE Edit
  <2>0. PICK value \in (0..writes + 1) \cup {None} : log' = Append(log, value)
    BY <1>3 DEF Edit
  <2>1. /\ value \in Value \cup {None}
        /\ writes + 1 \in Value /\ Len(log) + 1 \in 1..MaxVersions
    BY <1>3, PathAssumption DEF Edit, Value, TypeOK
  <2>2. log' \in Seq(Value \cup {None}) /\ Len(log') = Len(log) + 1
    BY <2>0, <2>1 DEF TypeOK
  <2> QED
    BY <1>3, <2>1, <2>2 DEF Edit, TypeOK, lockVars, managerVars, viewVars,
       cacheVars, loopVars, handleVars, callVars
<1>4. CASE UNCHANGED vars
  BY <1>4 DEF vars, TypeOK, lockVars, managerVars, viewVars, cacheVars,
     loopVars, handleVars, callVars, ghostVars
<1> QED
  BY <1>1, <1>2, <1>3, <1>4, LoopType, OpenType, LockType, CommitType DEF Next

(* Every variable keeps its type whatever the applications, the server and  *)
(* the watch do: no version a cache, a watch or a commit handles (cache.go, *)
(* commit.go) is one the object never had.                                  *)
THEOREM PathTypeCorrect == Spec => []TypeOK
<1>1. Init => TypeOK
  BY PathAssumption DEF Init, TypeOK, NoSnap, Snap, Value
<1> QED
  BY <1>1, TypeStep, PTL DEF Spec

----------------------------------------------------------------------------
(* One thread at a time *)

(* Nothing of what the call u is in, its manager or its handle changes. *)
Still(u) ==
    LET h == HandleOf[u] IN
    /\ tpc'[u] = tpc[u] /\ op'[u] = op[u] /\ fd'[u] = fd[u]
    /\ tsnap'[u] = tsnap[u] /\ tval'[u] = tval[u] /\ tlease'[u] = tlease[u]
    /\ running'[u] = running[u] /\ healthy'[u] = healthy[u]
    /\ buf'[h] = buf[h] /\ dirty'[h] = dirty[h] /\ lease'[h] = lease[h]
    /\ unsaved'[h] = unsaved[h] /\ flushed'[h] = flushed[h]
    /\ base'[h] = base[h]

(* The watch loops, the Lease's expiry and other writers touch no call. *)
LEMMA BackgroundStill ==
    ASSUME \/ \E v \in Volume : Age(v) \/ LoopStep(v) \/ WatchEnds(v)
           \/ Expire
           \/ Edit
           \/ UNCHANGED vars
    PROVE  \A u \in Thread : Still(u)
<1>1. UNCHANGED <<managerVars, handleVars, fd, callVars, unsaved, flushed,
                  base>>
  BY DEF Age, LoopStep, LoopGet, LoopSet, WatchEvent, WatchStore, WatchEnds,
     Expire, Edit, vars, lockVars, ghostVars
<1> QED
  BY <1>1 DEF Still, managerVars, handleVars, callVars

(* newHandle touches only the handle of its thread. *)
LEMMA NewHandleStill ==
    ASSUME TypeOK, NEW t \in Thread, NEW h \in Handle, h # HandleOf[t],
           NEW seen, NEW value, NEW isDirty,
           NewHandle(t, seen, value, isDirty)
    PROVE  /\ buf'[h] = buf[h] /\ dirty'[h] = dirty[h] /\ lease'[h] = lease[h]
           /\ unsaved'[h] = unsaved[h] /\ flushed'[h] = flushed[h]
           /\ base'[h] = base[h]
           /\ \A u \in Thread : HandleOf[u] = h => fd'[u] = fd[u]
BY DEF NewHandle, TypeOK

LEMMA OpenStill ==
    ASSUME OneUser, TypeOK, NEW t \in Thread, OpenStep(t),
           NEW u \in Thread, u # t
    PROVE  Still(u)
<1>1. HandleOf[u] # HandleOf[t] /\ HandleOf[u] \in Handle
  BY Places DEF OneUser
<1>2. ASSUME NEW snap, Resolve(t, snap) PROVE Still(u)
  <2>0. tsnap'[u] = tsnap[u] /\ tlease'[u] = tlease[u] /\ UNCHANGED lockVars
    BY <1>2 DEF Resolve, TypeOK
  <2>1. CASE Stat(t)
    BY <2>0, <2>1 DEF Stat, Goto, Still, TypeOK, lockVars, managerVars,
       handleVars, ghostVars
  <2>3. CASE Modify(t, snap)
    <3>1. tval'[u] = tval[u]
      BY <2>3 DEF Modify, TypeOK
    <3> QED
      BY <2>0, <2>3, <3>1 DEF Modify, Goto, Still, TypeOK, lockVars,
         managerVars, handleVars
  <2>2. CASE Open(t, snap) \/ Create(t, snap)
    <3>1. PICK seen, value, isDirty : NewHandle(t, seen, value, isDirty)
      BY <2>2 DEF Open, Create
    <3>2. UNCHANGED <<op, tval>> /\ Goto(t, "idle")
      BY <2>2 DEF Open, Create
    <3> QED
      BY <1>1, <2>0, <3>1, <3>2, NewHandleStill DEF Goto, Still, TypeOK,
         lockVars, managerVars
  <2> QED
    BY <1>2, <2>1, <2>2, <2>3 DEF Resolve
<1>3. CASE OpenCached(t) \/ OpenFresh(t) \/ OpenServesStale(t)
  BY <1>2, <1>3 DEF OpenCached, OpenFresh, OpenServesStale
<1>4. CASE OpenStale(t) \/ OpenGet(t)
  BY <1>4 DEF OpenStale, OpenGet, Goto, Still, TypeOK, lockVars, managerVars,
     handleVars, ghostVars
<1>5. CASE Write(t)
  BY <1>1, <1>5 DEF Write, NextValue, Still, TypeOK, lockVars, managerVars,
     callVars
<1> QED
  BY <1>3, <1>4, <1>5 DEF OpenStep

LEMMA LockStill ==
    ASSUME OneUser, TypeOK, NEW t \in Thread, LockStep(t),
           NEW u \in Thread, u # t
    PROVE  Still(u)
<1>1. HandleOf[u] # HandleOf[t] /\ HandleOf[u] \in Handle
  BY Places DEF OneUser
<1>2. CASE SetlkBegin(t) \/ SetlkGivesUp(t) \/ SetlkGet(t) \/ SetlkSet(t)
  BY <1>2 DEF SetlkBegin, SetlkGivesUp, SetlkGet, SetlkSet, Goto, Still,
     TypeOK, lockVars, managerVars, handleVars, ghostVars
<1>3. CASE SetlkAcquired(t) \/ SetlkReadFails(t)
  BY <1>3 DEF SetlkAcquired, SetlkReadFails, Goto, Still, TypeOK, handleVars,
     ghostVars
<1>4. CASE SetlkPin(t)
  BY <1>1, <1>4 DEF SetlkPin, Goto, Still, TypeOK, lockVars, managerVars
<1> QED
  BY <1>2, <1>3, <1>4 DEF LockStep

LEMMA CommitStill ==
    ASSUME OneUser, TypeOK, NEW t \in Thread, Dropped(t), CommitStep(t),
           NEW u \in Thread, u # t
    PROVE  Still(u)
<1>1. HandleOf[u] # HandleOf[t] /\ HandleOf[u] \in Handle
  BY Places DEF OneUser
<1>2. CASE Flush(t) \/ Close(t) \/ Unlock(t)
  <2>1. PICK o : Commit(t, o)
    BY <1>2 DEF Flush, Close, Unlock
  <2> QED
    BY <1>1, <2>1 DEF Commit, Goto, Still, TypeOK, lockVars, managerVars,
       handleVars
<1>3. CASE Unlink(t)
  BY <1>3 DEF Unlink, Goto, Still, TypeOK, lockVars, managerVars, handleVars
<1>4. CASE FenceRefuses(t) \/ PatchFails(t)
  BY <1>4 DEF FenceRefuses, PatchFails, CommitFailed, Goto, Still, TypeOK,
     lockVars, managerVars, handleVars, ghostVars
<1>5. CASE FencePasses(t) \/ PatchSet(t)
  BY <1>5 DEF FencePasses, PatchSet, Goto, Still, TypeOK, lockVars,
     managerVars, handleVars, ghostVars
<1>6. CASE PatchApplied(t)
  BY <1>1, <1>6 DEF PatchApplied, Saved, Goto, Still, TypeOK, lockVars,
     managerVars, handleVars
<1>7. CASE CommitClean(t)
  BY <1>1, <1>7 DEF CommitClean, Goto, Still, TypeOK, lockVars, managerVars
<1>8. CASE DropLease(t)
  BY <1>1, <1>8 DEF DropLease, Dropped, Goto, Still, TypeOK, managerVars,
     ghostVars
<1>9. CASE ReleaseLease(t)
  BY <1>9 DEF ReleaseLease, Goto, Still, TypeOK, managerVars, handleVars,
     ghostVars
<1>10. CASE Return(t)
  BY <1>1, <1>10, ReturnCases DEF LastReturn, OtherReturn, Goto, Still,
     TypeOK, lockVars, managerVars
<1> QED
  BY <1>2, <1>3, <1>4, <1>5, <1>6, <1>7, <1>8, <1>9, <1>10 DEF CommitStep

----------------------------------------------------------------------------
(* No leaked lease *)

(* The part of LeakInv about one thread. *)
Leak(t) == Named(t) /\ Dropped(t) /\ Renewed(t)

LEMMA LeakStill ==
    ASSUME NEW u \in Thread, Leak(u), Still(u)
    PROVE  Leak(u)'
BY DEF Still, Leak, Named, Dropped, Renewed, Committing, Locking

LEMMA LeakOpen ==
    ASSUME OneUser, TypeOK, NEW t \in Thread, Leak(t), OpenStep(t)
    PROVE  Leak(t)'
<1>0. HandleOf[t] \in Handle
  BY Places
<1>1. ASSUME NEW snap, Resolve(t, snap), tpc[t] \in {"idle", "oget", "ogot"}
      PROVE  Leak(t)'
  <2>1. UNCHANGED running
    BY <1>1 DEF Resolve, lockVars, managerVars
  <2>2. CASE Stat(t)
    BY <1>1, <2>1, <2>2 DEF Stat, Goto, TypeOK, handleVars, Leak, Named,
       Dropped, Renewed, Committing, Locking
  <2>3. CASE Open(t, snap) \/ Create(t, snap)
    <3>1. PICK seen, value, isDirty : NewHandle(t, seen, value, isDirty)
      BY <2>3 DEF Open, Create
    <3>2. UNCHANGED op /\ Goto(t, "idle") /\ ~fd[t]
      BY <2>3 DEF Open, Create, CanOpen
    <3>3. lease[HandleOf[t]] = None /\ lease'[HandleOf[t]] = None
      BY <1>0, <1>1, <3>1, <3>2 DEF NewHandle, TypeOK, Leak, Dropped,
         Committing
    <3> QED
      BY <1>1, <2>1, <3>2, <3>3 DEF Goto, TypeOK, Leak, Named, Dropped,
         Renewed, Committing, Locking
  <2>4. CASE Modify(t, snap)
    <3>1. tpc'[t] = "fence" /\ op'[t] = "modify" /\ UNCHANGED <<lease, fd>>
      BY <2>4 DEF Modify, Goto, TypeOK, handleVars
    <3>2. "modify" # None
      BY PathAssumption DEF Calls
    <3> QED
      BY <1>1, <2>1, <3>1, <3>2 DEF Leak, Named, Dropped, Renewed,
         Committing, Locking
  <2> QED
    BY <1>1, <2>2, <2>3, <2>4 DEF Resolve
<1>2. CASE OpenCached(t) \/ OpenFresh(t) \/ OpenServesStale(t)
  BY <1>1, <1>2 DEF OpenCached, OpenFresh, OpenServesStale, Idle
<1>3. CASE OpenStale(t) \/ OpenGet(t)
  BY <1>3 DEF OpenStale, OpenGet, Idle, Goto, TypeOK, lockVars, managerVars,
     handleVars, Leak, Named, Dropped, Renewed, Committing, Locking
<1>5. CASE Write(t)
  BY <1>5 DEF Write, lockVars, managerVars, callVars, Leak, Named, Dropped,
     Renewed, Committing, Locking
<1> QED
  BY <1>2, <1>3, <1>5 DEF OpenStep

LEMMA LeakLock ==
    ASSUME TypeOK, NEW t \in Thread, Leak(t), LockStep(t)
    PROVE  Leak(t)'
<1>0. HandleOf[t] \in Handle /\ "setlk" # None
  BY Places, PathAssumption DEF Calls
<1>1. CASE SetlkBegin(t) \/ SetlkGivesUp(t)
  BY <1>1 DEF SetlkBegin, SetlkGivesUp, Idle, Goto, TypeOK, lockVars,
     managerVars, handleVars, Leak, Named, Dropped, Renewed, Committing,
     Locking
<1>2. CASE SetlkAcquired(t)
  BY <1>2 DEF SetlkAcquired, Goto, TypeOK, handleVars, Leak, Named, Dropped,
     Renewed, Committing, Locking
<1>3. CASE SetlkGet(t) \/ SetlkSet(t)
  BY <1>3 DEF SetlkGet, SetlkSet, Goto, TypeOK, lockVars, managerVars,
     handleVars, Leak, Named, Dropped, Renewed, Committing, Locking
<1>4. CASE SetlkPin(t)
  BY <1>0, <1>4 DEF SetlkPin, Goto, TypeOK, lockVars, managerVars, Leak,
     Named, Dropped, Renewed, Committing, Locking
<1>5. CASE SetlkReadFails(t)
  BY <1>0, <1>5 DEF SetlkReadFails, Goto, TypeOK, handleVars, Leak, Named,
     Dropped, Renewed, Committing, Locking
<1> QED
  BY <1>1, <1>2, <1>3, <1>4, <1>5 DEF LockStep

LEMMA LeakCommit ==
    ASSUME OneUser, TypeOK, NEW t \in Thread, Leak(t), CommitStep(t)
    PROVE  Leak(t)'
<1>0. HandleOf[t] \in Handle /\ None \notin Calls
  BY Places, PathAssumption
<1>1. ASSUME NEW o \in {"flush", "close", "unlock"}, Commit(t, o),
             Idle(t), fd[t]
      PROVE  Leak(t)'
  BY <1>0, <1>1 DEF Commit, AfterCommit, Idle, Goto, Calls, TypeOK, lockVars,
     managerVars, handleVars, Leak, Named, Dropped, Renewed, Committing,
     Locking
<1>2. CASE Flush(t) \/ Close(t) \/ Unlock(t)
  BY <1>1, <1>2 DEF Flush, Close, Unlock, MayCommit
<1>3. CASE Unlink(t)
  BY <1>0, <1>3 DEF Unlink, Idle, Goto, Calls, TypeOK, lockVars, managerVars,
     handleVars, Leak, Named, Dropped, Renewed, Committing, Locking
<1>4. CASE FenceRefuses(t) \/ PatchFails(t)
  BY <1>0, <1>4 DEF FenceRefuses, PatchFails, CommitFailed, AfterCommit,
     Goto, TypeOK, lockVars, managerVars, handleVars, Leak, Named, Dropped,
     Renewed, Committing, Locking
<1>5. CASE FencePasses(t) \/ PatchSet(t)
  BY <1>5 DEF FencePasses, PatchSet, Goto, TypeOK, lockVars, managerVars,
     handleVars, Leak, Named, Dropped, Renewed, Committing, Locking
<1>6. CASE PatchApplied(t)
  BY <1>6 DEF PatchApplied, Goto, TypeOK, lockVars, managerVars, handleVars,
     Leak, Named, Dropped, Renewed, Committing, Locking
<1>7. CASE CommitClean(t)
  BY <1>7 DEF CommitClean, AfterCommit, Goto, TypeOK, lockVars, managerVars,
     Leak, Named, Dropped, Renewed, Committing, Locking
<1>8. CASE DropLease(t)
  BY <1>0, <1>8 DEF DropLease, Goto, TypeOK, managerVars, Leak, Named,
     Dropped, Renewed, Committing, Locking
<1>9. CASE ReleaseLease(t)
  BY <1>9 DEF ReleaseLease, Goto, TypeOK, managerVars, handleVars, Leak,
     Named, Dropped, Renewed, Committing, Locking
<1>10. CASE Return(t)
  BY <1>0, <1>10, ReturnCases DEF LastReturn, OtherReturn, Goto, Calls,
     TypeOK, lockVars, managerVars, Leak, Named, Dropped, Renewed, Committing,
     Locking
<1> QED
  BY <1>2, <1>3, <1>4, <1>5, <1>6, <1>7, <1>8, <1>9, <1>10 DEF CommitStep

(* A step leaves every other thread Still, so what is preserved by the      *)
(* thread that moves is preserved for all.                                  *)
LEMMA Others ==
    ASSUME OneUser, LeakInv, NEW t \in Thread,
           OpenStep(t) \/ LockStep(t) \/ CommitStep(t)
    PROVE  \A u \in Thread \ {t} : Still(u)
BY OpenStill, LockStill, CommitStill DEF LeakInv

(* A renewal that fails or recovers only changes what Healthy() says. *)
LEMMA RenewalOnly ==
    ASSUME NEW t \in Thread, RenewalFails(t) \/ RenewalRecovers(t)
    PROVE  UNCHANGED <<log, owner, running, viewVars, handleVars, fd,
                       callVars, ghostVars>>
BY DEF RenewalFails, RenewalRecovers

LEMMA LeakStep ==
    ASSUME OneUser, LeakInv, [Next]_vars
    PROVE  LeakInv'
<1>0. TypeOK /\ TypeOK' /\ \A u \in Thread : Leak(u)
  BY TypeStep DEF LeakInv, Leak
<1>1. ASSUME \A u \in Thread : Leak(u)'
      PROVE  LeakInv'
  BY <1>0, <1>1 DEF LeakInv, Leak
<1>2. ASSUME NEW t \in Thread, OpenStep(t) \/ LockStep(t) \/ CommitStep(t)
      PROVE  LeakInv'
  <2>1. Leak(t)'
    BY <1>0, <1>2, LeakOpen, LeakLock, LeakCommit
  <2>2. \A u \in Thread \ {t} : Leak(u)'
    BY <1>0, <1>2, Others, LeakStill
  <2> QED
    BY <1>1, <2>1, <2>2
<1>3. ASSUME NEW t \in Thread, RenewalFails(t) \/ RenewalRecovers(t)
      PROVE  LeakInv'
  <2>1. UNCHANGED <<running, lease, fd, tpc, op>>
    BY <1>3, RenewalOnly DEF handleVars, callVars
  <2>2. \A u \in Thread : Leak(u)'
    BY <1>0, <2>1 DEF Leak, Named, Dropped, Renewed, Committing, Locking
  <2> QED
    BY <1>1, <2>2
<1>4. CASE \/ \E v \in Volume : Age(v) \/ LoopStep(v) \/ WatchEnds(v)
           \/ Expire
           \/ Edit
           \/ UNCHANGED vars
  BY <1>0, <1>1, <1>4, BackgroundStill, LeakStill
<1> QED
  BY <1>2, <1>3, <1>4 DEF Next

LEMMA LeakInit == Init => LeakInv
<1> SUFFICES ASSUME Init PROVE LeakInv
  OBVIOUS
<1>1. TypeOK
  BY PathAssumption DEF Init, TypeOK, NoSnap, Snap, Value
<1>2. \A t \in Thread : Named(t) /\ Dropped(t) /\ Renewed(t)
  BY Places, PathAssumption DEF Init, Calls, Named, Dropped, Renewed,
     Committing, Locking
<1> QED
  BY <1>1, <1>2 DEF LeakInv

(* If no open file description is shared, every Lease under renewal belongs *)
(* to the setlk that has just taken it or to the handle that will release   *)
(* it (handle.go), whatever fails on the way.                               *)
THEOREM LeaseNeverLeaks == OneUser => (Spec => []NoLeakedLease)
<1> SUFFICES ASSUME OneUser PROVE Spec => []NoLeakedLease
  OBVIOUS
<1>1. Init => LeakInv
  BY LeakInit
<1>2. LeakInv /\ [Next]_vars => LeakInv'
  BY LeakStep
<1>3. LeakInv => NoLeakedLease
  BY DEF LeakInv, Renewed, Locking, NoLeakedLease
<1> QED
  BY <1>1, <1>2, <1>3, PTL DEF Spec

----------------------------------------------------------------------------
(* No silent loss *)

(* The part of LossInv about one thread. *)
Loss(t) == Pending(t) /\ Clean(t)

LEMMA LossStill ==
    ASSUME NEW u \in Thread, Loss(u), Still(u)
    PROVE  Loss(u)'
BY DEF Still, Loss, Pending, Clean, Kept, Committing, Direct

LEMMA LossOpen ==
    ASSUME OneUser, TypeOK, NEW t \in Thread, Leak(t), Loss(t), OpenStep(t)
    PROVE  Loss(t)'
<1>0. HandleOf[t] \in Handle /\ None \notin Calls
  BY Places, PathAssumption
<1>1. ASSUME NEW snap, Resolve(t, snap), tpc[t] \in {"idle", "oget", "ogot"}
      PROVE  Loss(t)'
  <2>1. op[t] = None
    BY <1>1 DEF Leak, Named
  <2>2. CASE Stat(t)
    BY <1>1, <2>1, <2>2 DEF Stat, Goto, TypeOK, handleVars, ghostVars, Loss,
       Pending, Clean, Kept, Committing, Direct
  <2>3. CASE Open(t, snap) \/ Create(t, snap)
    <3>1. PICK seen, value :
            NewHandle(t, seen, value, TRUE) \/ NewHandle(t, seen, value, FALSE)
      BY <2>3 DEF Open, Create
    <3>2. UNCHANGED op /\ Goto(t, "idle")
      BY <2>3 DEF Open, Create
    <3> QED
      BY <1>0, <1>1, <2>1, <3>1, <3>2 DEF NewHandle, Goto, TypeOK, Loss,
         Pending, Clean, Kept, Committing, Direct
  <2>4. CASE Modify(t, snap)
    BY <1>0, <1>1, <2>1, <2>4 DEF Modify, Goto, Calls, TypeOK, handleVars,
       Loss, Pending, Clean, Kept, Committing, Direct
  <2> QED
    BY <1>1, <2>2, <2>3, <2>4 DEF Resolve
<1>2. CASE OpenCached(t) \/ OpenFresh(t) \/ OpenServesStale(t)
  BY <1>1, <1>2 DEF OpenCached, OpenFresh, OpenServesStale, Idle
<1>3. CASE OpenStale(t) \/ OpenGet(t)
  BY <1>3 DEF OpenStale, OpenGet, Idle, Goto, TypeOK, handleVars, ghostVars,
     Loss, Pending, Clean, Kept, Committing, Direct
<1>5. CASE Write(t)
  <2>1. op[t] = None
    BY <1>5 DEF Write, Idle, Leak, Named
  <2> QED
    BY <1>0, <1>5, <2>1 DEF Write, Idle, TypeOK, callVars, Loss, Pending,
       Clean, Kept, Committing, Direct, Calls
<1> QED
  BY <1>2, <1>3, <1>5 DEF OpenStep

LEMMA LossLock ==
    ASSUME TypeOK, NEW t \in Thread, Leak(t), Loss(t), LockStep(t)
    PROVE  Loss(t)'
<1>0. HandleOf[t] \in Handle
  BY Places
<1>1. CASE SetlkPin(t)
  BY <1>0, <1>1 DEF SetlkPin, Goto, TypeOK, Loss, Pending, Clean, Kept,
     Committing, Direct
<1>2. CASE SetlkReadFails(t)
  <2>1. op[t] = None
    BY <1>2 DEF SetlkReadFails, Leak, Named
  <2> QED
    BY <1>2, <2>1, PathAssumption DEF SetlkReadFails, Goto, TypeOK,
       handleVars, ghostVars, Loss, Pending, Clean, Kept, Committing, Direct,
       Calls
<1>3. CASE \/ SetlkBegin(t) \/ SetlkGivesUp(t) \/ SetlkAcquired(t)
           \/ SetlkGet(t) \/ SetlkSet(t)
  <2>1. /\ UNCHANGED <<handleVars, fd, op, tval, ghostVars>>
        /\ tpc'[t] \in {"acquire", "idle", "fget", "fgot", "pin"}
    BY <1>3 DEF SetlkBegin, SetlkGivesUp, SetlkAcquired, SetlkGet, SetlkSet,
       Goto, TypeOK
  <2> QED
    BY <2>1 DEF handleVars, ghostVars, Loss, Pending, Clean, Kept,
       Committing, Direct
<1> QED
  BY <1>1, <1>2, <1>3 DEF LockStep

LEMMA LossCommit ==
    ASSUME OneUser, TypeOK, NEW t \in Thread, Leak(t), Loss(t), CommitStep(t)
    PROVE  Loss(t)'
<1>0. HandleOf[t] \in Handle /\ None \notin Calls
  BY Places, PathAssumption
<1>1. ASSUME NEW o \in {"flush", "close", "unlock"}, Commit(t, o),
             Idle(t), fd[t]
      PROVE  Loss(t)'
  <2>1. op[t] = None
    BY <1>1 DEF Idle, Leak, Named
  <2> QED
    BY <1>0, <1>1, <2>1 DEF Commit, AfterCommit, Goto, Calls, TypeOK,
       handleVars, Loss, Pending, Clean, Kept, Committing, Direct
<1>2. CASE Flush(t) \/ Close(t) \/ Unlock(t)
  BY <1>1, <1>2 DEF Flush, Close, Unlock, MayCommit
<1>3. CASE Unlink(t)
  <2>1. op[t] = None
    BY <1>3 DEF Unlink, Idle, Leak, Named
  <2> QED
    BY <1>0, <1>3, <2>1 DEF Unlink, Goto, Calls, TypeOK, handleVars, Loss,
       Pending, Clean, Kept, Committing, Direct
<1>4. CASE FenceRefuses(t) \/ PatchFails(t)
  BY <1>4 DEF FenceRefuses, PatchFails, CommitFailed, AfterCommit, Goto,
     TypeOK, handleVars, ghostVars, Loss, Pending, Clean, Kept, Committing,
     Direct
<1>5. CASE FencePasses(t) \/ PatchSet(t)
  BY <1>5 DEF FencePasses, PatchSet, Goto, TypeOK, handleVars, ghostVars,
     Loss, Pending, Clean, Kept, Committing, Direct
<1>6. CASE PatchApplied(t)
  BY <1>0, <1>6 DEF PatchApplied, Saved, Goto, TypeOK, handleVars, Loss,
     Pending, Clean, Kept, Committing, Direct
<1>7. CASE CommitClean(t)
  BY <1>0, <1>7 DEF CommitClean, AfterCommit, Goto, TypeOK, Loss, Pending,
     Clean, Kept, Committing, Direct
<1>8. CASE DropLease(t) \/ ReleaseLease(t)
  BY <1>8 DEF DropLease, ReleaseLease, Goto, TypeOK, handleVars, ghostVars,
     Loss, Pending, Clean, Kept, Committing, Direct
<1>9. CASE Return(t)
  <2>1. UNCHANGED <<unsaved, flushed>>
    BY <1>9, ReturnCases
  <2>2. CASE LastReturn(t)
    <3>1. op[t] = "close" /\ fd[t]
      BY <2>2 DEF LastReturn, Leak, Named
    <3> QED
      BY <1>0, <2>1, <2>2, <3>1 DEF LastReturn, Goto, Calls, TypeOK, Loss,
         Pending, Clean, Kept, Committing, Direct
  <2>3. CASE OtherReturn(t) /\ op[t] # "close"
    BY <1>0, <2>1, <2>3 DEF OtherReturn, Goto, Calls, TypeOK, Loss, Pending,
       Clean, Kept, Committing, Direct
  <2> QED
    BY <1>9, <2>2, <2>3, ReturnCases
<1> QED
  BY <1>2, <1>3, <1>4, <1>5, <1>6, <1>7, <1>8, <1>9 DEF CommitStep

LEMMA LossStep ==
    ASSUME OneUser, LossInv, [Next]_vars
    PROVE  LossInv'
<1>0. /\ LeakInv /\ LeakInv' /\ TypeOK
      /\ \A u \in Thread : Leak(u) /\ Loss(u)
  BY LeakStep DEF LossInv, LeakInv, Leak, Loss
<1>1. ASSUME \A u \in Thread : Loss(u)'
      PROVE  LossInv'
  BY <1>0, <1>1 DEF LossInv, Loss
<1>2. ASSUME NEW t \in Thread, OpenStep(t) \/ LockStep(t) \/ CommitStep(t)
      PROVE  LossInv'
  <2>1. Loss(t)'
    BY <1>0, <1>2, LossOpen, LossLock, LossCommit
  <2>2. \A u \in Thread \ {t} : Loss(u)'
    BY <1>0, <1>2, Others, LossStill
  <2> QED
    BY <1>1, <2>1, <2>2
<1>3. ASSUME NEW t \in Thread, RenewalFails(t) \/ RenewalRecovers(t)
      PROVE  LossInv'
  <2>1. UNCHANGED <<buf, dirty, fd, tpc, op, tval, unsaved, flushed>>
    BY <1>3, RenewalOnly DEF handleVars, callVars, ghostVars
  <2>2. \A u \in Thread : Loss(u)'
    BY <1>0, <2>1 DEF Loss, Pending, Clean, Kept, Committing, Direct
  <2> QED
    BY <1>1, <2>2
<1>4. CASE \/ \E v \in Volume : Age(v) \/ LoopStep(v) \/ WatchEnds(v)
           \/ Expire
           \/ Edit
           \/ UNCHANGED vars
  BY <1>0, <1>1, <1>4, BackgroundStill, LossStill
<1> QED
  BY <1>2, <1>3, <1>4 DEF Next

(* If no open file description is shared, a close(2) that returned 0 has    *)
(* written everything: no Patch that failed, no fence that refused, no      *)
(* truncation, unlink or rename in between leaves a value in the buffer of  *)
(* a handle that is then gone (handle.go's Flush and Release).              *)
THEOREM CloseNeverLoses == OneUser => (Spec => []NoSilentLoss)
<1> SUFFICES ASSUME OneUser PROVE Spec => []NoSilentLoss
  OBVIOUS
<1>1. Init => LossInv
  <2> SUFFICES ASSUME Init PROVE LossInv
    OBVIOUS
  <2>1. \A t \in Thread : Pending(t) /\ Clean(t)
    BY Places DEF Init, Pending, Clean, Kept, Committing
  <2> QED
    BY <2>1, LeakInit DEF LossInv
<1>2. LossInv /\ [Next]_vars => LossInv'
  BY LossStep
<1>3. LossInv => NoSilentLoss
  BY PathAssumption DEF LossInv, Clean, NoSilentLoss
<1> QED
  BY <1>1, <1>2, <1>3, PTL DEF Spec

----------------------------------------------------------------------------
(* The flock *)

(* The part of LockedInv about one thread. *)
Locked(t) == Owned(t) /\ Fenced(t) /\ Current(t)

LEMMA LockedStill ==
    ASSUME NEW u \in Thread, Leak(u), Locked(u), Still(u),
           UNCHANGED log \/ ~running[u],
           running[u] => owner' = owner
    PROVE  Locked(u)'
<1>1. Owned(u)' /\ Fenced(u)'
  BY DEF Still, Locked, Owned, Fenced, Locking, Committing, Direct
<1>2. Current(u)'
  <2>1. CASE UNCHANGED log
    BY <2>1 DEF Still, Locked, Current, Latest
  <2>2. CASE ~running[u]
    <3>1. /\ lease[HandleOf[u]] = None
          /\ tpc[u] \notin {"fgot", "pin", "patched", "clean"}
      BY <2>2, PathAssumption DEF Locked, Owned, Fenced, Locking, Committing
    <3> QED
      BY <3>1 DEF Still, Current
  <2> QED
    BY <2>1, <2>2
<1> QED
  BY <1>1, <1>2 DEF Locked

LEMMA LockedOpen ==
    ASSUME Cooperative, TypeOK, NEW t \in Thread, Leak(t), Locked(t),
           OpenStep(t)
    PROVE  Locked(t)' /\ UNCHANGED <<log, owner>>
<1>0. HandleOf[t] \in Handle
  BY Places
<1>1. ASSUME NEW snap, Resolve(t, snap), tpc[t] \in {"idle", "oget", "ogot"}
      PROVE  Locked(t)' /\ UNCHANGED <<log, owner>>
  <2>1. UNCHANGED <<log, owner, running, healthy, tlease>>
    BY <1>1 DEF Resolve, lockVars, managerVars
  <2>2. CASE Stat(t)
    BY <1>1, <2>1, <2>2 DEF Stat, Goto, TypeOK, handleVars, ghostVars, Locked,
       Owned, Fenced, Current, Latest, Locking, Committing
  <2>3. CASE Open(t, snap) \/ Create(t, snap)
    <3>1. PICK seen, value :
            \/ NewHandle(t, seen, value, FALSE)
            \/ NewHandle(t, None, value, TRUE)
      BY <2>3 DEF Open, Create, Cooperative
    <3>2. Goto(t, "idle")
      BY <2>3 DEF Open, Create
    <3> QED
      BY <1>0, <1>1, <2>1, <3>1, <3>2 DEF NewHandle, Goto, TypeOK, Locked,
         Owned, Fenced, Current, Locking, Committing
  <2>4. ~Modify(t, snap)
    BY DEF Modify, Cooperative
  <2> QED
    BY <1>1, <2>2, <2>3, <2>4 DEF Resolve
<1>2. CASE OpenCached(t) \/ OpenFresh(t) \/ OpenServesStale(t)
  BY <1>1, <1>2 DEF OpenCached, OpenFresh, OpenServesStale, Idle
<1>3. CASE OpenStale(t) \/ OpenGet(t)
  BY <1>3 DEF OpenStale, OpenGet, Idle, Goto, TypeOK, lockVars, managerVars,
     handleVars, ghostVars, Locked, Owned, Fenced, Current, Latest, Locking,
     Committing
<1>5. CASE Write(t)
  <2>1. /\ UNCHANGED <<log, owner, running, healthy, lease, tpc, tlease, op>>
        /\ dirty'[HandleOf[t]] = TRUE
        /\ lease[HandleOf[t]] # None /\ Idle(t)
    BY <1>0, <1>5 DEF Write, TypeOK, lockVars, managerVars, callVars,
       Cooperative
  <2> QED
    BY <2>1 DEF Idle, Locked, Owned, Fenced, Current, Locking, Committing
<1> QED
  BY <1>2, <1>3, <1>5 DEF OpenStep

LEMMA LockedLock ==
    ASSUME TypeOK, NEW t \in Thread, Leak(t), Locked(t), LockStep(t)
    PROVE  Locked(t)' /\ UNCHANGED log /\ (owner # None => UNCHANGED owner)
<1>0. /\ HandleOf[t] \in Handle /\ Object.val = Latest
      /\ None \notin Calls /\ None # t
  BY Places, Snapshots, PathAssumption
<1>1. CASE SetlkBegin(t) \/ SetlkGivesUp(t)
  BY <1>1 DEF SetlkBegin, SetlkGivesUp, Idle, Goto, TypeOK, lockVars,
     managerVars, handleVars, ghostVars, Locked, Owned, Fenced, Current,
     Latest, Locking, Committing
<1>2. CASE SetlkAcquired(t)
  BY <1>2 DEF SetlkAcquired, Goto, TypeOK, handleVars, ghostVars, Locked,
     Owned, Fenced, Current, Latest, Locking, Committing
<1>3. CASE SetlkGet(t)
  BY <1>0, <1>3 DEF SetlkGet, Goto, TypeOK, lockVars, managerVars, handleVars,
     ghostVars, Locked, Owned, Fenced, Current, Latest, Locking, Committing
<1>4. CASE SetlkSet(t)
  BY <1>4 DEF SetlkSet, Goto, TypeOK, lockVars, managerVars, handleVars,
     ghostVars, Locked, Owned, Fenced, Current, Latest, Locking, Committing
<1>5. CASE SetlkPin(t)
  BY <1>0, <1>5 DEF SetlkPin, Pinned, Goto, TypeOK, lockVars, managerVars,
     Locked, Owned, Fenced, Current, Latest, Locking, Committing
<1>6. CASE SetlkReadFails(t)
  <2>1. /\ UNCHANGED <<log, owner, handleVars, ghostVars>>
        /\ tpc'[t] = "release" /\ op'[t] = "setlk" /\ tlease'[t] = t
        /\ running'[t] = FALSE /\ healthy'[t] = FALSE
        /\ lease[HandleOf[t]] = None
    BY <1>6 DEF SetlkReadFails, Goto, TypeOK, Leak, Dropped, Locking
  <2> QED
    BY <2>1 DEF TypeOK, handleVars, ghostVars, Locked, Owned, Fenced, Current,
       Latest, Locking, Committing
<1> QED
  BY <1>1, <1>2, <1>3, <1>4, <1>5, <1>6 DEF LockStep

LEMMA LockedCommit ==
    ASSUME Cooperative, TypeOK, NEW t \in Thread, Leak(t), Locked(t),
           CommitStep(t)
    PROVE  /\ Locked(t)'
           /\ UNCHANGED log \/ running[t]
           /\ UNCHANGED owner \/ owner = t
<1>0. /\ HandleOf[t] \in Handle /\ None \notin Calls /\ None # t
      /\ \A o \in Calls : AfterCommit(o) = "drop" <=> o \in {"unlock", "last"}
      /\ \A o : AfterCommit(o) \in {"drop", "return"}
  BY Places, PathAssumption DEF AfterCommit
<1>1. ASSUME NEW o \in {"flush", "close", "unlock"}, Commit(t, o),
             MayCommit(t)
      PROVE  Locked(t)' /\ UNCHANGED <<log, owner>>
  <2>1. /\ UNCHANGED <<log, owner, running, healthy, handleVars, fd, base>>
        /\ op'[t] = o /\ tpc[t] = "idle" /\ fd[t]
    BY <1>1 DEF Commit, MayCommit, Idle, lockVars, managerVars, TypeOK
  <2>2. CASE dirty[HandleOf[t]]
    <3>1. lease[HandleOf[t]] = t
      BY <1>1, <2>2 DEF MayCommit, Cooperative, Locked, Fenced, Leak, Dropped
    <3>2. /\ tpc'[t] = "fence" /\ tval'[t] = buf[HandleOf[t]]
          /\ tlease'[t] = t
      BY <1>1, <2>2, <3>1 DEF Commit, Fence, Goto, TypeOK
    <3> QED
      BY <2>1, <2>2, <3>1, <3>2 DEF handleVars, Locked, Owned, Fenced, Current,
         Latest, Locking, Committing, Direct
  <2>3. CASE ~dirty[HandleOf[t]]
    <3>1. tpc'[t] \in {"drop", "return"}
      BY <1>0, <1>1, <2>3 DEF Commit, Goto, TypeOK
    <3> QED
      BY <2>1, <2>3, <3>1 DEF handleVars, Locked, Owned, Fenced, Current,
         Latest, Locking, Committing
  <2> QED
    BY <2>2, <2>3
<1>2. CASE Flush(t) \/ Close(t) \/ Unlock(t)
  BY <1>1, <1>2 DEF Flush, Close, Unlock
<1>3. ~Unlink(t) /\ ~PatchFails(t)
  BY DEF Unlink, PatchFails, Cooperative
<1>4. ASSUME Committing(t)
      PROVE  /\ ~Direct(t) /\ op[t] # "last" /\ fd[t] /\ running[t]
             /\ lease[HandleOf[t]] = t /\ tlease[t] = t /\ healthy[t]
             /\ dirty[HandleOf[t]] /\ tval[t] = buf[HandleOf[t]]
  BY <1>0, <1>4 DEF Locked, Owned, Fenced
<1>5. CASE FenceRefuses(t)
  BY <1>4, <1>5 DEF FenceRefuses, Committing
<1>6. CASE FencePasses(t)
  BY <1>4, <1>6 DEF FencePasses, Goto, TypeOK, lockVars, managerVars,
     handleVars, ghostVars, Locked, Owned, Fenced, Current, Latest, Locking,
     Committing, Direct
<1>7. CASE PatchApplied(t)
  <2>1. /\ UNCHANGED <<owner, running, healthy, handleVars, fd, op, tlease,
                       tval>>
        /\ tpc'[t] = "patched"
    BY <1>7 DEF PatchApplied, Goto, TypeOK, lockVars, managerVars
  <2>2. Latest' = tval[t]
    BY <1>7 DEF PatchApplied, Latest, TypeOK
  <2>3. Committing(t)
    BY <1>7 DEF PatchApplied, Committing
  <2> QED
    BY <1>0, <1>4, <2>1, <2>2, <2>3 DEF handleVars, Locked, Owned, Fenced,
       Current, Locking, Committing, Direct
<1>8. CASE PatchSet(t)
  BY <1>4, <1>8 DEF PatchSet, Goto, TypeOK, lockVars, managerVars, handleVars,
     ghostVars, Locked, Owned, Fenced, Current, Latest, Locking, Committing,
     Direct
<1>9. CASE CommitClean(t)
  <2>1. Committing(t) /\ tval[t] = Latest
    BY <1>9 DEF CommitClean, Committing, Locked, Current
  <2>2. /\ UNCHANGED <<log, owner, running, healthy, buf, lease>>
        /\ dirty'[HandleOf[t]] = FALSE
        /\ tpc'[t] \in {"drop", "return"}
    BY <1>0, <1>4, <1>9, <2>1 DEF CommitClean, Goto, TypeOK, lockVars,
       managerVars
  <2> QED
    BY <1>4, <2>1, <2>2 DEF Locked, Owned, Fenced, Current, Latest, Locking,
       Committing
<1>10. CASE DropLease(t)
  <2>1. /\ UNCHANGED <<log, owner, buf, dirty, op>> /\ ~dirty[HandleOf[t]]
        /\ lease'[HandleOf[t]] = None
    BY <1>0, <1>10 DEF DropLease, TypeOK, Locked, Fenced
  <2>2. CASE lease[HandleOf[t]] = None
    BY <1>10, <2>1, <2>2 DEF DropLease, Goto, TypeOK, managerVars, Locked,
       Owned, Fenced, Current, Locking, Committing
  <2>3. CASE lease[HandleOf[t]] = t
    <3>1. /\ running'[t] = FALSE /\ healthy'[t] = FALSE
          /\ tpc'[t] = "release" /\ tlease'[t] = t
      BY <1>0, <1>10, <2>3 DEF DropLease, Goto, TypeOK
    <3> QED
      BY <2>1, <3>1 DEF Locked, Owned, Fenced, Current, Locking, Committing
  <2> QED
    BY <2>2, <2>3 DEF Leak, Dropped
<1>11. CASE ReleaseLease(t)
  <2>1. /\ UNCHANGED <<log, running, healthy, handleVars, op, base>>
        /\ tpc'[t] = "return" /\ tlease[t] = t /\ running[t] = FALSE
    BY <1>11 DEF ReleaseLease, Goto, TypeOK, managerVars, ghostVars, Locked,
       Owned
  <2>2. UNCHANGED owner \/ owner = t
    BY <1>11, <2>1 DEF ReleaseLease
  <2>3. lease[HandleOf[t]] = None
    BY <2>1 DEF Locked, Owned
  <2>4. op[t] = "close" => ~dirty[HandleOf[t]]
    BY <1>11 DEF ReleaseLease, Leak, Named
  <2> QED
    BY <2>1, <2>2, <2>3, <2>4 DEF handleVars, Locked, Owned, Fenced, Current,
       Locking, Committing
<1>12. CASE Return(t)
  <2>1. /\ tpc[t] = "return"
        /\ UNCHANGED <<log, owner, running, healthy, lease>>
    BY <1>12, ReturnCases DEF lockVars, managerVars
  <2>2. CASE LastReturn(t)
    BY <1>0, <2>1, <2>2 DEF LastReturn, Fence, Goto, TypeOK, Locked, Owned,
       Fenced, Current, Latest, Locking, Committing
  <2>3. CASE OtherReturn(t)
    BY <1>0, <2>1, <2>3 DEF OtherReturn, Goto, TypeOK, Leak, Dropped, Locked,
       Owned, Fenced, Current, Latest, Locking, Committing
  <2> QED
    BY <1>12, <2>2, <2>3, ReturnCases
<1> QED
  BY <1>2, <1>3, <1>5, <1>6, <1>7, <1>8, <1>9, <1>10, <1>11, <1>12
     DEF CommitStep

(* A thread's step changes the object only while its own manager runs, and  *)
(* the Lease only when nobody else's does.                                  *)
LEMMA Exclusive ==
    ASSUME Cooperative, LockedInv, NEW t \in Thread,
           OpenStep(t) \/ LockStep(t) \/ CommitStep(t)
    PROVE  /\ Locked(t)'
           /\ \A u \in Thread \ {t} :
                /\ UNCHANGED log \/ ~running[u]
                /\ running[u] => owner' = owner
<1>0. /\ TypeOK /\ None \notin Thread
      /\ \A u \in Thread : Leak(u) /\ Locked(u)
      /\ \A u \in Thread : running[u] => owner = u
  BY PathAssumption DEF LockedInv, LeakInv, Leak, Locked, Owned
<1>1. CASE OpenStep(t)
  BY <1>0, <1>1, LockedOpen
<1>2. CASE LockStep(t)
  BY <1>0, <1>2, LockedLock
<1>3. CASE CommitStep(t)
  <2>1. /\ Locked(t)'
        /\ UNCHANGED log \/ running[t]
        /\ UNCHANGED owner \/ owner = t
    BY <1>0, <1>3, LockedCommit
  <2> QED
    BY <1>0, <2>1
<1> QED
  BY <1>1, <1>2, <1>3

(* The watch loops and the Lease's expiry change neither the object nor a   *)
(* Lease whose manager runs; a renewal neither fails nor has to recover,    *)
(* and nobody else writes the object.                                       *)
LEMMA Background ==
    ASSUME Cooperative, LockedInv
    PROVE  /\ ~Edit
           /\ \A t \in Thread : ~RenewalFails(t) /\ ~RenewalRecovers(t)
           /\ (\/ \E v \in Volume : Age(v) \/ LoopStep(v) \/ WatchEnds(v)
               \/ Expire
               \/ UNCHANGED vars)
              => /\ UNCHANGED log
                 /\ \A u \in Thread : running[u] => owner' = owner
<1>0. \A u \in Thread : healthy[u] = running[u] /\ (running[u] => owner = u)
  BY DEF LockedInv, Owned
<1>1. \A t \in Thread : ~RenewalFails(t) /\ ~RenewalRecovers(t)
  BY <1>0 DEF RenewalFails, RenewalRecovers, Cooperative
<1>2. ASSUME NEW v \in Volume, Age(v) \/ LoopStep(v) \/ WatchEnds(v)
      PROVE  UNCHANGED <<log, owner>>
  BY <1>2 DEF Age, LoopStep, LoopGet, LoopSet, WatchEvent, WatchStore,
     WatchEnds, lockVars
<1>3. Expire => UNCHANGED log /\ \A u \in Thread : ~running[u]
  BY <1>0 DEF Expire
<1>4. UNCHANGED vars => UNCHANGED <<log, owner>>
  BY DEF vars, lockVars
<1>5. ~Edit
  BY DEF Edit, Cooperative
<1> QED
  BY <1>1, <1>2, <1>3, <1>4, <1>5

LEMMA LockedStep ==
    ASSUME Cooperative, LockedInv, [Next]_vars
    PROVE  LockedInv'
<1>0. /\ OneUser /\ LeakInv /\ LeakInv' /\ TypeOK
      /\ \A u \in Thread : Leak(u) /\ Locked(u)
  BY LeakStep DEF Cooperative, LockedInv, LeakInv, Leak, Locked
<1>1. ASSUME \A u \in Thread : Locked(u)'
      PROVE  LockedInv'
  BY <1>0, <1>1 DEF LockedInv, Locked
<1>2. ASSUME NEW t \in Thread, OpenStep(t) \/ LockStep(t) \/ CommitStep(t)
      PROVE  LockedInv'
  <2>1. \A u \in Thread \ {t} : Still(u)
    BY <1>0, <1>2, Others
  <2>2. \A u \in Thread \ {t} : Locked(u)'
    BY <1>0, <1>2, <2>1, Exclusive, LockedStill
  <2> QED
    BY <1>1, <1>2, <2>2, Exclusive
<1>3. CASE \/ \E v \in Volume : Age(v) \/ LoopStep(v) \/ WatchEnds(v)
           \/ Expire
           \/ UNCHANGED vars
  BY <1>0, <1>1, <1>3, Background, BackgroundStill, LockedStill
<1> QED
  BY <1>2, <1>3, Background DEF Next

LEMMA LockedInit == Init => LockedInv
<1> SUFFICES ASSUME Init PROVE LockedInv
  OBVIOUS
<1>1. \A t \in Thread : Owned(t) /\ Fenced(t) /\ Current(t)
  BY Places DEF Init, Owned, Fenced, Current, Locking, Committing
<1> QED
  BY <1>1, LeakInit DEF LockedInv

(* What the mandatory quorum read of setlk (handle.go) is for: if every     *)
(* writer takes the lock on a descriptor of its own and the server neither  *)
(* refuses a Patch nor lets a renewed Lease expire, a clean handle that     *)
(* holds the lock has the server's value for as long as it holds it.        *)
THEOREM LockedReadIsFresh == Cooperative => (Spec => []FreshUnderLock)
<1> SUFFICES ASSUME Cooperative PROVE Spec => []FreshUnderLock
  OBVIOUS
<1>1. Init => LockedInv
  BY LockedInit
<1>2. LockedInv /\ [Next]_vars => LockedInv'
  BY LockedStep
<1>3. LockedInv => FreshUnderLock
  BY PathAssumption DEF LockedInv, Current, FreshUnderLock, LockedClean
<1> QED
  BY <1>1, <1>2, <1>3, PTL DEF Spec

(* Under the same conditions every Patch is applied while the handle that   *)
(* sent it owns the Lease: unlock and Release commit before they let go.    *)
THEOREM CommitBeforeRelease == Cooperative => (Spec => CommitUnderLock)
<1> SUFFICES ASSUME Cooperative PROVE Spec => CommitUnderLock
  OBVIOUS
<1>1. Init => LockedInv
  BY LockedInit
<1>2. LockedInv /\ [Next]_vars => LockedInv'
  BY LockedStep
<1>3. LockedInv
        => \A t \in Thread :
             PatchApplied(t) => tlease[t] # None /\ tlease[t] = owner
  BY PathAssumption DEF LockedInv, Owned, Fenced, Committing, PatchApplied
<1> QED
  BY <1>1, <1>2, <1>3, PTL DEF Spec, CommitUnderLock

----------------------------------------------------------------------------
(* No lost update *)

LEMMA SeenStill ==
    ASSUME NEW u \in Thread, Locked(u), Seen(u), Still(u),
           UNCHANGED log \/ ~running[u]
    PROVE  Seen(u)'
<1>1. CASE UNCHANGED log
  BY <1>1 DEF Still, Seen, Latest
<1>2. CASE ~running[u]
  BY <1>2 DEF Still, Seen, Locked, Owned
<1> QED
  BY <1>1, <1>2

LEMMA SeenOpen ==
    ASSUME Existing, TypeOK, NEW t \in Thread, Leak(t), Seen(t), OpenStep(t)
    PROVE  Seen(t)'
<1>0. HandleOf[t] \in Handle
  BY Places
<1>1. ASSUME NEW snap, Resolve(t, snap) PROVE Seen(t)'
  <2>1. UNCHANGED log /\ ~Create(t, snap) /\ ~Modify(t, snap)
    BY <1>1 DEF Resolve, Create, Modify, Existing
  <2>2. CASE Stat(t)
    BY <2>1, <2>2 DEF Stat, handleVars, ghostVars, Seen, Latest
  <2>3. CASE Open(t, snap)
    <3>1. NewHandle(t, snap.val, snap.val, FALSE)
      BY <2>3 DEF Open, Existing
    <3> QED
      BY <1>0, <3>1 DEF NewHandle, TypeOK, Seen
  <2> QED
    BY <1>1, <2>1, <2>2, <2>3 DEF Resolve
<1>2. CASE OpenCached(t) \/ OpenFresh(t) \/ OpenServesStale(t)
  BY <1>1, <1>2 DEF OpenCached, OpenFresh, OpenServesStale
<1>3. CASE OpenStale(t) \/ OpenGet(t)
  BY <1>3 DEF OpenStale, OpenGet, handleVars, ghostVars, Seen, Latest
<1>4. CASE Write(t)
  BY <1>0, <1>4 DEF Write, Existing, Cooperative, TypeOK, Seen, Latest
<1> QED
  BY <1>2, <1>3, <1>4 DEF OpenStep

LEMMA SeenLock ==
    ASSUME TypeOK, NEW t \in Thread, Leak(t), Locked(t), Seen(t), LockStep(t)
    PROVE  Seen(t)'
<1>1. CASE SetlkPin(t)
  <2>1. /\ HandleOf[t] \in Handle /\ t # None
        /\ tsnap[t].val = Latest /\ ~dirty[HandleOf[t]]
    BY <1>1, Places, PathAssumption DEF SetlkPin, Locked, Current, Leak,
       Dropped, Locking, Seen
  <2> QED
    BY <1>1, <2>1 DEF SetlkPin, Pinned, TypeOK, Seen, Latest
<1>2. CASE ~SetlkPin(t)
  BY <1>2 DEF LockStep, SetlkBegin, SetlkAcquired, SetlkGivesUp, SetlkGet,
     SetlkSet, SetlkReadFails, handleVars, ghostVars, Seen, Latest
<1> QED
  BY <1>1, <1>2

LEMMA SeenCommit ==
    ASSUME Existing, TypeOK, NEW t \in Thread, Leak(t), Locked(t), Seen(t),
           CommitStep(t)
    PROVE  Seen(t)'
<1>0. HandleOf[t] \in Handle /\ Cooperative
  BY Places DEF Existing
<1>1. CASE \/ Flush(t) \/ Close(t) \/ Unlock(t) \/ Unlink(t)
           \/ FencePasses(t) \/ FenceRefuses(t) \/ PatchFails(t)
           \/ PatchSet(t) \/ ReleaseLease(t)
  <2>1. UNCHANGED <<log, handleVars, base>>
    BY <1>1 DEF Flush, Close, Unlock, Unlink, Commit, FencePasses,
       FenceRefuses, PatchFails, CommitFailed, PatchSet, ReleaseLease,
       ghostVars
  <2> QED
    BY <2>1 DEF handleVars, Seen, Latest
<1>2. CASE PatchApplied(t)
  <2>1. Latest' = tval[t] /\ UNCHANGED handleVars /\ fd[t]
    BY <1>2 DEF PatchApplied, Latest, TypeOK, Locked, Fenced, Committing
  <2>2. base'[HandleOf[t]] = tval[t]
    BY <1>0, <1>2, <2>1 DEF PatchApplied, Saved, TypeOK
  <2> QED
    BY <2>1, <2>2 DEF handleVars, Seen
<1>3. CASE CommitClean(t)
  BY <1>0, <1>3 DEF CommitClean, TypeOK, Seen, Latest
<1>4. CASE DropLease(t)
  BY <1>0, <1>4 DEF DropLease, TypeOK, Seen, Locked, Fenced
<1>5. CASE Return(t)
  <2>1. tpc[t] = "return" /\ UNCHANGED <<log, lease>>
    BY <1>5, ReturnCases
  <2>2. CASE LastReturn(t)
    BY <2>1, <2>2 DEF LastReturn, Seen, Latest
  <2>3. CASE OtherReturn(t)
    BY <1>0, <2>1, <2>3 DEF OtherReturn, TypeOK, Seen, Latest, Leak, Dropped
  <2> QED
    BY <1>5, <2>2, <2>3, ReturnCases
<1> QED
  BY <1>1, <1>2, <1>3, <1>4, <1>5 DEF CommitStep

LEMMA SeenStep ==
    ASSUME Existing, SeenInv, [Next]_vars
    PROVE  SeenInv'
<1>0. /\ Cooperative /\ OneUser /\ LockedInv /\ LockedInv' /\ LeakInv /\ TypeOK
      /\ \A u \in Thread : Leak(u) /\ Locked(u) /\ Seen(u)
  BY LockedStep
     DEF Existing, Cooperative, SeenInv, LockedInv, LeakInv, Leak, Locked
<1>1. ASSUME \A u \in Thread : Seen(u)'
      PROVE  SeenInv'
  BY <1>0, <1>1 DEF SeenInv
<1>2. ASSUME NEW t \in Thread, OpenStep(t) \/ LockStep(t) \/ CommitStep(t)
      PROVE  SeenInv'
  <2>1. \A u \in Thread \ {t} : Still(u)
    BY <1>0, <1>2, Others
  <2>2. \A u \in Thread \ {t} : Seen(u)'
    BY <1>0, <1>2, <2>1, Exclusive, SeenStill
  <2>3. Seen(t)'
    BY <1>0, <1>2, SeenOpen, SeenLock, SeenCommit
  <2> QED
    BY <1>1, <2>2, <2>3
<1>3. CASE \/ \E v \in Volume : Age(v) \/ LoopStep(v) \/ WatchEnds(v)
           \/ Expire
           \/ UNCHANGED vars
  BY <1>0, <1>1, <1>3, Background, BackgroundStill, SeenStill
<1> QED
  BY <1>0, <1>2, <1>3, Background DEF Next

(* If moreover nobody creates the file, no Patch a locked handle sends      *)
(* replaces a value its user has not read under that lock or written: the   *)
(* read-modify-write of two mounts never loses an update.                   *)
THEOREM UpdatesNeverLost == Existing => (Spec => NoLostUpdate)
<1> SUFFICES ASSUME Existing PROVE Spec => NoLostUpdate
  OBVIOUS
<1>1. Init => SeenInv
  <2> SUFFICES ASSUME Init PROVE SeenInv
    OBVIOUS
  <2>1. \A t \in Thread : Seen(t)
    BY Places DEF Init, Seen
  <2> QED
    BY <2>1, LockedInit DEF SeenInv
<1>2. SeenInv /\ [Next]_vars => SeenInv'
  BY SeenStep
<1>3. SeenInv
        => \A t \in Thread :
             PatchApplied(t) /\ lease[HandleOf[t]] # None /\ op[t] # "unlink"
               => Known(t) = Latest
  BY DEF SeenInv, Seen, LockedInv, Fenced, Committing, Direct, PatchApplied,
     Known
<1> QED
  BY <1>1, <1>2, <1>3, PTL DEF Spec, NoLostUpdate
=============================================================================
