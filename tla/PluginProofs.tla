---------------------------- MODULE PluginProofs ----------------------------
(***************************************************************************)
(* NodePlugin's safety properties for every set of targets, every number   *)
(* of handlers and restarts, and every volume attribute.  The lock's need  *)
(* nothing else; the others name what they need of the kubelet and of the  *)
(* file system (Serial, Sequential, Contained).                            *)
(***************************************************************************)
EXTENDS PluginInv, FiniteSetTheorems, TLAPS

(* Extract returns the kubelet's latest token or none. *)
LEMMA ExtractType ==
    \A payload, tok : Extract(payload, tok) \in {tok, None}
BY DEF Extract

(* A flag that is set stays a flag. *)
LEMMA Flags ==
    ASSUME NEW S, NEW f \in [S -> BOOLEAN], NEW x, NEW b \in BOOLEAN
    PROVE  [f EXCEPT ![x] = b] \in [S -> BOOLEAN]
OBVIOUS

(* The stacks that mount, umount and the end of the process make. *)
LEMMA Stacks ==
    ASSUME NEW s \in Seq({"served", "dead"})
    PROVE  /\ s # <<>> => Tail(s) \in Seq({"served", "dead"})
           /\ <<"served">> \o s \in Seq({"served", "dead"})
           /\ [i \in DOMAIN s |-> "dead"] \in Seq({"served", "dead"})
OBVIOUS

(* Whatever umount does at a path leaves stacks. *)
LEMMA UnmountType ==
    ASSUME TypeOK, NEW t,
           \/ Unmount(t) \/ UnmountFails(t) \/ Cleared(t)
           \/ DetachStale(t) \/ DetachFails(t)
    PROVE  mounts' \in [Target -> Seq({"served", "dead"})]
<1>1. CASE Unmount(t)
  BY <1>1, Stacks DEF TypeOK, Unmount, Mounted
<1>2. CASE UNCHANGED mounts
  BY <1>2 DEF TypeOK
<1> QED
  BY <1>1, <1>2 DEF UnmountFails, DetachStale, Cleared, DetachFails

(* swapToken leaves tokens. *)
LEMMA SwapType ==
    ASSUME TypeOK, NEW c \in Call, SwapToken(c) \/ UNCHANGED token
    PROVE  token' \in [Target -> 1..MaxTokens \cup {None}]
<1>1. CASE SwapToken(c) /\ carried[c] # None
  BY <1>1 DEF TypeOK, SwapToken
<1>2. CASE UNCHANGED token
  BY <1>2 DEF TypeOK
<1> QED
  BY <1>1, <1>2 DEF SwapToken

(* References are finitely many. *)
LEMMA RefsFinite ==
    \A l : IsFiniteSet(Refs(l)) /\ Cardinality(Refs(l)) \in Nat
<1> TAKE l
<1>1. Refs(l) \in SUBSET Call
  BY DEF Refs
<1> QED
  BY <1>1, PluginAssumption, FS_Subset, FS_CardinalityType

(* An object that nobody counts is one that nobody refers to. *)
LEMMA Uncounted ==
    ASSUME Counted, NEW l \in Call
    PROVE  refs[l] = 0 <=> Refs(l) = {}
BY RefsFinite, FS_EmptySet DEF Counted

(* There are fewer lock objects in use than handlers when one of them has   *)
(* none, so lockTarget always has a new one to make.                        *)
LEMMA FreeLock ==
    ASSUME LockInv, NEW c \in Call, tl[c] = None
    PROVE  \E l \in Call : refs[l] = 0
<1> SUFFICES ASSUME \A l \in Call : refs[l] # 0 PROVE FALSE
  OBVIOUS
<1> DEFINE f == [l \in Call |-> CHOOSE d \in Call : tl[d] = l]
<1>1. \A l \in Call : \E d \in Call : tl[d] = l
  BY Uncounted DEF Refs, LockInv
<1>2. \A l \in Call : f[l] \in Call /\ tl[f[l]] = l
  BY <1>1
<1>3. f \in [Call -> Call \ {c}]
  BY <1>2, PluginAssumption
<1>4. /\ IsFiniteSet(Call) /\ IsFiniteSet(Call \ {c})
      /\ Cardinality(Call \ {c}) < Cardinality(Call)
  <2>1. IsFiniteSet(Call) /\ Cardinality(Call) \in Nat
    BY PluginAssumption, FS_CardinalityType
  <2>2. /\ IsFiniteSet(Call \ {c})
        /\ Cardinality(Call \ {c}) = Cardinality(Call) - 1
    BY <2>1, FS_RemoveElement
  <2> QED
    BY <2>1, <2>2
<1>5. \E x, y \in Call : x # y /\ f[x] = f[y]
  <2> HIDE DEF f
  <2> QED
    BY <1>3, <1>4, FS_PigeonHole
<1> QED
  BY <1>2, <1>5

----------------------------------------------------------------------------
(* The per-target lock *)

(* LockInv holds initially. *)
LEMMA LockInit == Init => LockInv
<1> SUFFICES ASSUME Init PROVE LockInv
  OBVIOUS
<1>1. TypeOK
  BY PluginAssumption DEF Init, TypeOK, NoCall
<1>2. Phases /\ Table /\ Token
  BY DEF Init, NoCall, Phases, Table, Token, Publishing
<1>3. Counted
  <2>1. \A l \in Call : Refs(l) = {}
    BY PluginAssumption DEF Init, NoCall, Refs
  <2> QED
    BY <2>1, FS_EmptySet DEF Init, NoCall, Counted
<1> QED
  BY <1>1, <1>2, <1>3 DEF LockInv

(* Every step preserves TypeOK. *)
LEMMA TypeStep == LockInv /\ [Next]_vars => TypeOK'
<1> SUFFICES ASSUME LockInv, [Next]_vars PROVE TypeOK'
  OBVIOUS
<1>0. TypeOK /\ Phases
  BY DEF LockInv
<1> USE <1>0, PluginAssumption
    DEF TypeOK, registryVars, lockVars, handlerVars, callVars, processVars,
        kubeletVars, Goto, Answer, PublishError, Forget, NoCall
<1>1. ASSUME NEW t \in Target, Mint(t) PROVE TypeOK'
  BY <1>1 DEF Mint
<1>2. ASSUME NEW t \in Target, PodDeleted(t) PROVE TypeOK'
  BY <1>2 DEF PodDeleted
<1>3. ASSUME NEW c \in Call, NEW t \in Target, Delete(c, t) PROVE TypeOK'
  BY <1>3 DEF Delete
<1>4. ASSUME NEW c \in Call, NEW t \in Target, NEW payload \in Payloads,
             Publish(c, t, payload)
      PROVE  TypeOK'
  BY <1>4, ExtractType DEF Publish
<1>5. ASSUME NEW c \in Call, PublishStep(c) PROVE TypeOK'
  <2>1. CASE Republish(c)
    BY <2>1, SwapType DEF Republish
  <2>2. CASE LockRef(c)
    <3> DEFINE l == IF locks[target[c]] # None THEN locks[target[c]]
                    ELSE CHOOSE k \in Call : refs[k] = 0
    <3>1. pc[c] = "ref" /\ tl[c] = None
      BY <2>2 DEF LockRef, Phases, Publishing
    <3>2. l \in Call
      BY <3>1, FreeLock DEF Phases
    <3>3. /\ locks' = [locks EXCEPT ![target[c]] = l]
          /\ free' = [free EXCEPT ![l] = IF locks[target[c]] = None THEN TRUE
                                         ELSE @]
          /\ refs' = [refs EXCEPT ![l] = @ + 1]
          /\ tl' = [tl EXCEPT ![c] = l]
          /\ pc' = [pc EXCEPT ![c] = "wait"]
          /\ UNCHANGED <<registryVars, mounts, target, carried, restarting,
                         outcome, processVars, kubeletVars>>
      BY <2>2 DEF LockRef, AddRef
    <3> HIDE DEF l
    <3>4. free' \in [Call -> BOOLEAN]
      <4>1. CASE locks[target[c]] = None
        BY <3>2, <3>3, <4>1
      <4>2. CASE locks[target[c]] # None
        BY <3>2, <3>3, <4>2
      <4> QED
        BY <4>1, <4>2
    <3>5. refs' \in [Call -> Nat]
      BY <3>2, <3>3
    <3>6. locks' \in [Target -> Call \cup {None}]
      BY <3>2, <3>3
    <3> QED
      BY <3>2, <3>3, <3>4, <3>5, <3>6
  <2>3. CASE LockTake(c)
    BY <2>3 DEF LockTake
  <2>4. CASE Recheck(c)
    <3>1. token' \in [Target -> 1..MaxTokens \cup {None}]
      <4>1. SwapToken(c) \/ UNCHANGED token
        BY <2>4 DEF Recheck
      <4> QED
        BY <4>1, SwapType
    <3>2. restarting' \in [Call -> BOOLEAN]
      <4>1. CASE target[c] \in live
        BY <2>4, <4>1 DEF Recheck
      <4>2. CASE target[c] \notin live
        <5>1. restarting' = [restarting EXCEPT ![c] = target[c] \in records]
          BY <2>4, <4>2 DEF Recheck
        <5> QED
          BY <5>1, Flags
      <4> QED
        BY <4>1, <4>2
    <3> QED
      BY <2>4, <3>1, <3>2 DEF Recheck
  <2>5. CASE Authorize(c)
    BY <2>5 DEF Authorize
  <2>6. CASE Refuse(c)
    BY <2>6 DEF Refuse
  <2>7. CASE Detach(c)
    BY <2>7, UnmountType DEF Detach
  <2>8. CASE Mount(c)
    BY <2>8, Stacks DEF Mount
  <2>9. CASE MountFails(c)
    BY <2>9 DEF MountFails
  <2>10. CASE Put(c)
    BY <2>10 DEF Put, Phases
  <2>11. CASE Persist(c)
    BY <2>11 DEF Persist
  <2>12. CASE PersistFails(c)
    BY <2>12, UnmountType DEF PersistFails
  <2>13. CASE Unlock(c)
    BY <2>13 DEF Unlock
  <2>14. CASE Unref(c)
    <3>1. tl[c] \in Call /\ refs[tl[c]] # 0
      BY <2>14, Uncounted DEF Unref, Phases, LockInv, Refs
    <3>2. published' \in [Target -> BOOLEAN]
      <4>1. published' = [published EXCEPT ![target[c]] = @ \/ outcome[c] = "ok"]
        BY <2>14 DEF Unref
      <4> QED
        BY <4>1, Zenon
    <3> QED
      BY <2>14, <3>1, <3>2 DEF Unref
  <2> QED
    BY <1>5, <2>1, <2>2, <2>3, <2>4, <2>5, <2>6, <2>7, <2>8, <2>9, <2>10,
       <2>11, <2>12, <2>13, <2>14 DEF PublishStep
<1>6. ASSUME NEW c \in Call, DeleteStep(c) PROVE TypeOK'
  <2>1. CASE DeleteUnmount(c)
    <3>1. mounts' \in [Target -> Seq({"served", "dead"})]
      BY <2>1, UnmountType DEF DeleteUnmount
    <3>2. /\ pc' = [pc EXCEPT ![c] = "save"]
          /\ \/ UNCHANGED outcome
             \/ outcome' = [outcome EXCEPT ![c] = "error"]
      BY <2>1 DEF DeleteUnmount, Goto
    <3> QED
      BY <2>1, <3>1, <3>2 DEF DeleteUnmount
  <2>2. CASE DeleteSave(c)
    <3>1. phase' \in [Target -> {"wanted", "removing", "removed"}]
      <4>1. /\ phase \in [Target -> {"wanted", "removing", "removed"}]
            /\ \/ phase' = phase
               \/ phase' = [phase EXCEPT ![target[c]] = phase[target[c]]]
               \/ phase' = [phase EXCEPT ![target[c]] = "removed"]
        BY <2>2 DEF DeleteSave
      <4> QED
        BY ONLY <4>1
    <3>2. disk' \subseteq Target
      BY <2>2 DEF DeleteSave
    <3> QED
      BY <2>2, <3>1, <3>2 DEF DeleteSave
  <2> QED
    BY <1>6, <2>1, <2>2 DEF DeleteStep
<1>7. CASE ShutdownStep
  <2>1. CASE ShutdownBegin
    BY <2>1 DEF ShutdownBegin
  <2>2. ASSUME NEW t \in Target, ShutdownUnmount(t) PROVE TypeOK'
    BY <2>2, UnmountType DEF ShutdownUnmount
  <2> QED
    BY <1>7, <2>1, <2>2 DEF ShutdownStep
<1>8. CASE Restart
  BY <1>8, Stacks DEF Restart
<1>9. CASE UNCHANGED vars
  BY <1>9 DEF vars
<1> QED
  BY <1>1, <1>2, <1>3, <1>4, <1>5, <1>6, <1>7, <1>8, <1>9 DEF Next

(* The rest of LockInv is untouched by a step that leaves the locks alone   *)
(* and lets nobody into the section they guard.                             *)
LEMMA LockKept ==
    ASSUME LockInv, UNCHANGED <<lockVars, target, tl>>,
           \A c \in Call : Publishing(c)' => Publishing(c)
    PROVE  Table' /\ Counted' /\ Token'
<1> USE DEF LockInv, lockVars
<1>1. \A l : Refs(l)' = Refs(l)
  BY DEF Refs
<1>2. Table'
  BY <1>1 DEF Table
<1>3. Counted'
  BY <1>1 DEF Counted
<1>4. Token'
  BY DEF Token
<1> QED
  BY <1>2, <1>3, <1>4

(* A handler without a lock forgets nothing of the locks. *)
LEMMA ForgetKept ==
    ASSUME LockInv, NEW c \in Call, tl[c] = None,
           Forget(c), UNCHANGED lockVars
    PROVE  Phases' /\ Table' /\ Counted' /\ Token'
<1> USE DEF LockInv
<1>1. UNCHANGED tl
  BY DEF TypeOK, Forget
<1>2. target' = [target EXCEPT ![c] = None] /\ pc' = [pc EXCEPT ![c] = "idle"]
  BY DEF Forget, Goto
<1>3. Phases'
  BY <1>1, <1>2 DEF Phases, TypeOK, Publishing
<1>4. \A l : Refs(l)' = Refs(l)
  BY <1>1 DEF Refs
<1>5. Table'
  BY <1>1, <1>2, <1>4 DEF Table, TypeOK, lockVars
<1>6. Counted'
  BY <1>4 DEF Counted, lockVars
<1>7. Token'
  BY <1>1, <1>2 DEF Token, Publishing, TypeOK, lockVars
<1> QED
  BY <1>3, <1>5, <1>6, <1>7

(* lockTarget: a lock that is new to the table is new to everybody. *)
LEMMA LockRefStep ==
    ASSUME LockInv, NEW c \in Call, LockRef(c)
    PROVE  Phases' /\ Table' /\ Counted' /\ Token'
<1> USE DEF LockInv
<1> PICK t : t = target[c]
  OBVIOUS
<1> PICK l : l = IF locks[t] # None THEN locks[t]
                 ELSE CHOOSE k \in Call : refs[k] = 0
  OBVIOUS
<1>1. pc[c] = "ref" /\ tl[c] = None /\ t \in Target
  BY DEF LockRef, Phases, Publishing, TypeOK
<1>2. /\ l \in Call
      /\ locks[t] = None => refs[l] = 0
      /\ locks[t] # None => l = locks[t]
  BY <1>1, FreeLock DEF TypeOK
<1>3. /\ locks' = [locks EXCEPT ![t] = l]
      /\ free' = [free EXCEPT ![l] = IF locks[t] = None THEN TRUE ELSE @]
      /\ refs' = [refs EXCEPT ![l] = @ + 1]
      /\ tl' = [tl EXCEPT ![c] = l]
      /\ pc' = [pc EXCEPT ![c] = "wait"]
      /\ target' = target
  BY DEF LockRef, AddRef, Goto
<1>4. l # None /\ c \notin Refs(l)
  BY <1>1, <1>2, PluginAssumption DEF Refs
<1>5. /\ Refs(l)' = Refs(l) \cup {c}
      /\ \A k \in Call : k # l => Refs(k)' = Refs(k)
  <2>1. \A d \in Call : tl'[d] = IF d = c THEN l ELSE tl[d]
    BY <1>3 DEF TypeOK
  <2>2. tl[c] \notin Call
    BY <1>1, PluginAssumption
  <2> QED
    BY <1>2, <2>1, <2>2 DEF Refs
<1>6. locks[t] = None => Refs(l) = {} /\ \A u \in Target : locks[u] # l
  <2>1. locks[t] = None => Refs(l) = {}
    BY <1>2, Uncounted
  <2> QED
    BY <1>4, <2>1 DEF Table, Refs
<1>7. Phases'
  BY <1>1, <1>2, <1>3, PluginAssumption DEF Phases, Publishing, TypeOK
<1>8. Table'
  <2>1. \A d \in Call : tl'[d] # None => locks'[target'[d]] = tl'[d]
    BY <1>1, <1>2, <1>3, <1>6 DEF Table, TypeOK, Refs
  <2>2. \A u, w \in Target : locks'[u] # None /\ locks'[u] = locks'[w] => u = w
    BY <1>1, <1>2, <1>3, <1>6 DEF Table, TypeOK
  <2>3. \A u \in Target : locks'[u] # None => \E d \in Call : tl'[d] = locks'[u]
    BY <1>1, <1>2, <1>3 DEF Table, TypeOK
  <2> QED
    BY <2>1, <2>2, <2>3 DEF Table
<1>9. Counted'
  <2>1. Cardinality(Refs(l) \cup {c}) = Cardinality(Refs(l)) + 1
    BY <1>4, RefsFinite, FS_AddElement
  <2> QED
    BY <1>2, <1>3, <1>5, <2>1 DEF Counted, TypeOK
<1>10. Token'
  <2>1. \A d \in Call : Publishing(d)' => d # c /\ Publishing(d) /\ tl'[d] = tl[d]
    BY <1>1, <1>3 DEF Publishing, TypeOK
  <2>2. \A d \in Call : Publishing(d) => tl[d] \in Call
    BY DEF Phases, TypeOK
  <2>3. \A d \in Call : Publishing(d) /\ tl[d] = l => locks[t] # None
    BY <1>6 DEF Refs
  <2> QED
    BY <1>2, <1>3, <2>1, <2>2, <2>3 DEF Token, TypeOK
<1> QED
  BY <1>7, <1>8, <1>9, <1>10

(* unlockTarget: the table forgets a lock when it loses its last reference, *)
(* and not before.                                                          *)
LEMMA UnrefStep ==
    ASSUME LockInv, NEW c \in Call, Unref(c)
    PROVE  Phases' /\ Table' /\ Counted' /\ Token'
<1> USE DEF LockInv
<1> PICK t, l : t = target[c] /\ l = tl[c]
  OBVIOUS
<1>1. pc[c] = "unref" /\ l \in Call /\ l # None /\ t \in Target /\ locks[t] = l
  BY PluginAssumption DEF Unref, Phases, Publishing, TypeOK, Table
<1>2. /\ locks' = [locks EXCEPT ![t] = IF refs[l] = 1 THEN None ELSE @]
      /\ free' = free
      /\ refs' = [refs EXCEPT ![l] = @ - 1]
      /\ tl' = [tl EXCEPT ![c] = None]
      /\ pc' = [pc EXCEPT ![c] = "idle"]
      /\ target' = [target EXCEPT ![c] = None]
  BY DEF Unref, LastRef, Forget, Goto
<1>3. c \in Refs(l)
  BY DEF Refs
<1>4. /\ Refs(l)' = Refs(l) \ {c}
      /\ \A k \in Call : k # l => Refs(k)' = Refs(k)
  BY <1>1, <1>2, PluginAssumption DEF Refs, TypeOK
<1>5. refs[l] = 1 <=> Refs(l) = {c}
  BY <1>1, <1>3, RefsFinite, FS_Singleton DEF Counted
<1>6. Phases'
  BY <1>1, <1>2, PluginAssumption DEF Phases, Publishing, TypeOK
<1>7. Table'
  <2>1. \A d \in Call : tl'[d] # None => locks'[target'[d]] = tl'[d]
    <3> SUFFICES ASSUME NEW d \in Call, tl'[d] # None
                 PROVE  locks'[target'[d]] = tl'[d]
      OBVIOUS
    <3>1. d # c /\ tl'[d] = tl[d] /\ target'[d] = target[d]
      BY <1>2 DEF TypeOK
    <3>2. tl[d] = l => refs[l] # 1
      BY <1>5, <3>1 DEF Refs
    <3>3. locks[target[d]] = tl[d]
      BY <3>1 DEF Table
    <3>4. target[d] \in Target
      BY <3>1 DEF Phases, TypeOK, Publishing
    <3> QED
      BY <1>1, <1>2, <3>1, <3>2, <3>3, <3>4 DEF TypeOK
  <2>2. \A u, w \in Target : locks'[u] # None /\ locks'[u] = locks'[w] => u = w
    BY <1>1, <1>2 DEF Table, TypeOK
  <2>3. \A u \in Target : locks'[u] # None => \E d \in Call : tl'[d] = locks'[u]
    <3> SUFFICES ASSUME NEW u \in Target, locks'[u] # None
                 PROVE  \E d \in Call : tl'[d] = locks'[u]
      OBVIOUS
    <3>1. CASE u = t
      <4>1. locks'[u] = l /\ Refs(l) # {c}
        BY <1>1, <1>2, <1>5, <3>1 DEF TypeOK
      <4> QED
        BY <1>2, <1>3, <4>1 DEF Refs, TypeOK
    <3>2. CASE u # t
      <4>1. locks'[u] = locks[u] /\ locks[u] # l
        BY <1>1, <1>2, <3>2 DEF Table, TypeOK
      <4> QED
        BY <1>2, <4>1 DEF Table, TypeOK
    <3> QED
      BY <3>1, <3>2
  <2> QED
    BY <2>1, <2>2, <2>3 DEF Table
<1>8. Counted'
  <2>1. Cardinality(Refs(l) \ {c}) = Cardinality(Refs(l)) - 1
    BY <1>3, RefsFinite, FS_RemoveElement
  <2> QED
    BY <1>1, <1>2, <1>4, <2>1 DEF Counted, TypeOK
<1>9. Token'
  BY <1>1, <1>2 DEF Token, Publishing, TypeOK
<1> QED
  BY <1>6, <1>7, <1>8, <1>9

(* Every step preserves LockInv. *)
LEMMA LockStep == LockInv /\ [Next]_vars => LockInv'
<1> SUFFICES ASSUME LockInv, [Next]_vars PROVE LockInv'
  OBVIOUS
<1> DEFINE Rest == Phases' /\ Table' /\ Counted' /\ Token'
<1>0. TypeOK /\ Phases /\ TypeOK'
  BY TypeStep DEF LockInv
<1>00. ASSUME NEW c \in Call, UNCHANGED <<lockVars, target, tl>>,
              NEW w, pc' = [pc EXCEPT ![c] = w], pc[c] # "idle", w # "idle",
              Publishing(c) \/ pc[c] \in {"wait", "unref"} <=>
                w \in {"recheck", "check", "detach", "mount", "put",
                       "persist", "unlock", "wait", "unref"},
              Publishing(c) \/ w \notin {"recheck", "check", "detach",
                "mount", "put", "persist", "unlock"}
       PROVE  Rest
  <2>1. \A d \in Call : pc'[d] = IF d = c THEN w ELSE pc[d]
    BY <1>0, <1>00 DEF TypeOK
  <2>2. Phases'
    BY <1>0, <1>00, <2>1 DEF Phases, Publishing
  <2>3. \A d \in Call : Publishing(d)' => Publishing(d)
    BY <1>00, <2>1 DEF Publishing
  <2> QED
    BY <1>00, <2>2, <2>3, LockKept
<1>01. ASSUME UNCHANGED <<lockVars, target, tl, pc>> PROVE Rest
  <2>1. Phases' /\ \A d \in Call : Publishing(d)' => Publishing(d)
    BY <1>0, <1>01 DEF Phases, Publishing
  <2> QED
    BY <1>01, <2>1, LockKept
<1> USE DEF lockVars, callVars, handlerVars, Goto, Answer, PublishError,
            Publishing
<1>1. ASSUME NEW t \in Target, Mint(t) \/ PodDeleted(t) PROVE Rest
  BY <1>1, <1>01 DEF Mint, PodDeleted
<1>2. ASSUME NEW c \in Call, NEW t \in Target, NEW w \in {"swap", "ref",
               "unmount", "undetach", "save"}, pc[c] = "idle",
             pc' = [pc EXCEPT ![c] = w], target' = [target EXCEPT ![c] = t],
             UNCHANGED <<lockVars, tl>>
      PROVE  Rest
  <2>1. \A d \in Call : /\ pc'[d] = IF d = c THEN w ELSE pc[d]
                        /\ target'[d] = IF d = c THEN t ELSE target[d]
    BY <1>0, <1>2 DEF TypeOK
  <2>2. tl[c] = None
    BY <1>0, <1>2 DEF Phases
  <2>3. Phases'
    BY <1>0, <1>2, <2>1, PluginAssumption DEF Phases
  <2>4. \A l : Refs(l)' = Refs(l)
    BY <1>2 DEF Refs
  <2>5. Table'
    BY <1>2, <2>1, <2>2 DEF LockInv, Table
  <2>6. Counted'
    BY <1>2, <2>4 DEF LockInv, Counted
  <2>7. Token'
    BY <1>2, <2>1 DEF LockInv, Token
  <2> QED
    BY <2>3, <2>5, <2>6, <2>7
<1>3. ASSUME NEW c \in Call, NEW t \in Target, Delete(c, t) PROVE Rest
  BY <1>2, <1>3 DEF Delete
<1>4. ASSUME NEW c \in Call, NEW t \in Target, NEW payload \in Payloads,
             Publish(c, t, payload)
      PROVE  Rest
  BY <1>2, <1>4 DEF Publish
<1>5. ASSUME NEW c \in Call, PublishStep(c) PROVE Rest
  <2>1. CASE Republish(c)
    BY <1>0, <2>1, ForgetKept DEF Republish, Phases
  <2>2. CASE LockRef(c)
    BY <2>2, LockRefStep
  <2>3. CASE LockTake(c)
    <3>1. /\ pc[c] = "wait" /\ free[tl[c]] /\ tl[c] \in Call
          /\ free' = [free EXCEPT ![tl[c]] = FALSE]
          /\ pc' = [pc EXCEPT ![c] = "recheck"]
          /\ UNCHANGED <<locks, refs, tl, target>>
      BY <1>0, <2>3 DEF LockTake, Phases, TypeOK
    <3>2. Phases'
      BY <1>0, <3>1 DEF Phases, TypeOK
    <3>3. Table' /\ Counted'
      BY <3>1 DEF LockInv, Table, Counted, Refs
    <3>4. \A d \in Call : Publishing(d)' => d = c \/ Publishing(d)
      BY <1>0, <3>1 DEF TypeOK
    <3>5. \A d \in Call : Publishing(d) => tl[d] # tl[c] /\ tl[d] \in Call
      BY <1>0, <3>1 DEF LockInv, Token, Phases, TypeOK
    <3>6. Token'
      BY <1>0, <3>1, <3>4, <3>5 DEF LockInv, Token, TypeOK
    <3> QED
      BY <3>2, <3>3, <3>6
  <2>4. CASE Recheck(c)
    BY <1>00, <2>4 DEF Recheck
  <2>5. CASE Authorize(c)
    BY <1>00, <2>5 DEF Authorize
  <2>6. CASE Refuse(c)
    BY <1>00, <2>6 DEF Refuse
  <2>7. CASE Detach(c)
    BY <1>00, <2>7 DEF Detach
  <2>8. CASE Mount(c)
    BY <1>00, <2>8 DEF Mount
  <2>9. CASE MountFails(c)
    BY <1>00, <2>9 DEF MountFails
  <2>10. CASE Put(c)
    BY <1>00, <2>10 DEF Put
  <2>11. CASE Persist(c)
    BY <1>00, <2>11 DEF Persist
  <2>12. CASE PersistFails(c)
    BY <1>00, <2>12 DEF PersistFails
  <2>13. CASE Unlock(c)
    <3>1. /\ pc[c] = "unlock" /\ tl[c] \in Call
          /\ free' = [free EXCEPT ![tl[c]] = TRUE]
          /\ pc' = [pc EXCEPT ![c] = "unref"]
          /\ UNCHANGED <<locks, refs, tl, target>>
      BY <1>0, <2>13 DEF Unlock, Phases, TypeOK
    <3>2. Phases'
      BY <1>0, <3>1 DEF Phases, TypeOK
    <3>3. Table' /\ Counted'
      BY <3>1 DEF LockInv, Table, Counted, Refs
    <3>4. \A d \in Call : Publishing(d)' => d # c /\ Publishing(d)
      BY <1>0, <3>1 DEF TypeOK
    <3>5. \A d \in Call : Publishing(d) /\ d # c => tl[d] # tl[c] /\ tl[d] \in Call
      BY <1>0, <3>1 DEF LockInv, Token, Phases, TypeOK
    <3>6. Token'
      BY <1>0, <3>1, <3>4, <3>5 DEF LockInv, Token, TypeOK
    <3> QED
      BY <3>2, <3>3, <3>6
  <2>14. CASE Unref(c)
    BY <2>14, UnrefStep
  <2> QED
    BY <1>5, <2>1, <2>2, <2>3, <2>4, <2>5, <2>6, <2>7, <2>8, <2>9, <2>10,
       <2>11, <2>12, <2>13, <2>14 DEF PublishStep
<1>6. ASSUME NEW c \in Call, DeleteStep(c) PROVE Rest
  <2>1. CASE DeleteUnmount(c)
    BY <1>00, <2>1 DEF DeleteUnmount
  <2>2. CASE DeleteSave(c)
    BY <1>0, <2>2, ForgetKept DEF DeleteSave, Phases
  <2> QED
    BY <1>6, <2>1, <2>2 DEF DeleteStep
<1>7. ASSUME ShutdownStep PROVE Rest
  BY <1>7, <1>01 DEF ShutdownStep, ShutdownBegin, ShutdownUnmount
<1>8. ASSUME Restart PROVE Rest
  <2>1. \A l \in Call : Refs(l)' = {}
    BY <1>8, PluginAssumption DEF Restart, NoCall, Refs
  <2>2. Counted'
    BY <1>8, <2>1, FS_EmptySet DEF Restart, NoCall, Counted
  <2>3. Phases' /\ Table' /\ Token'
    BY <1>8 DEF Restart, NoCall, Phases, Table, Token
  <2> QED
    BY <2>2, <2>3
<1>9. ASSUME UNCHANGED vars PROVE Rest
  BY <1>9, <1>01 DEF vars
<1>10. Rest
  BY <1>1, <1>3, <1>4, <1>5, <1>6, <1>7, <1>8, <1>9 DEF Next
<1> QED
  BY <1>0, <1>10 DEF LockInv

(* NodePlugin keeps to its types. *)
THEOREM TypeCorrect == Spec => []TypeOK
<1>1. Init => LockInv
  BY LockInit
<1>2. LockInv /\ [Next]_vars => LockInv'
  BY LockStep
<1>3. LockInv => TypeOK
  BY DEF LockInv
<1> QED
  BY <1>1, <1>2, <1>3, PTL DEF Spec

(* At most one handler is between lockTarget and unlockTarget of a target,  *)
(* although the lock is made at the first reference and removed with the    *)
(* last, for any number of handlers, overlaps of calls and restarts.        *)
THEOREM Exclusion == Spec => []OnePublisher
<1>1. LockInv => OnePublisher
  BY DEF LockInv, OnePublisher, Table, Token, Phases
<1> QED
  BY <1>1, LockInit, LockStep, PTL DEF Spec

----------------------------------------------------------------------------
(* The mount stack *)

(* What a stack of at most one mount becomes. *)
LEMMA OneMount ==
    ASSUME NEW s \in {<<>>, <<"served">>, <<"dead">>}
    PROVE  /\ s # <<>> => Tail(s) = <<>>
           /\ s = <<>> => <<"served">> \o s = <<"served">>
           /\ [i \in DOMAIN s |-> "dead"] \in {<<>>, <<"dead">>}
           /\ s = <<>> => [i \in DOMAIN s |-> "dead"] = <<>>
<1>1. [i \in DOMAIN <<>> |-> "dead"] = <<>>
  OBVIOUS
<1>2. /\ [i \in DOMAIN <<"served">> |-> "dead"] = <<"dead">>
      /\ [i \in DOMAIN <<"dead">> |-> "dead"] = <<"dead">>
  OBVIOUS
<1>3. <<"served">> \o <<>> = <<"served">>
  OBVIOUS
<1>4. Tail(<<"served">>) = <<>> /\ Tail(<<"dead">>) = <<>>
  OBVIOUS
<1> QED
  BY <1>1, <1>2, <1>3, <1>4

(* A target that is being published has one handler doing so, which nobody  *)
(* else interferes with.                                                    *)
LEMMA Publisher ==
    ASSUME MountInv, NEW c \in Call, ~Deleting(c), pc[c] # "idle"
    PROVE  /\ target[c] \in Target
           /\ \A d \in Call : target[d] = target[c] => ~Deleting(d)
           /\ draining # None /\ target[c] \in draining => target[c] \in live
           /\ Publishing(c) => \A d \in Call :
                target[d] = target[c] /\ Publishing(d) => c = d
<1>1. target[c] \in Target
  BY DEF MountInv, LockInv, Phases, TypeOK
<1>2. \A d \in Call : target[d] = target[c] => ~Deleting(d)
  BY DEF MountInv, Unpublished, Handlers
<1>3. draining # None /\ target[c] \in draining => target[c] \in live
  BY <1>1 DEF MountInv, Unclaimed, Handlers
<1>4. Publishing(c) => \A d \in Call :
        target[d] = target[c] /\ Publishing(d) => c = d
  BY DEF MountInv, LockInv, Table, Token, Phases
<1> QED
  BY <1>1, <1>2, <1>3, <1>4

(* MountInv without the lock's part. *)
MountRest == Unclaimed /\ Unpublished /\ Stack /\ LiveIsMounted

(* A publishing handler goes on to where what it counts on is there. *)
LEMMA MountGoto ==
    ASSUME MountInv, NEW c \in Call, NEW w, Goto(c, w),
           pc[c] # "idle", ~Deleting(c), w \notin {"unmount", "undetach", "save"},
           UNCHANGED <<live, mounts, target, draining, phase>>,
           w \in {"check", "detach", "mount", "put"} => target[c] \notin live,
           w = "mount" => mounts[target[c]] = <<>>,
           w = "put" => mounts[target[c]] = <<"served">>
    PROVE  MountRest'
<1>1. \A d \in Call : pc'[d] = IF d = c THEN w ELSE pc[d]
  BY DEF Goto, MountInv, LockInv, TypeOK
<1>2. \A t : Handlers(t)' = Handlers(t)
  BY DEF Handlers
<1>3. \A d \in Call : Deleting(d)' <=> Deleting(d)
  BY <1>1 DEF Deleting
<1>4. Unclaimed'
  BY <1>1, <1>2, <1>3 DEF MountInv, Unclaimed, Handlers
<1>5. Unpublished'
  BY <1>2, <1>3 DEF MountInv, Unpublished
<1>6. Stack' /\ LiveIsMounted'
  BY <1>1 DEF MountInv, Stack, LiveIsMounted
<1> QED
  BY <1>4, <1>5, <1>6 DEF MountRest

(* A handler that returns leaves the mounts as they are. *)
LEMMA MountForget ==
    ASSUME MountInv, NEW c \in Call, Forget(c),
           UNCHANGED <<live, mounts, draining>>,
           \A t \in Target : phase[t] # "wanted" => phase'[t] # "wanted"
    PROVE  MountRest'
<1>1. \A d \in Call : /\ pc'[d] = IF d = c THEN "idle" ELSE pc[d]
                      /\ target'[d] = IF d = c THEN None ELSE target[d]
  BY DEF Forget, Goto, MountInv, LockInv, TypeOK
<1>2. \A t \in Target : Handlers(t)' = Handlers(t) \ {c}
  BY <1>1, PluginAssumption DEF Handlers
<1>3. \A d \in Call : Deleting(d)' <=> d # c /\ Deleting(d)
  BY <1>1 DEF Deleting
<1>4. Unclaimed'
  BY <1>1, <1>2, <1>3 DEF MountInv, Unclaimed, Handlers
<1>5. Unpublished'
  <2> SUFFICES ASSUME NEW d \in Call, Deleting(d)'
               PROVE  /\ target'[d] \notin live'
                      /\ phase'[target'[d]] # "wanted"
                      /\ Handlers(target[d])' = {d}
    BY DEF Unpublished
  <2>1. d # c /\ Deleting(d) /\ target'[d] = target[d] /\ target[d] \in Target
    BY <1>1, <1>3 DEF MountInv, LockInv, Phases, TypeOK, Deleting
  <2> QED
    BY <1>1, <2>1, PluginAssumption DEF MountInv, Unpublished, Handlers
<1>6. Stack' /\ LiveIsMounted'
  BY <1>1 DEF MountInv, Stack, LiveIsMounted
<1> QED
  BY <1>4, <1>5, <1>6 DEF MountRest

(* What happens at the target of a handler that mounts or unmounts there is *)
(* seen by nobody else.                                                     *)
LEMMA MountHere ==
    ASSUME MountInv, NEW c \in Call, NEW w, Goto(c, w),
           NEW s \in {<<>>, <<"served">>, <<"dead">>},
           \/ pc[c] = "detach" /\ w = "mount" /\ s = <<>>
           \/ pc[c] = "mount" /\ w = "put" /\ s = <<"served">>
           \/ pc[c] \in {"unmount", "undetach"} /\ w = "save",
           mounts' = [mounts EXCEPT ![target[c]] = s],
           UNCHANGED <<live, target, draining, phase>>
    PROVE  MountRest'
<1> USE DEF MountInv
<1>1. target[c] \in Target /\ target[c] \notin live
  BY DEF LockInv, Phases, TypeOK, Unclaimed, Unpublished, Deleting
<1>2. /\ \A d \in Call : pc'[d] = IF d = c THEN w ELSE pc[d]
      /\ \A t \in Target : mounts'[t] = IF t = target[c] THEN s ELSE mounts[t]
  BY DEF Goto, LockInv, TypeOK
<1>3. \A d \in Call : target[d] = target[c] /\ pc[d] \in {"mount", "put"} => d = c
  <2>1. CASE Deleting(c)
    BY <2>1 DEF Unpublished, Handlers
  <2>2. CASE ~Deleting(c)
    BY <2>2, Publisher DEF Publishing, Deleting
  <2> QED
    BY <2>1, <2>2
<1>4. \A t : Handlers(t)' = Handlers(t)
  BY DEF Handlers
<1>5. \A d \in Call : Deleting(d)' <=> Deleting(d)
  BY <1>2 DEF Deleting
<1>6. Unclaimed'
  BY <1>1, <1>2, <1>4, <1>5 DEF Unclaimed, Handlers, Deleting
<1>7. Unpublished'
  BY <1>4, <1>5 DEF Unpublished
<1>8. \A d \in Call : pc[d] \in {"mount", "put"} => target[d] \in Target
  BY DEF LockInv, Phases, TypeOK
<1>9. Stack'
  BY <1>1, <1>2, <1>3, <1>8 DEF Stack, Deleting
<1>10. LiveIsMounted'
  BY <1>1, <1>2 DEF LiveIsMounted
<1> QED
  BY <1>6, <1>7, <1>9, <1>10 DEF MountRest

(* Every step preserves MountInv. *)
LEMMA MountStep == Serial /\ MountInv /\ [Next]_vars => MountInv'
<1> SUFFICES ASSUME Serial, MountInv, [Next]_vars PROVE MountInv'
  OBVIOUS
<1>0. TypeOK /\ Phases /\ LockInv'
  BY LockStep DEF MountInv, LockInv
<1> USE DEF registryVars, lockVars, handlerVars, callVars, kubeletVars,
            processVars
<1>a. ASSUME UNCHANGED <<live, mounts, pc, target, draining>>,
             \A t \in Target : phase[t] # "wanted" => phase'[t] # "wanted"
      PROVE  MountRest'
  <2>1. /\ \A t : Handlers(t)' = Handlers(t)
        /\ \A c : Deleting(c)' <=> Deleting(c)
    BY <1>a DEF Handlers, Deleting
  <2>2. Unclaimed'
    BY <1>a, <2>1 DEF MountInv, Unclaimed
  <2>3. Unpublished'
    <3> SUFFICES ASSUME NEW c \in Call, Deleting(c)
                 PROVE  /\ target[c] \notin live
                        /\ phase'[target[c]] # "wanted"
                        /\ Handlers(target[c]) = {c}
      BY <1>a, <2>1 DEF Unpublished
    <3>1. target[c] \in Target
      BY <1>0 DEF Phases, TypeOK, Deleting
    <3> QED
      BY <1>a, <3>1 DEF MountInv, Unpublished
  <2>4. Stack' /\ LiveIsMounted'
    BY <1>a DEF MountInv, Stack, LiveIsMounted
  <2> QED
    BY <2>2, <2>3, <2>4 DEF MountRest
<1>1. ASSUME NEW t \in Target, Mint(t) PROVE MountRest'
  BY <1>1, <1>a DEF Mint
<1>2. ASSUME NEW t \in Target, PodDeleted(t) PROVE MountRest'
  <2>1. phase' = [phase EXCEPT ![t] = "removing"]
    BY <1>2 DEF PodDeleted
  <2>2. \A u \in Target : phase[u] # "wanted" => phase'[u] # "wanted"
    BY <1>0, <2>1 DEF TypeOK
  <2> QED
    BY <1>2, <1>a, <2>2 DEF PodDeleted
<1>3. ASSUME NEW c \in Call, NEW t \in Target, Delete(c, t) PROVE MountRest'
  <2>1. Handlers(t) = {} /\ phase[t] # "wanted" /\ pc[c] = "idle"
    BY <1>3 DEF Delete, MayArrive, Serial
  <2>2. PICK w \in {"unmount", "undetach", "save"} : Goto(c, w)
    BY <1>3 DEF Delete
  <2>a. /\ live' = live \ {t} /\ UNCHANGED <<mounts, draining, phase>>
        /\ pc' = [pc EXCEPT ![c] = w] /\ target' = [target EXCEPT ![c] = t]
    BY <1>3, <2>2 DEF Delete, Goto
  <2>b. \A d \in Call : pc'[d] = IF d = c THEN w ELSE pc[d]
    BY <1>0, <2>a DEF TypeOK
  <2>c. \A d \in Call : target'[d] = IF d = c THEN t ELSE target[d]
    BY <1>0, <2>a DEF TypeOK
  <2>3. live' = live \ {t} /\ UNCHANGED <<mounts, draining, phase>>
    BY <2>a
  <2>4. Handlers(t)' = {c} /\ \A u \in Target : u # t => Handlers(u)' = Handlers(u)
    BY <1>0, <2>1, <2>3, <2>b, <2>c, PluginAssumption DEF Handlers, Phases
  <2>5. /\ Deleting(c)'
        /\ \A d \in Call : d # c => (Deleting(d)' <=> Deleting(d))
    BY <2>3, <2>b, <2>c DEF Deleting
  <2>6. Unclaimed'
    <3>1. \A u \in Target : draining' # None /\ u \in draining' /\ u \notin live' =>
            phase'[u] # "wanted" /\ \A d \in Handlers(u)' : Deleting(d)'
      <4> SUFFICES ASSUME NEW u \in Target, draining # None, u \in draining, u \notin live'
                   PROVE  phase[u] # "wanted" /\ \A d \in Handlers(u)' : Deleting(d)'
        BY <2>a
      <4>1. CASE u = t
        BY <2>1, <2>4, <2>5, <4>1
      <4>2. CASE u # t
        BY <2>1, <2>3, <2>b, <2>c, <2>4, <2>5, <4>2 DEF MountInv, Unclaimed, Handlers
      <4> QED
        BY <4>1, <4>2
    <3> QED
      BY <2>3, <2>b, <2>c, <3>1 DEF MountInv, Unclaimed, Handlers
  <2>7. Unpublished'
    <3> SUFFICES ASSUME NEW d \in Call, Deleting(d)'
                 PROVE  /\ target'[d] \notin live'
                        /\ phase'[target'[d]] # "wanted"
                        /\ \A e \in Call : target'[e] = target'[d] <=> e = d
      BY DEF Unpublished, Handlers
    <3>1. CASE d = c
      BY <2>1, <2>3, <2>b, <2>c, <3>1 DEF Handlers
    <3>2. CASE d # c
      BY <2>1, <2>3, <2>b, <2>c, <2>5, <3>2 DEF Handlers, MountInv, Unpublished
    <3> QED
      BY <3>1, <3>2
  <2>8. Stack' /\ LiveIsMounted'
    BY <2>3, <2>b, <2>c DEF MountInv, Stack, LiveIsMounted
  <2> QED
    BY <2>6, <2>7, <2>8 DEF MountRest
<1>4. ASSUME NEW c \in Call, NEW t \in Target, NEW payload \in Payloads,
             Publish(c, t, payload)
      PROVE  MountRest'
  <2>1. phase[t] = "wanted" /\ pc[c] = "idle"
    BY <1>4 DEF Publish
  <2>2. PICK w \in {"swap", "ref"} : Goto(c, w)
    BY <1>4 DEF Publish
  <2>a. /\ UNCHANGED <<live, mounts, draining, phase>>
        /\ pc' = [pc EXCEPT ![c] = w] /\ target' = [target EXCEPT ![c] = t]
    BY <1>4, <2>2 DEF Publish, Goto
  <2>b. \A d \in Call : pc'[d] = IF d = c THEN w ELSE pc[d]
    BY <1>0, <2>a DEF TypeOK
  <2>c. \A d \in Call : target'[d] = IF d = c THEN t ELSE target[d]
    BY <1>0, <2>a DEF TypeOK
  <2>3. UNCHANGED <<live, mounts, draining, phase>>
    BY <2>a
  <2>4. \A u \in Target : u # t => Handlers(u)' = Handlers(u)
    BY <1>0, <2>1, <2>3, <2>b, <2>c, PluginAssumption DEF Handlers, Phases
  <2>5. \A d \in Call : Deleting(d)' <=> Deleting(d)
    BY <2>1, <2>b DEF Deleting
  <2>6. Unclaimed'
    <3>1. \A u \in Target : draining # None /\ u \in draining /\ u \notin live =>
            phase[u] # "wanted" /\ \A d \in Handlers(u)' : Deleting(d)'
      BY <2>1, <2>4, <2>5 DEF MountInv, Unclaimed, Handlers
    <3>2. \A d \in Call : pc'[d] \in {"check", "detach", "mount", "put"}
                           => target'[d] \notin live
      BY <2>b, <2>c DEF MountInv, Unclaimed
    <3> QED
      BY <2>3, <3>1, <3>2 DEF Unclaimed
  <2>7. Unpublished'
    <3> SUFFICES ASSUME NEW d \in Call, Deleting(d)'
                 PROVE  /\ target'[d] \notin live'
                        /\ phase'[target'[d]] # "wanted"
                        /\ \A e \in Call : target'[e] = target'[d] <=> e = d
      BY DEF Unpublished, Handlers
    <3>1. d # c /\ Deleting(d)
      BY <2>1, <2>5 DEF Deleting
    <3> QED
      BY <2>1, <2>3, <2>b, <2>c, <3>1 DEF Handlers, MountInv, Unpublished
  <2>8. Stack' /\ LiveIsMounted'
    BY <2>3, <2>b, <2>c DEF MountInv, Stack, LiveIsMounted
  <2> QED
    BY <2>6, <2>7, <2>8 DEF MountRest
<1>5. ASSUME NEW c \in Call, PublishStep(c) PROVE MountRest'
  <2>1. CASE Republish(c)
    BY <2>1, MountForget DEF Republish
  <2>2. CASE LockRef(c)
    BY <2>2, MountGoto DEF LockRef, Deleting
  <2>3. CASE LockTake(c)
    BY <2>3, MountGoto DEF LockTake, Deleting
  <2>4. CASE Recheck(c)
    <3>1. CASE target[c] \in live
      BY <2>4, <3>1, MountGoto DEF Recheck, Answer, Deleting
    <3>2. CASE target[c] \notin live
      BY <2>4, <3>2, MountGoto DEF Recheck, Deleting
    <3> QED
      BY <3>1, <3>2
  <2>5. CASE Authorize(c)
    BY <2>5, MountGoto DEF Authorize, Deleting, MountInv, Unclaimed
  <2>6. CASE Refuse(c)
    BY <2>6, MountGoto DEF Refuse, Deleting, PublishError, Answer
  <2>7. CASE Detach(c)
    <3>1. CASE DetachFails(target[c]) /\ PublishError(c)
      BY <2>7, <3>1, MountGoto
         DEF Detach, DetachFails, Deleting, PublishError, Answer
    <3>2. CASE ~Mounted(target[c]) /\ UNCHANGED mounts /\ Goto(c, "mount")
      BY <2>7, <3>2, MountGoto
         DEF Detach, Mounted, Deleting, MountInv, Unclaimed
    <3>3. CASE Unmount(target[c]) /\ Goto(c, "mount")
      <4>1. target[c] \in Target
        BY <1>0, <2>7 DEF Detach, Phases, TypeOK
      <4>2. mounts' = [mounts EXCEPT ![target[c]] = <<>>]
        BY <3>3, <4>1, OneMount DEF Unmount, Mounted, MountInv, Stack
      <4> QED
        <5>1. /\ pc[c] = "detach" /\ ~Deleting(c)
              /\ UNCHANGED <<live, target, draining, phase>>
          BY <2>7 DEF Detach, Deleting
        <5> QED
          BY <3>3, <4>2, <5>1, MountHere
    <3> QED
      BY <2>7, <3>1, <3>2, <3>3 DEF Detach, DetachStale, Cleared
  <2>8. CASE Mount(c)
    <3>1. mounts' = [mounts EXCEPT ![target[c]] = <<"served">>]
      BY <2>8, OneMount DEF Mount, MountInv, Stack
    <3> QED
      <4>1. /\ pc[c] = "mount" /\ ~Deleting(c) /\ Goto(c, "put")
            /\ UNCHANGED <<live, target, draining, phase>>
        BY <2>8 DEF Mount, Deleting
      <4> QED
        BY <3>1, <4>1, MountHere
  <2>9. CASE MountFails(c)
    BY <2>9, MountGoto DEF MountFails, Deleting, PublishError, Answer
  <2>10. CASE Put(c)
    <3> PICK t : t = target[c]
      OBVIOUS
    <3>1. /\ pc[c] = "put" /\ ~Deleting(c) /\ Publishing(c)
          /\ live' = live \cup {t}
          /\ UNCHANGED <<mounts, target, draining, phase>>
          /\ \A d \in Call : pc'[d] = IF d = c THEN "persist" ELSE pc[d]
      BY <1>0, <2>10 DEF Put, Goto, TypeOK, Deleting, Publishing
    <3>2. /\ \A u : Handlers(u)' = Handlers(u)
          /\ \A d \in Call : Deleting(d)' <=> Deleting(d)
      BY <3>1 DEF Handlers, Deleting
    <3>3. /\ \A d \in Call : target[d] = t => ~Deleting(d)
          /\ \A d \in Call : target[d] = t /\ Publishing(d) => d = c
      BY <3>1, Publisher
    <3>4. Unclaimed'
      BY <3>1, <3>2, <3>3 DEF MountInv, Unclaimed, Handlers, Publishing
    <3>5. Unpublished'
      BY <3>1, <3>2, <3>3 DEF MountInv, Unpublished
    <3>6. Stack' /\ LiveIsMounted'
      BY <3>1 DEF MountInv, Stack, LiveIsMounted
    <3> QED
      BY <3>4, <3>5, <3>6 DEF MountRest
  <2>11. CASE Persist(c)
    BY <2>11, MountGoto DEF Persist, Deleting, Answer
  <2>12. CASE PersistFails(c)
    BY <2>12 DEF PersistFails, Serial
  <2>13. CASE Unlock(c)
    BY <2>13, MountGoto DEF Unlock, Deleting
  <2>14. CASE Unref(c)
    BY <2>14, MountForget DEF Unref
  <2> QED
    BY <1>5, <2>1, <2>2, <2>3, <2>4, <2>5, <2>6, <2>7, <2>8, <2>9, <2>10,
       <2>11, <2>12, <2>13, <2>14 DEF PublishStep
<1>6. ASSUME NEW c \in Call, DeleteStep(c) PROVE MountRest'
  <2>1. CASE DeleteUnmount(c)
    <3>1. pc[c] \in {"unmount", "undetach"} /\ target[c] \in Target
      BY <1>0, <2>1 DEF DeleteUnmount, Phases, TypeOK
    <3>2. PICK s \in {<<>>, <<"served">>, <<"dead">>} :
            mounts' = [mounts EXCEPT ![target[c]] = s]
      <4>1. mounts[target[c]] \in {<<>>, <<"served">>, <<"dead">>}
        BY <3>1 DEF MountInv, Stack
      <4>2. CASE UNCHANGED mounts
        <5>1. mounts' = [mounts EXCEPT ![target[c]] = mounts[target[c]]]
          BY <1>0, <4>2 DEF TypeOK
        <5> QED
          BY <4>1, <5>1
      <4>3. CASE Unmount(target[c])
        BY <4>1, <4>3, OneMount DEF Unmount, Mounted
      <4> QED
        BY <2>1, <4>2, <4>3
           DEF DeleteUnmount, UnmountFails, DetachStale, Cleared, DetachFails
    <3>3. Goto(c, "save") /\ UNCHANGED <<live, target, draining, phase>>
      BY <2>1 DEF DeleteUnmount
    <3> QED
      <4>1. Deleting(c)
        BY <3>1 DEF Deleting
      <4> QED
        BY <3>1, <3>2, <3>3, <4>1, MountHere
  <2>2. CASE DeleteSave(c)
    <3>1. \A t \in Target : phase[t] # "wanted" => phase'[t] # "wanted"
      BY <1>0, <2>2 DEF DeleteSave, TypeOK
    <3> QED
      BY <2>2, <3>1, MountForget DEF DeleteSave
  <2> QED
    BY <1>6, <2>1, <2>2 DEF DeleteStep
<1>7. ASSUME ShutdownBegin PROVE MountRest'
  <2>1. draining = None /\ draining' = live /\ UNCHANGED <<live, mounts, pc, target, phase>>
    BY <1>7 DEF ShutdownBegin
  <2>2. Unclaimed' /\ Unpublished' /\ Stack' /\ LiveIsMounted'
    BY <2>1 DEF MountInv, Unclaimed, Unpublished, Stack, LiveIsMounted, Handlers, Deleting
  <2> QED
    BY <2>2 DEF MountRest
<1>8. ASSUME NEW t \in Target, ShutdownUnmount(t) PROVE MountRest'
  <2>1. /\ draining # None /\ t \in draining /\ draining' = draining \ {t}
        /\ draining' # None
        /\ UNCHANGED <<live, pc, target, phase>>
    BY <1>0, <1>8, PluginAssumption DEF ShutdownUnmount, TypeOK
  <2>2. \A u \in Target : \/ mounts'[u] = mounts[u]
                          \/ u = t /\ mounts'[u] = <<>>
    <3>1. CASE UNCHANGED mounts
      BY <3>1
    <3>2. CASE Unmount(t)
      <4>1. Tail(mounts[t]) = <<>>
        BY <3>2, OneMount DEF Unmount, Mounted, MountInv, Stack
      <4> QED
        BY <1>0, <3>2, <4>1 DEF Unmount, TypeOK
    <3> QED
      BY <1>8, <3>1, <3>2 DEF ShutdownUnmount, UnmountFails
  <2>3. \A c \in Call : pc[c] \in {"mount", "put"} =>
                         target[c] # t /\ target[c] \in Target
    BY <2>1, Publisher DEF MountInv, Unclaimed, Deleting
  <2>4. Unclaimed' /\ Unpublished' /\ LiveIsMounted'
    BY <2>1 DEF MountInv, Unclaimed, Unpublished, LiveIsMounted, Handlers, Deleting
  <2>5. Stack'
    BY <2>1, <2>2, <2>3 DEF MountInv, Stack
  <2> QED
    BY <2>4, <2>5 DEF MountRest
<1>9. ASSUME Restart PROVE MountRest'
  <2>1. /\ live' = {} /\ draining' = None
        /\ \A c \in Call : pc'[c] = "idle"
        /\ \A t \in Target : mounts'[t] = [i \in DOMAIN mounts[t] |-> "dead"]
    BY <1>9 DEF Restart, NoCall
  <2>2. Unclaimed' /\ Unpublished' /\ LiveIsMounted'
    BY <2>1 DEF Unclaimed, Unpublished, LiveIsMounted, Deleting
  <2>3. Stack'
    BY <2>1, OneMount DEF MountInv, Stack
  <2> QED
    BY <2>2, <2>3 DEF MountRest
<1>10. ASSUME UNCHANGED vars PROVE MountRest'
  BY <1>10, <1>a DEF vars
<1>11. MountRest'
  BY <1>1, <1>2, <1>3, <1>4, <1>5, <1>6, <1>7, <1>8, <1>9, <1>10
     DEF Next, ShutdownStep
<1> QED
  BY <1>0, <1>11 DEF MountInv, MountRest

(* MountInv holds initially. *)
LEMMA MountInit == Init => MountInv
BY LockInit, PluginAssumption
   DEF Init, NoCall, MountInv, Unclaimed, Unpublished, Stack, LiveIsMounted,
       Deleting

(* What the fast path answers for is mounted and served by this process,    *)
(* exactly once, in every sequence of publishes, republishes, shutdowns and *)
(* restarts, for as long as the state file can be written and the kubelet   *)
(* lets a call return before it unpublishes.                                *)
THEOREM Served == Serial => (Spec => []LiveIsMounted)
<1>1. MountInv => LiveIsMounted
  BY DEF MountInv
<1>2. Serial /\ MountInv /\ [Next]_vars => MountInv'
  BY MountStep
<1>3. SUFFICES ASSUME Serial PROVE Spec => []LiveIsMounted
  OBVIOUS
<1>4. MountInv /\ [Next]_vars => MountInv'
  BY <1>2, <1>3
<1> QED
  BY <1>1, <1>4, MountInit, PTL DEF Spec

----------------------------------------------------------------------------
(* The records *)

(* RecordInv without the lock's part. *)
RecordRest == Alone /\ Recorded /\ Answered /\ Remembered

(* A handler off the fast path is alone with its target. *)
LEMMA Sole ==
    ASSUME RecordInv, NEW c \in Call, pc[c] \notin {"idle", "swap"}
    PROVE  /\ target[c] \in Target
           /\ \A d \in Call : target[d] = target[c] => d = c
BY DEF RecordInv, LockInv, Phases, TypeOK, Alone

(* The fast path answers for what is recorded. *)
LEMMA FastPath ==
    ASSUME RecordInv, NEW c \in Call, pc[c] = "swap"
    PROVE  Safe(target[c]) /\ target[c] \in Target
<1>1. target[c] \in live
  BY DEF RecordInv, Answered
<1>2. \A d \in Handlers(target[c]) : pc[d] # "persist"
  BY DEF RecordInv, Alone, Handlers
<1> QED
  BY <1>1, <1>2 DEF RecordInv, LockInv, Recorded, Safe, TypeOK

(* A handler moves on, and what it now answers for is recorded. *)
LEMMA RecordGoto ==
    ASSUME RecordInv, NEW c \in Call, NEW w, Goto(c, w),
           pc[c] \notin {"idle", "swap"}, w \notin {"idle", "swap"},
           Deleting(c) <=> w \in {"unmount", "undetach", "save"},
           UNCHANGED <<live, records, disk, target, phase, published>>,
           \A d \in Call \ {c} : outcome'[d] = outcome[d]
                                 /\ restarting'[d] = restarting[d],
           outcome'[c] = "ok" => w \in {"unlock", "unref"} /\ Safe(target[c]),
           pc[c] = "persist" => Safe(target[c]),
           w = "persist" => target[c] \in records,
           w \in {"check", "detach", "mount", "put", "persist"} =>
             IF restarting'[c] THEN Safe(target[c]) ELSE ~published[target[c]]
    PROVE  RecordRest'
<1> USE DEF RecordInv
<1>1. \A d \in Call : pc'[d] = IF d = c THEN w ELSE pc[d]
  BY DEF Goto, LockInv, TypeOK
<1>2. /\ \A t : Handlers(t)' = Handlers(t)
      /\ \A t : Safe(t)' <=> Safe(t)
  BY DEF Handlers, Safe
<1>3. \A d \in Call : Deleting(d)' <=> Deleting(d)
  BY <1>1 DEF Deleting
<1>4. Alone'
  BY <1>1 DEF Alone
<1>5. Recorded'
  <2>1. \A t \in records \ disk : \E d \in Handlers(t) : pc[d] = "persist" /\ d # c
    BY DEF Recorded, Handlers, Safe
  <2> QED
    BY <1>1, <1>2, <2>1 DEF Recorded, Handlers
<1>6. Answered'
  <2> SUFFICES ASSUME NEW d \in Call
               PROVE  /\ pc'[d] = "swap" => target[d] \in live
                      /\ outcome'[d] = "ok" =>
                           pc'[d] \in {"unlock", "unref"} /\ Safe(target[d])
                      /\ pc'[d] = "persist" => target[d] \in records
                      /\ pc'[d] \in {"check", "detach", "mount", "put", "persist"} =>
                           IF restarting'[d] THEN Safe(target[d])
                           ELSE ~published[target[d]]
    BY <1>2 DEF Answered, Safe
  <2>1. CASE d = c
    BY <1>1, <2>1
  <2>2. CASE d # c
    BY <1>1, <2>2 DEF Answered
  <2> QED
    BY <2>1, <2>2
<1>7. Remembered'
  BY <1>2, <1>3 DEF Remembered, Handlers
<1> QED
  BY <1>4, <1>5, <1>6, <1>7 DEF RecordRest

(* A handler that has nothing to save returns; what it tells the kubelet is *)
(* mounted is recorded.                                                     *)
LEMMA RecordForget ==
    ASSUME RecordInv, NEW c \in Call, pc[c] # "idle", pc[c] # "persist",
           Forget(c), UNCHANGED <<live, records, disk, phase>>,
           \A t \in Target : published'[t] =>
             published[t] \/ (t = target[c] /\ Safe(t))
    PROVE  RecordRest'
<1> USE DEF RecordInv
<1>1. \A d \in Call : pc'[d] = IF d = c THEN "idle" ELSE pc[d]
  BY DEF Forget, Goto, LockInv, TypeOK
<1>2. \A d \in Call : target'[d] = IF d = c THEN None ELSE target[d]
  BY DEF Forget, LockInv, TypeOK
<1>3. /\ \A d \in Call \ {c} : outcome'[d] = outcome[d] /\ restarting'[d] = restarting[d]
      /\ outcome'[c] = None
  BY DEF Forget, LockInv, TypeOK
<1>4. \A t : Safe(t)' <=> Safe(t)
  BY DEF Safe
<1>5. Alone'
  <2> SUFFICES ASSUME NEW d \in Call, NEW e \in Call, target'[d] = target'[e],
                      d # e, pc'[d] # "idle"
               PROVE  pc'[d] = "swap"
    BY DEF Alone
  <2>1. d # c /\ pc'[d] = pc[d] /\ target'[d] = target[d] /\ target[d] # None
    BY <1>1, <1>2 DEF LockInv, Phases
  <2> QED
    BY <1>2, <2>1 DEF Alone
<1>6. Recorded'
  BY <1>1, <1>2 DEF Recorded, Handlers
<1>7. Answered'
  <2> SUFFICES ASSUME NEW d \in Call \ {c}
               PROVE  /\ pc[d] = "swap" => target[d] \in live
                      /\ outcome[d] = "ok" =>
                           pc[d] \in {"unlock", "unref"} /\ Safe(target[d])
                      /\ pc[d] = "persist" => target[d] \in records
                      /\ pc[d] \in {"check", "detach", "mount", "put", "persist"} =>
                           IF restarting[d] THEN Safe(target[d])
                           ELSE ~published'[target[d]]
    BY <1>1, <1>2, <1>3, <1>4, PluginAssumption DEF Answered
  <2>1. pc[d] \in {"check", "detach", "mount", "put", "persist"} =>
          target[d] # target[c] /\ target[d] \in Target
    BY DEF Alone, LockInv, Phases, TypeOK
  <2> QED
    BY <2>1 DEF Answered
<1>8. Remembered'
  <2> SUFFICES ASSUME NEW t \in Target, published'[t],
                      phase[t] = "wanted" \/ \E d \in Handlers(t)' : ~Deleting(d)'
               PROVE  Safe(t)
    BY <1>4 DEF Remembered
  <2>1. \A d \in Handlers(t)' : d \in Handlers(t) /\ (Deleting(d) => Deleting(d)')
    BY <1>1, <1>2, PluginAssumption DEF Handlers, Deleting
  <2> QED
    BY <2>1 DEF Remembered
<1> QED
  BY <1>5, <1>6, <1>7, <1>8 DEF RecordRest

(* Every step preserves RecordInv. *)
LEMMA RecordStep == Sequential /\ RecordInv /\ [Next]_vars => RecordInv'
<1> SUFFICES ASSUME Sequential, RecordInv, [Next]_vars PROVE RecordInv'
  OBVIOUS
<1>0. TypeOK /\ Phases /\ LockInv'
  BY LockStep DEF RecordInv, LockInv
<1> USE DEF registryVars, lockVars, handlerVars, callVars, kubeletVars,
            processVars
<1>a. ASSUME UNCHANGED <<live, records, disk, callVars, published>>,
             \A t \in Target : phase'[t] = "wanted" => phase[t] = "wanted"
      PROVE  RecordRest'
  <2>1. /\ \A t : Handlers(t)' = Handlers(t)
        /\ \A c : Deleting(c)' <=> Deleting(c)
        /\ \A t : Safe(t)' <=> Safe(t)
    BY <1>a DEF Handlers, Deleting, Safe
  <2>2. Alone' /\ Recorded'
    BY <1>a, <2>1 DEF RecordInv, Alone, Recorded
  <2>3. Answered'
    BY <1>a, <2>1 DEF RecordInv, Answered
  <2>4. Remembered'
    BY <1>a, <2>1 DEF RecordInv, Remembered
  <2> QED
    BY <2>2, <2>3, <2>4 DEF RecordRest
<1>1. ASSUME NEW t \in Target, Mint(t) PROVE RecordRest'
  BY <1>1, <1>a DEF Mint
<1>2. ASSUME NEW t \in Target, PodDeleted(t) PROVE RecordRest'
  <2>1. phase' = [phase EXCEPT ![t] = "removing"]
    BY <1>2 DEF PodDeleted
  <2>2. \A u \in Target : phase'[u] = "wanted" => phase[u] = "wanted"
    BY <1>0, <2>1 DEF TypeOK
  <2> QED
    BY <1>2, <1>a, <2>2 DEF PodDeleted
<1>3. ASSUME NEW c \in Call, NEW t \in Target, Delete(c, t) PROVE RecordRest'
  <2>1. Handlers(t) = {} /\ phase[t] # "wanted" /\ pc[c] = "idle"
    BY <1>3 DEF Delete, MayArrive, Sequential
  <2>2. PICK w \in {"unmount", "undetach", "save"} : Goto(c, w)
    BY <1>3 DEF Delete
  <2>3. /\ live' = live \ {t} /\ records' = records \ {t}
        /\ UNCHANGED <<disk, phase, published, outcome, restarting>>
        /\ pc' = [pc EXCEPT ![c] = w] /\ target' = [target EXCEPT ![c] = t]
    BY <1>3, <2>2 DEF Delete, Goto
  <2>4. \A d \in Call : pc'[d] = IF d = c THEN w ELSE pc[d]
    BY <1>0, <2>3 DEF TypeOK
  <2>5. \A d \in Call : target'[d] = IF d = c THEN t ELSE target[d]
    BY <1>0, <2>3 DEF TypeOK
  <2>6. /\ target[c] = None
        /\ \A d \in Call : target[d] # t
        /\ outcome[c] # "ok"
    BY <1>0, <2>1 DEF Handlers, Phases, RecordInv, Answered
  <2>7. \A u : u # t => (Safe(u)' <=> Safe(u))
    BY <2>3 DEF Safe
  <2>8. Alone'
    <3> SUFFICES ASSUME NEW d \in Call, NEW e \in Call, target'[d] = target'[e],
                        d # e, pc'[d] # "idle"
                 PROVE  pc'[d] = "swap"
      BY DEF Alone
    <3>1. d # c /\ e # c
      BY <2>5, <2>6
    <3> QED
      BY <2>4, <2>5, <3>1 DEF RecordInv, Alone
  <2>9. Recorded'
    <3>1. \A u \in records \ disk : \E d \in Call : target[d] = u /\ pc[d] = "persist"
      BY DEF RecordInv, Recorded, Handlers
    <3>2. \A u \in records' \ disk' : \E d \in Call : target'[d] = u /\ pc'[d] = "persist"
      BY <2>1, <2>3, <2>4, <2>5, <3>1
    <3> QED
      BY <2>3, <3>2 DEF RecordInv, Recorded, Handlers
  <2>10. Answered'
    <3>1. \A d \in Call \ {c} : pc'[d] = pc[d] /\ target'[d] = target[d] /\ target[d] # t
      BY <2>4, <2>5, <2>6
    <3>2. pc'[c] = w
      BY <2>4
    <3> QED
      BY <2>3, <2>6, <2>7, <3>1, <3>2 DEF RecordInv, Answered
  <2>11. Remembered'
    <3> SUFFICES ASSUME NEW u \in Target, published[u],
                        phase[u] = "wanted" \/ \E d \in Handlers(u)' : ~Deleting(d)'
                 PROVE  Safe(u)'
      BY <2>3 DEF Remembered
    <3>1. u # t /\ \A d \in Handlers(u)' : d \in Handlers(u) /\ (Deleting(d) => Deleting(d)')
      BY <2>1, <2>4, <2>5, <2>6 DEF Handlers, Deleting
    <3> QED
      BY <2>7, <3>1 DEF RecordInv, Remembered
  <2> QED
    BY <2>8, <2>9, <2>10, <2>11 DEF RecordRest
<1>4. ASSUME NEW c \in Call, NEW t \in Target, NEW payload \in Payloads,
             Publish(c, t, payload)
      PROVE  RecordRest'
  <2>1. phase[t] = "wanted" /\ pc[c] = "idle" /\ \A d \in Handlers(t) : pc[d] = "swap"
    BY <1>4 DEF Publish, MayArrive, Sequential
  <2>2. PICK w \in {"swap", "ref"} : Goto(c, w) /\ (w = "swap" <=> t \in live)
    BY <1>4 DEF Publish
  <2>3. /\ UNCHANGED <<live, records, disk, phase, published, outcome, restarting>>
        /\ pc' = [pc EXCEPT ![c] = w] /\ target' = [target EXCEPT ![c] = t]
    BY <1>4, <2>2 DEF Publish, Goto
  <2>4. \A d \in Call : pc'[d] = IF d = c THEN w ELSE pc[d]
    BY <1>0, <2>3 DEF TypeOK
  <2>5. \A d \in Call : target'[d] = IF d = c THEN t ELSE target[d]
    BY <1>0, <2>3 DEF TypeOK
  <2>6. /\ target[c] = None
        /\ outcome[c] # "ok"
        /\ \A d \in Call : target[d] = t => pc[d] = "swap" /\ t \in live
    BY <1>0, <2>1 DEF Handlers, Phases, RecordInv, Answered
  <2>7. \A u : Safe(u)' <=> Safe(u)
    BY <2>3 DEF Safe
  <2>8. Alone'
    <3> SUFFICES ASSUME NEW d \in Call, NEW e \in Call, target'[d] = target'[e],
                        d # e, pc'[d] # "idle"
                 PROVE  pc'[d] = "swap"
      BY DEF Alone
    <3>1. CASE d = c
      BY <2>2, <2>4, <2>5, <2>6, <3>1
    <3>2. CASE e = c
      BY <2>4, <2>5, <2>6, <3>2
    <3>3. CASE d # c /\ e # c
      BY <2>4, <2>5, <3>3 DEF RecordInv, Alone
    <3> QED
      BY <3>1, <3>2, <3>3
  <2>9. Recorded'
    <3>1. \A u \in records \ disk : \E d \in Call : target[d] = u /\ pc[d] = "persist"
      BY DEF RecordInv, Recorded, Handlers
    <3>2. \A u \in records' \ disk' : \E d \in Call : target'[d] = u /\ pc'[d] = "persist"
      BY <2>1, <2>3, <2>4, <2>5, <3>1
    <3> QED
      BY <2>3, <3>2 DEF RecordInv, Recorded, Handlers
  <2>10. Answered'
    <3>1. \A d \in Call \ {c} : pc'[d] = pc[d] /\ target'[d] = target[d]
      BY <2>4, <2>5
    <3>2. pc'[c] = w /\ target'[c] = t
      BY <2>4, <2>5
    <3> QED
      BY <2>2, <2>3, <2>6, <2>7, <3>1, <3>2 DEF RecordInv, Answered
  <2>11. Remembered'
    <3> SUFFICES ASSUME NEW u \in Target, published[u],
                        phase[u] = "wanted" \/ \E d \in Handlers(u)' : ~Deleting(d)'
                 PROVE  Safe(u)
      BY <2>3, <2>7 DEF Remembered
    <3>1. u # t => \A d \in Handlers(u)' : d \in Handlers(u) /\ (Deleting(d) => Deleting(d)')
      BY <2>1, <2>4, <2>5, <2>6 DEF Handlers, Deleting
    <3> QED
      BY <2>1, <3>1 DEF RecordInv, Remembered
  <2> QED
    BY <2>8, <2>9, <2>10, <2>11 DEF RecordRest
<1>5. ASSUME NEW c \in Call, PublishStep(c) PROVE RecordRest'
  <2> USE DEF Deleting, Answer, PublishError
  <2>a. pc[c] \notin {"idle", "swap", "persist"} /\ target[c] \in records => Safe(target[c])
    BY Sole DEF RecordInv, Recorded, Handlers, Safe
  <2>b. pc[c] \in {"check", "detach", "mount", "put", "persist"} =>
          IF restarting[c] THEN Safe(target[c]) ELSE ~published[target[c]]
    BY DEF RecordInv, Answered
  <2>c. outcome[c] = "ok" => pc[c] \in {"unlock", "unref"} /\ Safe(target[c])
    BY DEF RecordInv, Answered
  <2>1. CASE Republish(c)
    <3>1. Safe(target[c]) /\ target[c] \in Target /\ pc[c] = "swap"
      BY <2>1, FastPath DEF Republish
    <3>2. \A t \in Target : published'[t] => published[t] \/ (t = target[c] /\ Safe(t))
      BY <1>0, <2>1, <3>1 DEF Republish, TypeOK
    <3> QED
      BY <2>1, <3>1, <3>2, RecordForget DEF Republish
  <2>2. CASE LockRef(c)
    BY <2>2, <2>c, RecordGoto DEF LockRef
  <2>3. CASE LockTake(c)
    BY <2>3, <2>c, RecordGoto DEF LockTake
  <2>4. CASE Recheck(c)
    <3>1. CASE target[c] \in live
      <4>1. Safe(target[c])
        BY <2>4, <2>a, <3>1 DEF Recheck, RecordInv, Recorded
      <4> QED
        BY <1>0, <2>4, <3>1, <4>1, RecordGoto DEF Recheck, TypeOK
    <3>2. CASE target[c] \notin live
      <4>1. /\ pc[c] = "recheck" /\ Goto(c, "check")
            /\ UNCHANGED <<live, records, disk, target, phase, published, outcome>>
            /\ restarting' = [restarting EXCEPT ![c] = target[c] \in records]
        BY <2>4, <3>2 DEF Recheck
      <4>2. /\ restarting'[c] <=> target[c] \in records
            /\ \A d \in Call \ {c} : restarting'[d] = restarting[d]
        BY <1>0, <4>1 DEF TypeOK
      <4>3. target[c] \notin records => ~published[target[c]]
        BY <1>0, <4>1 DEF RecordInv, Remembered, Handlers, Safe, Phases, TypeOK
      <4> QED
        BY <2>a, <2>c, <4>1, <4>2, <4>3, RecordGoto
    <3> QED
      BY <3>1, <3>2
  <2>5. CASE Authorize(c)
    BY <2>5, <2>b, <2>c, RecordGoto DEF Authorize
  <2>d. ASSUME pc[c] \in {"check", "detach", "mount"}, PublishError(c),
               UNCHANGED <<live, records, disk, handlerVars, phase, published>>
        PROVE  RecordRest'
    <3>1. /\ Goto(c, "unlock")
          /\ \A d \in Call \ {c} : outcome'[d] = outcome[d]
          /\ outcome'[c] = "ok" => restarting[c]
      BY <1>0, <2>d DEF TypeOK
    <3> QED
      BY <2>b, <2>d, <3>1, RecordGoto
  <2>6. CASE Refuse(c)
    BY <2>6, <2>d DEF Refuse
  <2>7. CASE Detach(c)
    <3>1. CASE PublishError(c)
      BY <2>7, <2>d, <3>1 DEF Detach
    <3>2. CASE Goto(c, "mount") /\ UNCHANGED outcome
      BY <2>7, <2>b, <2>c, <3>2, RecordGoto DEF Detach
    <3> QED
      BY <2>7, <3>1, <3>2 DEF Detach
  <2>8. CASE Mount(c)
    BY <2>8, <2>b, <2>c, RecordGoto DEF Mount
  <2>9. CASE MountFails(c)
    BY <2>9, <2>d DEF MountFails
  <2>10. CASE Put(c)
    <3> PICK t : t = target[c]
      OBVIOUS
    <3>1. /\ pc[c] = "put" /\ t \in Target
          /\ live' = live \cup {t} /\ records' = records \cup {t}
          /\ UNCHANGED <<disk, target, phase, published, outcome, restarting>>
          /\ \A d \in Call : pc'[d] = IF d = c THEN "persist" ELSE pc[d]
      BY <1>0, <2>10 DEF Put, Goto, TypeOK, Phases
    <3>2. \A d \in Call : target[d] = t => d = c
      BY <3>1, Sole
    <3>3. \A u : /\ Safe(u) => Safe(u)'
                 /\ Handlers(u)' = Handlers(u)
      BY <3>1 DEF Safe, Handlers
    <3>4. \A d \in Call : Deleting(d)' <=> Deleting(d)
      BY <3>1
    <3>5. Alone'
      BY <3>1 DEF RecordInv, Alone
    <3>6. Recorded'
      <4>1. \A u \in records \ disk : \E d \in Call : target[d] = u /\ pc[d] = "persist"
        BY DEF RecordInv, Recorded, Handlers
      <4>2. \A u \in records' \ disk' : \E d \in Call : target'[d] = u /\ pc'[d] = "persist"
        BY <3>1, <4>1
      <4> QED
        BY <3>1, <4>2 DEF RecordInv, Recorded, Handlers
    <3>7. Answered'
      <4> SUFFICES ASSUME NEW d \in Call
                   PROVE  /\ pc'[d] = "swap" => target[d] \in live'
                          /\ outcome[d] = "ok" =>
                               pc'[d] \in {"unlock", "unref"} /\ Safe(target[d])
                          /\ pc'[d] = "persist" => target[d] \in records'
                          /\ pc'[d] \in {"check", "detach", "mount", "put", "persist"} =>
                               IF restarting[d] THEN Safe(target[d])
                               ELSE ~published[target[d]]
        BY <3>1, <3>3 DEF Answered
      <4>1. CASE d = c
        BY <2>b, <2>c, <3>1, <4>1
      <4>2. CASE d # c
        BY <3>1, <4>2 DEF RecordInv, Answered
      <4> QED
        BY <4>1, <4>2
    <3>8. Remembered'
      BY <3>1, <3>3, <3>4 DEF RecordInv, Remembered, Handlers
    <3> QED
      BY <3>5, <3>6, <3>7, <3>8 DEF RecordRest
  <2>11. CASE Persist(c)
    <3>1. /\ pc[c] = "persist" /\ target[c] \in records
          /\ disk' = records
          /\ UNCHANGED <<live, records, target, phase, published, restarting>>
          /\ \A d \in Call : pc'[d] = IF d = c THEN "unlock" ELSE pc[d]
      BY <1>0, <2>11 DEF Persist, Goto, TypeOK, RecordInv, Answered
    <3>2. \A d \in Call \ {c} : outcome'[d] = outcome[d]
      BY <1>0, <2>11 DEF Persist, TypeOK
    <3>3. \A u : /\ u \in records => Safe(u)'
                 /\ Handlers(u)' = Handlers(u)
      BY <3>1 DEF Safe, Handlers
    <3>4. \A d \in Call : Deleting(d)' <=> Deleting(d)
      BY <3>1
    <3>5. Alone'
      BY <3>1 DEF RecordInv, Alone
    <3>6. Recorded'
      BY <3>1 DEF RecordInv, Recorded
    <3>7. Answered'
      BY <3>1, <3>2, <3>3 DEF RecordInv, Answered, Safe
    <3>8. Remembered'
      BY <3>1, <3>3, <3>4 DEF RecordInv, Remembered, Handlers, Safe
    <3> QED
      BY <3>5, <3>6, <3>7, <3>8 DEF RecordRest
  <2>12. CASE PersistFails(c)
    BY <2>12 DEF PersistFails, Sequential
  <2>13. CASE Unlock(c)
    BY <2>13, <2>c, RecordGoto DEF Unlock
  <2>14. CASE Unref(c)
    <3>1. \A t \in Target : published'[t] => published[t] \/ (t = target[c] /\ Safe(t))
      BY <1>0, <2>14, <2>c DEF Unref, TypeOK
    <3> QED
      BY <2>14, <3>1, RecordForget DEF Unref
  <2> QED
    BY <1>5, <2>1, <2>2, <2>3, <2>4, <2>5, <2>6, <2>7, <2>8, <2>9, <2>10,
       <2>11, <2>12, <2>13, <2>14 DEF PublishStep
<1>6. ASSUME NEW c \in Call, DeleteStep(c) PROVE RecordRest'
  <2>1. CASE DeleteUnmount(c)
    <3>1. /\ pc[c] \in {"unmount", "undetach"} /\ Goto(c, "save")
          /\ UNCHANGED <<live, records, disk, handlerVars, phase, published>>
          /\ UNCHANGED outcome \/ outcome' = [outcome EXCEPT ![c] = "error"]
      BY <2>1 DEF DeleteUnmount
    <3>2. /\ \A d \in Call \ {c} : outcome'[d] = outcome[d]
          /\ outcome'[c] # "ok"
      BY <1>0, <3>1 DEF TypeOK, RecordInv, Answered
    <3> QED
      BY <3>1, <3>2, RecordGoto DEF Deleting
  <2>2. CASE DeleteSave(c)
    <3>1. \A d \in Call : pc'[d] = IF d = c THEN "idle" ELSE pc[d]
      BY <1>0, <2>2 DEF DeleteSave, Forget, Goto, TypeOK
    <3>2. \A d \in Call : target'[d] = IF d = c THEN None ELSE target[d]
      BY <1>0, <2>2 DEF DeleteSave, Forget, TypeOK
    <3>3. /\ \A d \in Call \ {c} : outcome'[d] = outcome[d] /\ restarting'[d] = restarting[d]
          /\ outcome'[c] = None
      BY <1>0, <2>2 DEF DeleteSave, Forget, TypeOK
    <3>4. pc[c] = "save" /\ disk' = records /\ UNCHANGED <<live, records, published>>
      BY <2>2 DEF DeleteSave, Sequential
    <3>5. \A u : u \in records => Safe(u)'
      BY <3>4 DEF Safe
    <3>6. \A t \in Target : phase'[t] = "wanted" => phase[t] = "wanted"
      BY <1>0, <2>2 DEF DeleteSave, TypeOK
    <3>7. Alone'
      <4> SUFFICES ASSUME NEW d \in Call, NEW e \in Call, target'[d] = target'[e],
                          d # e, pc'[d] # "idle"
                   PROVE  pc'[d] = "swap"
        BY DEF Alone
      <4>1. d # c /\ pc'[d] = pc[d] /\ target'[d] = target[d] /\ target[d] # None
        BY <1>0, <3>1, <3>2 DEF Phases
      <4> QED
        BY <3>2, <4>1 DEF RecordInv, Alone
    <3>8. Recorded'
      BY <3>4 DEF RecordInv, Recorded
    <3>9. Answered'
      <4> SUFFICES ASSUME NEW d \in Call \ {c}
                   PROVE  /\ pc[d] = "swap" => target[d] \in live
                          /\ outcome[d] = "ok" =>
                               pc[d] \in {"unlock", "unref"} /\ target[d] \in records
                          /\ pc[d] = "persist" => target[d] \in records
                          /\ pc[d] \in {"check", "detach", "mount", "put", "persist"} =>
                               IF restarting[d] THEN target[d] \in records
                               ELSE ~published[target[d]]
        BY <3>1, <3>2, <3>3, <3>4, <3>5, PluginAssumption DEF Answered
      <4> QED
        BY DEF RecordInv, Answered, Safe
    <3>10. Remembered'
      <4> SUFFICES ASSUME NEW t \in Target, published[t],
                          phase[t] = "wanted" \/ \E d \in Handlers(t)' : ~Deleting(d)'
                   PROVE  t \in records
        BY <3>4, <3>5, <3>6 DEF Remembered
      <4>1. \A d \in Handlers(t)' : d \in Handlers(t) /\ (Deleting(d) => Deleting(d)')
        BY <3>1, <3>2, PluginAssumption DEF Handlers, Deleting
      <4> QED
        BY <4>1 DEF RecordInv, Remembered, Safe
    <3> QED
      BY <3>7, <3>8, <3>9, <3>10 DEF RecordRest
  <2> QED
    BY <1>6, <2>1, <2>2 DEF DeleteStep
<1>7. ASSUME ShutdownStep PROVE RecordRest'
  BY <1>7, <1>a DEF ShutdownStep, ShutdownBegin, ShutdownUnmount
<1>8. ASSUME Restart PROVE RecordRest'
  <2>1. /\ live' = {} /\ records' = disk /\ disk' = disk
        /\ UNCHANGED <<phase, published>>
        /\ \A c \in Call : pc'[c] = "idle" /\ target'[c] = None /\ outcome'[c] = None
    BY <1>8 DEF Restart, NoCall
  <2>2. Alone' /\ Recorded' /\ Answered'
    BY <2>1, PluginAssumption DEF Alone, Recorded, Answered
  <2>3. Remembered'
    BY <2>1, PluginAssumption DEF RecordInv, Remembered, Handlers, Safe
  <2> QED
    BY <2>2, <2>3 DEF RecordRest
<1>9. ASSUME UNCHANGED vars PROVE RecordRest'
  BY <1>9, <1>a DEF vars
<1>10. RecordRest'
  BY <1>1, <1>2, <1>3, <1>4, <1>5, <1>6, <1>7, <1>8, <1>9 DEF Next
<1> QED
  BY <1>0, <1>10 DEF RecordInv, RecordRest

(* RecordInv holds initially. *)
LEMMA RecordInit == Init => RecordInv
BY LockInit, PluginAssumption
   DEF Init, NoCall, RecordInv, Alone, Recorded, Answered, Remembered, Handlers

(* The decision to fail, as one step takes it. *)
FailsFirst ==
    \A c \in Call :
      outcome[c] = None /\ outcome'[c] = "error" /\ Publishing(c)
        => ~published[target[c]]

(* No step of a handler that may answer an error does so for a target the   *)
(* kubelet was told is mounted.                                             *)
LEMMA FailStep == Sequential /\ RecordInv /\ [Next]_vars => [FailsFirst]_vars
<1> SUFFICES ASSUME Sequential, RecordInv, [Next]_vars, NEW c \in Call,
                    outcome[c] = None, outcome'[c] = "error", Publishing(c)
             PROVE  ~published[target[c]]
  BY DEF FailsFirst
<1>0. TypeOK /\ None # "error" /\ outcome' # outcome
  BY PluginAssumption DEF RecordInv, LockInv
<1> USE DEF callVars
<1>1. ASSUME NEW d \in Call, NEW o, outcome' = [outcome EXCEPT ![d] = o]
      PROVE  d = c /\ o = "error"
  BY <1>0, <1>1 DEF TypeOK
<1>2. ASSUME NEW d \in Call, pc[d] \in {"check", "detach", "mount"}, PublishError(d)
      PROVE  ~published[target[c]]
  <2>1. d = c /\ ~restarting[c]
    <3>1. outcome' = [outcome EXCEPT ![d] = IF restarting[d] THEN "ok" ELSE "error"]
      BY <1>2 DEF PublishError, Answer
    <3> QED
      BY <1>1, <3>1
  <2> QED
    BY <1>2, <2>1 DEF RecordInv, Answered
<1>3. ASSUME NEW d \in Call, PublishStep(d) PROVE ~published[target[c]]
  <2>1. CASE Republish(d) \/ Unref(d)
    BY <1>0, <1>1, <2>1 DEF Republish, Unref, Forget
  <2>2. CASE LockRef(d) \/ LockTake(d) \/ Authorize(d) \/ Mount(d) \/ Put(d) \/ Unlock(d)
    BY <1>0, <2>2 DEF LockRef, LockTake, Authorize, Mount, Put, Unlock
  <2>3. CASE Recheck(d) \/ Persist(d)
    BY <1>0, <1>1, <2>3 DEF Recheck, Persist, Answer
  <2>4. CASE Refuse(d) \/ MountFails(d)
    BY <1>2, <2>4 DEF Refuse, MountFails
  <2>5. CASE Detach(d)
    BY <1>0, <1>2, <2>5 DEF Detach
  <2>6. CASE PersistFails(d)
    BY <2>6 DEF PersistFails, Sequential
  <2> QED
    BY <1>3, <2>1, <2>2, <2>3, <2>4, <2>5, <2>6 DEF PublishStep
<1>4. ASSUME NEW d \in Call, DeleteStep(d) PROVE FALSE
  <2>1. CASE DeleteUnmount(d)
    BY <1>0, <1>1, <2>1 DEF DeleteUnmount, Publishing
  <2>2. CASE DeleteSave(d)
    BY <1>0, <1>1, <2>2 DEF DeleteSave, Forget
  <2> QED
    BY <1>4, <2>1, <2>2 DEF DeleteStep
<1>5. ASSUME NEW d \in Call, NEW t \in Target,
             Delete(d, t) \/ \E payload \in Payloads : Publish(d, t, payload)
      PROVE  FALSE
  BY <1>0, <1>5 DEF Delete, Publish
<1>6. ASSUME \/ \E t \in Target : Mint(t) \/ PodDeleted(t)
             \/ ShutdownStep
             \/ UNCHANGED vars
      PROVE  FALSE
  BY <1>0, <1>6 DEF Mint, PodDeleted, ShutdownStep, ShutdownBegin,
                    ShutdownUnmount, vars
<1>7. ASSUME Restart PROVE FALSE
  BY <1>0, <1>7 DEF Restart, NoCall
<1> QED
  BY <1>3, <1>4, <1>5, <1>6, <1>7 DEF Next

(* A publish is never answered with an error for a target the kubelet was   *)
(* once told is mounted, through any number of restarts of the plugin, for  *)
(* as long as the state file can be written and only the fast path's calls  *)
(* overlap.                                                                 *)
THEOREM RepublishSilent == Sequential => (Spec => RepublishNeverFails)
<1> SUFFICES ASSUME Sequential PROVE Spec => RepublishNeverFails
  OBVIOUS
<1>1. RecordInv /\ [Next]_vars => RecordInv'
  BY RecordStep
<1>2. RecordInv /\ [Next]_vars => [FailsFirst]_vars
  BY FailStep
<1>3. RepublishNeverFails <=> [][FailsFirst]_vars
  BY DEF RepublishNeverFails, FailsFirst
<1> QED
  BY RecordInit, <1>1, <1>2, <1>3, PTL DEF Spec

----------------------------------------------------------------------------
(* What unpublish leaves behind *)

(* StrandedInv without the parts that are proved above. *)
StrandedRest == Traced /\ Removing /\ Removed

(* A publishing handler moves on; what it mounts is new or recorded. *)
LEMMA StrandedGoto ==
    ASSUME MountInv, RecordInv, StrandedRest, NEW c \in Call, NEW w, Goto(c, w),
           pc[c] \notin {"idle", "swap"}, ~Deleting(c),
           w \notin {"unmount", "undetach", "save"},
           UNCHANGED <<live, records, disk, target, phase, published, restarts>>,
           \A t \in Target \ {target[c]} : mounts'[t] = mounts[t],
           Mounted(target[c])' => Mounted(target[c])
                                  \/ (published[target[c]] => Safe(target[c]))
    PROVE  StrandedRest'
<1> USE DEF StrandedRest
<1>1. \A d \in Call : pc'[d] = IF d = c THEN w ELSE pc[d]
  BY DEF Goto, MountInv, LockInv, TypeOK
<1>2. /\ \A t : Handlers(t)' = Handlers(t)
      /\ \A d \in Call : Deleting(d)' <=> Deleting(d)
  BY <1>1 DEF Handlers, Deleting
<1>3. \A t \in Target : Mounted(t)' => Mounted(t) \/ (published[t] => Safe(t))
  BY DEF Mounted
<1>4. Traced'
  BY <1>1, <1>2, <1>3 DEF Traced, Handlers, Deleting, Safe
<1>5. Removing'
  <2> SUFFICES ASSUME NEW d \in Call, Deleting(d)
               PROVE  /\ target[d] \notin records
                      /\ pc[d] = "save" => ~(published[target[d]] /\ mounts'[target[d]] # <<>>)
    BY <1>1, <1>2 DEF Removing, Mounted, Deleting
  <2>1. target[d] \in Target /\ target[d] # target[c]
    BY Sole DEF Deleting
  <2> QED
    BY <2>1 DEF Removing, Mounted
<1>6. Removed'
  BY <1>2 DEF Removed, Handlers
<1> QED
  BY <1>4, <1>5, <1>6

(* A publishing handler returns. *)
LEMMA StrandedForget ==
    ASSUME MountInv, RecordInv, StrandedRest, NEW c \in Call, pc[c] # "idle",
           ~Deleting(c), Forget(c),
           UNCHANGED <<live, records, disk, mounts, phase, restarts>>,
           \A t \in Target : published'[t] =>
             published[t] \/ (t = target[c] /\ Safe(t))
    PROVE  StrandedRest'
<1> USE DEF StrandedRest
<1>1. \A d \in Call : pc'[d] = IF d = c THEN "idle" ELSE pc[d]
  BY DEF Forget, Goto, MountInv, LockInv, TypeOK
<1>2. \A d \in Call : target'[d] = IF d = c THEN None ELSE target[d]
  BY DEF Forget, MountInv, LockInv, TypeOK
<1>3. /\ \A t \in Target : Handlers(t)' = Handlers(t) \ {c}
      /\ \A d \in Call : Deleting(d)' <=> Deleting(d)
  BY <1>1, <1>2, PluginAssumption DEF Handlers, Deleting
<1>4. Traced'
  <2> SUFFICES ASSUME NEW t \in Target, published'[t], Mounted(t)
               PROVE  /\ t \in records \/ \E d \in Handlers(t)' : pc'[d] \in {"unmount", "undetach"}
                      /\ restarts < MaxRestarts => t \in disk
    BY DEF Traced, Mounted
  <2>1. CASE published[t]
    <3>1. \A d \in Handlers(t) : pc[d] \in {"unmount", "undetach"} =>
                                 d # c /\ pc'[d] = pc[d]
      BY <1>1 DEF Deleting, Handlers
    <3> QED
      BY <1>3, <2>1, <3>1 DEF Traced
  <2>2. CASE Safe(t)
    BY <2>2 DEF Safe
  <2> QED
    BY <2>1, <2>2
<1>5. Removing'
  <2> SUFFICES ASSUME NEW d \in Call, Deleting(d), d # c
               PROVE  /\ target[d] \notin records
                      /\ pc[d] = "save" => ~(published'[target[d]] /\ mounts[target[d]] # <<>>)
    BY <1>1, <1>2, <1>3 DEF Removing, Mounted, Deleting
  <2>1. target[d] \in Target /\ target[d] # target[c]
    BY Sole DEF Deleting
  <2> QED
    BY <2>1 DEF Removing, Mounted
<1>6. Removed'
  BY <1>3 DEF Removed, Handlers
<1> QED
  BY <1>4, <1>5, <1>6

(* Every step preserves the rest of StrandedInv. *)
LEMMA StrandedStep ==
    Contained /\ StrandedInv /\ [Next]_vars => StrandedInv'
<1> SUFFICES ASSUME Contained, StrandedInv, [Next]_vars PROVE StrandedInv'
  OBVIOUS
<1>0. /\ Serial /\ Sequential /\ ~UnmountMayFail
      /\ MountInv /\ RecordInv /\ StrandedRest /\ TypeOK /\ Phases
      /\ MountInv' /\ RecordInv'
  BY MountStep, RecordStep
     DEF Contained, Serial, Sequential, StrandedInv, StrandedRest, MountInv, LockInv
<1>b. restarts < MaxRestarts => \A t, u \in Target : t = u
  BY <1>0, PluginAssumption DEF Contained, TypeOK
<1> USE DEF registryVars, lockVars, handlerVars, callVars, kubeletVars,
            processVars
<1>a. ASSUME UNCHANGED <<live, records, disk, pc, target, published, restarts>>,
             \A t \in Target : Mounted(t)' => Mounted(t),
             \A t \in Target : phase'[t] = "removed" => phase[t] = "removed"
      PROVE  StrandedRest'
  <2>1. /\ \A t : Handlers(t)' = Handlers(t)
        /\ \A c : Deleting(c)' <=> Deleting(c)
    BY <1>a DEF Handlers, Deleting
  <2>2. Traced' /\ Removed'
    BY <1>0, <1>a, <2>1 DEF StrandedRest, Traced, Removed
  <2>3. Removing'
    <3> SUFFICES ASSUME NEW c \in Call, Deleting(c)
                 PROVE  /\ target[c] \notin records
                        /\ pc[c] = "save" => ~(published[target[c]] /\ mounts'[target[c]] # <<>>)
      BY <1>a, <2>1 DEF Removing, Mounted
    <3>1. target[c] \in Target
      BY <1>0 DEF Phases, TypeOK, Deleting
    <3> QED
      BY <1>0, <1>a, <3>1 DEF StrandedRest, Removing, Mounted
  <2> QED
    BY <2>2, <2>3 DEF StrandedRest
<1>1. ASSUME NEW t \in Target, Mint(t) PROVE StrandedRest'
  BY <1>1, <1>a DEF Mint, Mounted
<1>2. ASSUME NEW t \in Target, PodDeleted(t) PROVE StrandedRest'
  <2>1. phase' = [phase EXCEPT ![t] = "removing"]
    BY <1>2 DEF PodDeleted
  <2>2. \A u \in Target : phase'[u] = "removed" => phase[u] = "removed"
    BY <1>0, <2>1 DEF TypeOK
  <2> QED
    BY <1>2, <1>a, <2>2 DEF PodDeleted, Mounted
<1>3. ASSUME NEW c \in Call, NEW t \in Target, Delete(c, t) PROVE StrandedRest'
  <2>1. Handlers(t) = {} /\ pc[c] = "idle"
    BY <1>0, <1>3 DEF Delete, MayArrive, Serial
  <2>2. PICK w \in {"unmount", "undetach", "save"} :
          Goto(c, w) /\ (w = "save" => t \notin records)
    BY <1>0, <1>3 DEF Delete, RecordInv, Recorded
  <2>3. /\ live' = live \ {t} /\ records' = records \ {t}
        /\ UNCHANGED <<disk, mounts, phase, published, restarts>>
        /\ pc' = [pc EXCEPT ![c] = w] /\ target' = [target EXCEPT ![c] = t]
    BY <1>3, <2>2 DEF Delete, Goto
  <2>4. \A d \in Call : pc'[d] = IF d = c THEN w ELSE pc[d]
    BY <1>0, <2>3 DEF TypeOK
  <2>5. \A d \in Call : target'[d] = IF d = c THEN t ELSE target[d]
    BY <1>0, <2>3 DEF TypeOK
  <2>6. target[c] = None /\ \A d \in Call : target[d] # t
    BY <1>0, <2>1 DEF Handlers, Phases
  <2>7. /\ Handlers(t)' = {c}
        /\ \A u \in Target : u # t => Handlers(u)' = Handlers(u)
        /\ \A d \in Call : Deleting(d)' <=> d = c \/ Deleting(d)
    BY <2>4, <2>5, <2>6, PluginAssumption DEF Handlers, Deleting
  <2>8. published[t] /\ Mounted(t) =>
          t \in records /\ (restarts < MaxRestarts => t \in disk)
    BY <1>0, <2>1 DEF StrandedRest, Traced
  <2>9. Traced'
    <3> SUFFICES ASSUME NEW u \in Target, published[u], Mounted(u)
                 PROVE  /\ u \in records' \/ \E d \in Handlers(u)' : pc'[d] \in {"unmount", "undetach"}
                        /\ restarts < MaxRestarts => u \in disk
      BY <2>3 DEF Traced, Mounted
    <3>1. CASE u = t
      BY <2>2, <2>4, <2>7, <2>8, <3>1
    <3>2. CASE u # t
      <4>1. \A d \in Handlers(u) : d # c /\ pc'[d] = pc[d]
        BY <2>4, <2>6, PluginAssumption DEF Handlers
      <4> QED
        BY <1>0, <2>3, <2>7, <3>2, <4>1 DEF StrandedRest, Traced
    <3> QED
      BY <3>1, <3>2
  <2>10. Removing'
    <3> SUFFICES ASSUME NEW d \in Call, d = c \/ Deleting(d)
                 PROVE  /\ target'[d] \notin records'
                        /\ pc'[d] = "save" => ~(published[target'[d]] /\ mounts[target'[d]] # <<>>)
      BY <2>3, <2>7 DEF Removing, Mounted
    <3>1. CASE d = c
      BY <2>2, <2>3, <2>4, <2>5, <2>8, <3>1 DEF Mounted
    <3>2. CASE d # c
      BY <1>0, <2>3, <2>4, <2>5, <3>2 DEF StrandedRest, Removing, Mounted
    <3> QED
      BY <3>1, <3>2
  <2>11. Removed'
    BY <1>0, <2>3, <2>7 DEF StrandedRest, Removed, Handlers
  <2> QED
    BY <2>9, <2>10, <2>11 DEF StrandedRest
<1>4. ASSUME NEW c \in Call, NEW t \in Target, NEW payload \in Payloads,
             Publish(c, t, payload)
      PROVE  StrandedRest'
  <2>1. phase[t] = "wanted" /\ pc[c] = "idle"
    BY <1>4 DEF Publish
  <2>2. PICK w \in {"swap", "ref"} : Goto(c, w)
    BY <1>4 DEF Publish
  <2>3. /\ UNCHANGED <<live, records, disk, mounts, phase, published, restarts>>
        /\ pc' = [pc EXCEPT ![c] = w] /\ target' = [target EXCEPT ![c] = t]
    BY <1>4, <2>2 DEF Publish, Goto
  <2>4. \A d \in Call : pc'[d] = IF d = c THEN w ELSE pc[d]
    BY <1>0, <2>3 DEF TypeOK
  <2>5. \A d \in Call : target'[d] = IF d = c THEN t ELSE target[d]
    BY <1>0, <2>3 DEF TypeOK
  <2>6. target[c] = None
    BY <1>0, <2>1 DEF Phases
  <2>7. /\ \A u \in Target : Handlers(u) \subseteq Handlers(u)'
        /\ \A u \in Target : u # t => Handlers(u)' = Handlers(u)
        /\ \A d \in Call : Deleting(d)' <=> Deleting(d)
    BY <2>1, <2>4, <2>5, <2>6, PluginAssumption DEF Handlers, Deleting
  <2>8. Traced'
    <3>1. \A d \in Call : pc[d] \in {"unmount", "undetach"} => pc'[d] = pc[d]
      BY <2>1, <2>4
    <3> QED
      BY <1>0, <2>3, <2>7, <3>1 DEF StrandedRest, Traced, Mounted, Handlers
  <2>9. Removing'
    <3> SUFFICES ASSUME NEW d \in Call, Deleting(d)
                 PROVE  /\ target'[d] \notin records
                        /\ pc'[d] = "save" => ~(published[target'[d]] /\ mounts[target'[d]] # <<>>)
      BY <2>3, <2>7 DEF Removing, Mounted
    <3>1. d # c
      BY <2>1 DEF Deleting
    <3> QED
      BY <1>0, <2>4, <2>5, <3>1 DEF StrandedRest, Removing, Mounted
  <2>10. Removed'
    BY <1>0, <2>1, <2>3, <2>7 DEF StrandedRest, Removed, Handlers
  <2> QED
    BY <2>8, <2>9, <2>10 DEF StrandedRest
<1>5. ASSUME NEW c \in Call, PublishStep(c) PROVE StrandedRest'
  <2> USE <1>0 DEF Deleting, Answer, PublishError
  <2>1. CASE Republish(c)
    <3>1. Safe(target[c]) /\ target[c] \in Target
      BY <2>1, FastPath DEF Republish
    <3>2. \A t \in Target : published'[t] => published[t] \/ (t = target[c] /\ Safe(t))
      BY <2>1, <3>1 DEF Republish, TypeOK
    <3> QED
      BY <2>1, <3>2, StrandedForget DEF Republish
  <2>2. CASE LockRef(c)
    BY <2>2, StrandedGoto DEF LockRef, Mounted
  <2>3. CASE LockTake(c)
    BY <2>3, StrandedGoto DEF LockTake, Mounted
  <2>4. CASE Recheck(c)
    BY <2>4, StrandedGoto DEF Recheck, Mounted
  <2>5. CASE Authorize(c)
    BY <2>5, StrandedGoto DEF Authorize, Mounted
  <2>6. CASE Refuse(c)
    BY <2>6, StrandedGoto DEF Refuse, Mounted
  <2>7. CASE Detach(c)
    <3>1. target[c] \in Target /\ pc[c] = "detach"
      BY <2>7 DEF Detach, Phases, TypeOK
    <3>2. /\ \A t \in Target \ {target[c]} : mounts'[t] = mounts[t]
          /\ Mounted(target[c])' => Mounted(target[c])
      <4>1. UNCHANGED target /\ (UNCHANGED mounts \/ Unmount(target[c]))
        BY <2>7 DEF Detach, DetachStale, Cleared, DetachFails
      <4> QED
        BY <4>1 DEF Unmount, Mounted, TypeOK
    <3>3. PICK w \in {"mount", "unlock"} : Goto(c, w)
      BY <2>7 DEF Detach
    <3> QED
      BY <2>7, <3>1, <3>2, <3>3, StrandedGoto DEF Detach
  <2>8. CASE Mount(c)
    <3>1. target[c] \in Target /\ pc[c] = "mount"
      BY <2>8 DEF Mount, Phases, TypeOK
    <3>2. \A t \in Target \ {target[c]} : mounts'[t] = mounts[t]
      BY <2>8 DEF Mount, TypeOK
    <3>3. published[target[c]] => Safe(target[c])
      BY <3>1 DEF RecordInv, Remembered, Handlers
    <3> QED
      BY <2>8, <3>1, <3>2, <3>3, StrandedGoto DEF Mount
  <2>9. CASE MountFails(c)
    BY <2>9, StrandedGoto DEF MountFails, Mounted
  <2>10. CASE Put(c)
    <3> PICK t : t = target[c]
      OBVIOUS
    <3>1. /\ pc[c] = "put" /\ t \in Target
          /\ live' = live \cup {t} /\ records' = records \cup {t}
          /\ UNCHANGED <<disk, mounts, target, phase, published, restarts>>
          /\ \A d \in Call : pc'[d] = IF d = c THEN "persist" ELSE pc[d]
      BY <2>10 DEF Put, Goto, TypeOK, Phases
    <3>2. \A d \in Call : target[d] = t => d = c
      BY <3>1, Sole
    <3>3. /\ \A u : Handlers(u)' = Handlers(u)
          /\ \A d \in Call : Deleting(d)' <=> Deleting(d)
      BY <3>1 DEF Handlers
    <3>4. phase[t] # "removed"
      BY <3>1 DEF StrandedRest, Removed, Handlers
    <3>5. Traced'
      BY <3>1, <3>3 DEF StrandedRest, Traced, Mounted, Handlers
    <3>6. Removing'
      BY <3>1, <3>2, <3>3 DEF StrandedRest, Removing, Mounted
    <3>7. Removed'
      BY <3>1, <3>3, <3>4 DEF StrandedRest, Removed, Handlers
    <3> QED
      BY <3>5, <3>6, <3>7 DEF StrandedRest
  <2>11. CASE Persist(c)
    <3>1. /\ pc[c] = "persist" /\ target[c] \in Target /\ target[c] \in records
          /\ disk' = records
          /\ UNCHANGED <<live, records, mounts, target, phase, published, restarts>>
          /\ \A d \in Call : pc'[d] = IF d = c THEN "unlock" ELSE pc[d]
      BY <2>11 DEF Persist, Goto, TypeOK, Phases, RecordInv, Answered
    <3>2. /\ \A u : Handlers(u)' = Handlers(u)
          /\ \A d \in Call : Deleting(d)' <=> Deleting(d)
      BY <3>1 DEF Handlers
    <3>3. Traced'
      <4> SUFFICES ASSUME NEW t \in Target, published[t], Mounted(t)
                   PROVE  /\ t \in records \/ \E d \in Handlers(t) : pc'[d] \in {"unmount", "undetach"}
                          /\ restarts < MaxRestarts => t \in records
        BY <3>1, <3>2 DEF Traced, Mounted
      <4>1. restarts < MaxRestarts => t = target[c]
        BY <1>b, <3>1
      <4> QED
        BY <3>1, <4>1 DEF StrandedRest, Traced, Handlers
    <3>4. Removing'
      BY <3>1, <3>2 DEF StrandedRest, Removing, Mounted
    <3>5. Removed'
      BY <3>1, <3>2 DEF StrandedRest, Removed, Handlers
    <3> QED
      BY <3>3, <3>4, <3>5 DEF StrandedRest
  <2>12. CASE PersistFails(c)
    BY <2>12 DEF PersistFails, Sequential
  <2>13. CASE Unlock(c)
    BY <2>13, StrandedGoto DEF Unlock, Mounted
  <2>14. CASE Unref(c)
    <3>1. \A t \in Target : published'[t] => published[t] \/ (t = target[c] /\ Safe(t))
      BY <2>14 DEF Unref, TypeOK, RecordInv, Answered
    <3> QED
      BY <2>14, <3>1, StrandedForget DEF Unref
  <2> QED
    BY <1>5, <2>1, <2>2, <2>3, <2>4, <2>5, <2>6, <2>7, <2>8, <2>9, <2>10,
       <2>11, <2>12, <2>13, <2>14 DEF PublishStep
<1>6. ASSUME NEW c \in Call, DeleteUnmount(c) PROVE StrandedRest'
  <2> PICK t : t = target[c]
    OBVIOUS
  <2>1. /\ pc[c] \in {"unmount", "undetach"} /\ t \in Target
        /\ Goto(c, "save")
        /\ UNCHANGED <<live, records, disk, target, phase, published, restarts>>
    BY <1>0, <1>6 DEF DeleteUnmount, Phases, TypeOK
  <2>2. ~Mounted(t)' /\ \A u \in Target \ {t} : mounts'[u] = mounts[u]
    <3>1. CASE UNCHANGED mounts /\ ~Mounted(t)
      BY <3>1 DEF Mounted
    <3>2. CASE Unmount(t)
      <4>1. Tail(mounts[t]) = <<>>
        BY <1>0, <2>1, <3>2, OneMount DEF Unmount, Mounted, MountInv, Stack
      <4> QED
        BY <1>0, <2>1, <3>2, <4>1 DEF Unmount, Mounted, TypeOK
    <3> QED
      BY <1>0, <1>6, <3>1, <3>2
         DEF DeleteUnmount, UnmountFails, DetachStale, Cleared, DetachFails
  <2>3. \A d \in Call : pc'[d] = IF d = c THEN "save" ELSE pc[d]
    BY <1>0, <2>1 DEF Goto, TypeOK
  <2>4. /\ \A u : Handlers(u)' = Handlers(u)
        /\ \A d \in Call : Deleting(d)' <=> Deleting(d)
    BY <2>1, <2>3 DEF Handlers, Deleting
  <2>5. \A d \in Call : target[d] = t => d = c
    BY <1>0, <2>1, Sole
  <2>6. Traced'
    <3> SUFFICES ASSUME NEW u \in Target, published[u], Mounted(u)'
                 PROVE  /\ u \in records \/ \E d \in Handlers(u) : pc'[d] \in {"unmount", "undetach"}
                        /\ restarts < MaxRestarts => u \in disk
      BY <2>1, <2>4 DEF Traced
    <3>1. u # t /\ Mounted(u)
      BY <2>2 DEF Mounted
    <3>2. \A d \in Handlers(u) : pc'[d] = pc[d]
      BY <2>3, <3>1 DEF Handlers
    <3> QED
      BY <1>0, <3>1, <3>2 DEF StrandedRest, Traced
  <2>7. Removing'
    <3> SUFFICES ASSUME NEW d \in Call, Deleting(d)
                 PROVE  /\ target[d] \notin records
                        /\ pc'[d] = "save" => ~(published[target[d]] /\ Mounted(target[d])')
      BY <2>1, <2>4 DEF Removing, Mounted
    <3>1. target[d] \in Target
      BY <1>0 DEF Phases, TypeOK, Deleting
    <3> QED
      BY <1>0, <2>1, <2>2, <2>3, <3>1, <2>5 DEF StrandedRest, Removing, Mounted
  <2>8. Removed'
    BY <1>0, <2>1, <2>4 DEF StrandedRest, Removed, Handlers
  <2> QED
    BY <2>6, <2>7, <2>8 DEF StrandedRest
<1>7. ASSUME NEW c \in Call, DeleteSave(c) PROVE StrandedRest'
  <2> PICK t : t = target[c]
    OBVIOUS
  <2>1. \A d \in Call : pc'[d] = IF d = c THEN "idle" ELSE pc[d]
    BY <1>0, <1>7 DEF DeleteSave, Forget, Goto, TypeOK
  <2>2. \A d \in Call : target'[d] = IF d = c THEN None ELSE target[d]
    BY <1>0, <1>7 DEF DeleteSave, Forget, TypeOK
  <2>3. /\ pc[c] = "save" /\ disk' = records
        /\ UNCHANGED <<live, records, mounts, published, restarts>>
        /\ \A u \in Target : u # t => phase'[u] = phase[u]
    BY <1>0, <1>7 DEF DeleteSave, Sequential, TypeOK
  <2>4. /\ t \in Target /\ t \notin records /\ t \notin live
        /\ ~(published[t] /\ Mounted(t))
        /\ \A d \in Call : target[d] = t => d = c
    BY <1>0, <2>3, Sole
       DEF StrandedRest, Removing, Deleting, MountInv, Unpublished
  <2>5. /\ \A u \in Target : Handlers(u)' = Handlers(u) \ {c}
        /\ \A d \in Call : Deleting(d)' <=> d # c /\ Deleting(d)
    BY <2>1, <2>2, PluginAssumption DEF Handlers, Deleting
  <2>6. Traced'
    <3> SUFFICES ASSUME NEW u \in Target, published[u], Mounted(u)
                 PROVE  /\ u \in records \/ \E d \in Handlers(u)' : pc'[d] \in {"unmount", "undetach"}
                        /\ restarts < MaxRestarts => u \in records
      BY <2>3 DEF Traced, Mounted
    <3>1. u # t
      BY <2>4
    <3>2. ~(restarts < MaxRestarts)
      BY <1>b, <2>4, <3>1
    <3>3. \A d \in Handlers(u) : d # c /\ pc'[d] = pc[d]
      BY <2>1, <3>1 DEF Handlers
    <3> QED
      BY <1>0, <2>5, <3>2, <3>3 DEF StrandedRest, Traced
  <2>7. Removing'
    BY <1>0, <2>1, <2>2, <2>3, <2>5 DEF StrandedRest, Removing, Mounted
  <2>8. Removed'
    <3> SUFFICES ASSUME NEW u \in Target, phase'[u] = "removed"
                 PROVE  /\ u \notin live \cup records
                        /\ \A d \in Handlers(u)' : Deleting(d)'
      BY <2>3 DEF Removed
    <3>1. CASE u = t
      BY <2>4, <2>5, <3>1 DEF Handlers
    <3>2. CASE u # t
      BY <1>0, <2>3, <2>5, <3>2 DEF StrandedRest, Removed, Handlers
    <3> QED
      BY <3>1, <3>2
  <2> QED
    BY <2>6, <2>7, <2>8 DEF StrandedRest
<1>8. ASSUME ShutdownBegin PROVE StrandedRest'
  BY <1>8, <1>a DEF ShutdownBegin, Mounted
<1>9. ASSUME NEW t \in Target, ShutdownUnmount(t) PROVE StrandedRest'
  <2>1. \A u \in Target : Mounted(u)' => Mounted(u)
    BY <1>0, <1>9 DEF ShutdownUnmount, Unmount, UnmountFails, Mounted, TypeOK
  <2> QED
    BY <1>9, <1>a, <2>1 DEF ShutdownUnmount
<1>10. ASSUME Restart PROVE StrandedRest'
  <2>1. /\ live' = {} /\ records' = disk /\ disk' = disk
        /\ restarts < MaxRestarts
        /\ UNCHANGED <<phase, published>>
        /\ \A c \in Call : pc'[c] = "idle" /\ target'[c] = None
    BY <1>10 DEF Restart, NoCall
  <2>2. \A t \in Target : Mounted(t)' => Mounted(t)
    BY <1>0, <1>10, OneMount DEF Restart, Mounted, MountInv, Stack
  <2>3. Traced' /\ Removing'
    BY <1>0, <2>1, <2>2 DEF StrandedRest, Traced, Removing, Deleting
  <2>4. Removed'
    BY <1>0, <2>1, PluginAssumption DEF StrandedRest, Removed, Handlers
  <2> QED
    BY <2>3, <2>4 DEF StrandedRest
<1>11. ASSUME UNCHANGED vars PROVE StrandedRest'
  BY <1>11, <1>a DEF vars, Mounted
<1>12. StrandedRest'
  BY <1>1, <1>2, <1>3, <1>4, <1>5, <1>6, <1>7, <1>8, <1>9, <1>10, <1>11
     DEF Next, DeleteStep, ShutdownStep
<1> QED
  BY <1>0, <1>12 DEF StrandedInv, StrandedRest

(* StrandedInv holds initially. *)
LEMMA StrandedInit == Init => StrandedInv
BY MountInit, RecordInit
   DEF Init, NoCall, StrandedInv, Traced, Removing, Removed, Deleting

(* Once NodeUnpublishVolume has answered OK for a target that was mounted,  *)
(* neither a mount nor a record of it is left: for any number of targets if *)
(* the process is not restarted, and for one target through any number of   *)
(* restarts.                                                                *)
THEOREM Stranded == Contained => (Spec => []NothingStranded)
<1> SUFFICES ASSUME Contained PROVE Spec => []NothingStranded
  OBVIOUS
<1>1. StrandedInv /\ [Next]_vars => StrandedInv'
  BY StrandedStep
<1>2. StrandedInv => NothingStranded
  BY DEF StrandedInv, Traced, Removed, NothingStranded
<1> QED
  BY StrandedInit, <1>1, <1>2, PTL DEF Spec

----------------------------------------------------------------------------
(* What of the mounted can be locked *)

(* Go's arithmetic is exact within the type. *)
LEMMA WrapExact ==
    ASSUME NEW max \in Nat, NEW n \in 0..max
    PROVE  Wrap(n, max) = n
<1>1. \A a, b \in Nat : a < b => a % b = a
  OBVIOUS
<1>2. /\ n + max + 1 \in Nat /\ 2 * (max + 1) \in Nat
      /\ n + max + 1 < 2 * (max + 1)
  OBVIOUS
<1>3. (n + max + 1) % (2 * (max + 1)) = n + max + 1
  BY <1>1, <1>2
<1> QED
  BY <1>3 DEF Wrap

(* ... and leaves a value of the type, whatever went in. *)
LEMMA WrapBounded ==
    ASSUME NEW max \in Nat, NEW n \in Int
    PROVE  Wrap(n, max) \in Int /\ Wrap(n, max) <= max
<1>1. \A i \in Int, j \in Nat \ {0} : i % j \in 0..(j - 1)
  OBVIOUS
<1>2. n + max + 1 \in Int /\ 2 * (max + 1) \in Nat \ {0}
  OBVIOUS
<1>3. (n + max + 1) % (2 * (max + 1)) \in 0..(2 * (max + 1) - 1)
  BY <1>1, <1>2
<1> QED
  BY <1>3 DEF Wrap

LEMMA ProductQuotient ==
    ASSUME NEW a \in Nat, NEW b \in Nat \ {0}
    PROVE  (a * b) \div b = a
OBVIOUS

(* A whole number of seconds that fits the Lease's field survives the trip  *)
(* through time.Duration.                                                   *)
LEMMA WholeSeconds ==
    ASSUME NEW k \in 1..MaxInt32
    PROVE  /\ k * Second \in 1..MaxInt64
           /\ Wrap(k * Second, MaxInt64) = k * Second
           /\ Wrap((k * Second) \div Second, MaxInt32) = k
<1>1. Second \in Nat \ {0} /\ MaxInt32 \in Nat /\ MaxInt64 \in Nat
  BY RequestAssumption
<1>2. \A a, b, x \in Nat : a <= b => a * x <= b * x
  OBVIOUS
<1>3. k * Second <= MaxInt32 * Second
  BY <1>1, <1>2
<1>4. \A a \in Nat \ {0}, b \in Nat \ {0} : a * b \in Nat \ {0}
  OBVIOUS
<1>5. k * Second \in Nat \ {0}
  BY <1>1, <1>4
<1>6. MaxInt32 * Second \in Nat
  BY <1>1
<1>7. k * Second \in 1..MaxInt64
  BY <1>1, <1>3, <1>5, <1>6, RequestAssumption
<1>8. (k * Second) \div Second = k
  BY <1>1, ProductQuotient
<1> QED
  BY <1>1, <1>7, <1>8, WrapExact

(* Attributes that publish accepts and that are within the limits make a    *)
(* Lease that works.                                                        *)
LEMMA LockableWithin ==
    ASSUME NEW attr, Acceptable(attr), WithinLimits(attr)
    PROVE  Lockable(attr)
<1>1. IsDNS1123Subdomain(LeaseName(attr))
  <2>1. CASE attr.lease # None
    BY <2>1 DEF Acceptable, ParsesConfig, ValidNames, LeaseName
  <2>2. CASE attr.lease = None
    <3>1. attr.object.len \in 1..MaxName /\ attr.object.legal
      BY DEF Acceptable, ParsesConfig, ValidNames, IsDNS1123Subdomain
    <3>2. Prefix + attr.object.len \in 1..MaxName
      BY <2>2, <3>1, RequestAssumption DEF WithinLimits
    <3> QED
      BY <2>2, <3>1, <3>2 DEF LeaseName, IsDNS1123Subdomain
  <2> QED
    BY <2>1, <2>2
<1>2. PICK k \in 1..MaxInt32 : Seconds(attr.seconds, DefaultLeaseDuration) = k * Second
  <2>1. CASE attr.seconds = None
    BY <2>1, RequestAssumption DEF Seconds
  <2>2. CASE attr.seconds # None
    <3>1. attr.seconds \in 1..MaxInt32
      BY <2>2, RequestAssumption
         DEF Acceptable, ParsesConfig, ParsesSeconds, WithinLimits
    <3> QED
      BY <2>2, <3>1, WholeSeconds DEF Seconds
  <2> QED
    BY <2>1, <2>2
<1>3. HeldFor(attr) = k * Second
  BY <1>2, WholeSeconds DEF HeldFor
<1>4. LeaseDurationSeconds(attr) = k
  BY <1>3, WholeSeconds DEF LeaseDurationSeconds
<1>5. AskedFor(attr) = k
  <2>1. Second \in Nat \ {0}
    BY RequestAssumption
  <2>2. \A m \in 1..MaxInt32 : (m * Second) \div Second = m
    BY <2>1, RequestAssumption, ProductQuotient
  <2>3. CASE attr.seconds = None
    BY <1>2, <2>2, <2>3 DEF Seconds, AskedFor
  <2>4. CASE attr.seconds # None
    <3>1. attr.seconds \in 1..MaxInt32
      BY <2>4, RequestAssumption
         DEF Acceptable, ParsesConfig, ParsesSeconds, WithinLimits
    <3>2. attr.seconds * Second = k * Second
      BY <1>2, <2>4, <3>1, WholeSeconds DEF Seconds
    <3> QED
      BY <2>2, <2>4, <3>1, <3>2 DEF AskedFor
  <2> QED
    BY <2>3, <2>4
<1> QED
  BY <1>1, <1>3, <1>4, <1>5 DEF Lockable

(* ... and attributes that publish accepts and that are not, do not.        *)
LEMMA LockableOnlyWithin ==
    ASSUME NEW attr, Acceptable(attr), Lockable(attr)
    PROVE  WithinLimits(attr)
<1>1. attr.lease = None => attr.object.len + Prefix <= MaxName
  <2> SUFFICES ASSUME attr.lease = None PROVE attr.object.len + Prefix <= MaxName
    OBVIOUS
  <2>1. attr.object.len \in 1..MaxName
    BY DEF Acceptable, ParsesConfig, ValidNames, IsDNS1123Subdomain
  <2>2. Prefix + attr.object.len \in 1..MaxName
    BY DEF Lockable, LeaseName, IsDNS1123Subdomain
  <2> QED
    BY <2>1, <2>2, RequestAssumption
<1>2. attr.seconds # None => attr.seconds <= MaxInt32
  <2> SUFFICES ASSUME attr.seconds # None PROVE attr.seconds <= MaxInt32
    OBVIOUS
  <2>1. /\ attr.seconds \in 1..MaxInt64 /\ Second \in Nat \ {0}
        /\ MaxInt32 \in Nat /\ MaxInt64 \in Nat
    BY RequestAssumption DEF Acceptable, ParsesConfig, ParsesSeconds
  <2>2. attr.seconds * Second \in Int
    BY <2>1
  <2>3. Seconds(attr.seconds, DefaultLeaseDuration) \in Int
    BY <2>1, <2>2, WrapBounded DEF Seconds
  <2>4. DefaultLeaseDuration \in Int
    BY <2>1, RequestAssumption
  <2>5. HeldFor(attr) \in Int
    BY <2>3, <2>4 DEF HeldFor
  <2>6. HeldFor(attr) \div Second \in Int
    BY <2>1, <2>5
  <2>7. LeaseDurationSeconds(attr) <= MaxInt32
    BY <2>1, <2>6, WrapBounded DEF LeaseDurationSeconds
  <2> QED
    BY <2>7 DEF Lockable, AskedFor
<1> QED
  BY <1>1, <1>2 DEF WithinLimits

(* Every step preserves Accepted. *)
LEMMA AcceptedStep == LockInv /\ Accepted /\ [Next]_vars => Accepted'
<1> SUFFICES ASSUME LockInv, Accepted, [Next]_vars PROVE Accepted'
  OBVIOUS
<1>0. TypeOK /\ UNCHANGED attrs
  <2>1. CASE Next
    BY <2>1 DEF Next, PublishStep, DeleteStep, ShutdownStep, Mint, PodDeleted, Delete,
       Publish, Republish, LockRef, LockTake, Recheck, Authorize, Refuse,
       Detach, Mount, MountFails, Put, Persist, PersistFails, Unlock, Unref,
       DeleteUnmount, DeleteSave, ShutdownBegin, ShutdownUnmount, Restart,
       kubeletVars, LockInv
  <2> QED
    BY <2>1 DEF vars, kubeletVars, LockInv
<1> USE DEF registryVars, handlerVars, callVars
<1>1. ASSUME live' \subseteq live, UNCHANGED target,
             NEW c \in Call, NEW w, Goto(c, w),
             w \in {"detach", "mount", "put"} => Acceptable(attrs[target[c]])
      PROVE  Accepted'
  <2>1. \A d \in Call : pc'[d] = IF d = c THEN w ELSE pc[d]
    BY <1>0, <1>1 DEF Goto, TypeOK
  <2> QED
    BY <1>0, <1>1, <2>1 DEF Accepted
<1>2. ASSUME live' \subseteq live, NEW c \in Call, NEW t,
             target' = [target EXCEPT ![c] = t],
             NEW w, w \notin {"detach", "mount", "put"}, Goto(c, w)
      PROVE  Accepted'
  <2>1. \A d \in Call : pc'[d] = IF d = c THEN w ELSE pc[d]
    BY <1>0, <1>2 DEF Goto, TypeOK
  <2>2. \A d \in Call : d # c => target'[d] = target[d]
    BY <1>0, <1>2 DEF TypeOK
  <2> QED
    BY <1>0, <1>2, <2>1, <2>2 DEF Accepted
<1>3. ASSUME UNCHANGED <<live, pc, target>> PROVE Accepted'
  BY <1>0, <1>3 DEF Accepted
<1>4. ASSUME NEW c \in Call, PublishStep(c) PROVE Accepted'
  <2>1. CASE Republish(c)
    BY <1>2, <2>1 DEF Republish, Forget
  <2>2. CASE LockRef(c)
    BY <1>1, <2>2 DEF LockRef
  <2>3. CASE LockTake(c)
    BY <1>1, <2>3 DEF LockTake
  <2>4. CASE Recheck(c)
    BY <1>1, <2>4 DEF Recheck, Answer
  <2>5. CASE Authorize(c)
    BY <1>1, <2>5 DEF Authorize
  <2>6. CASE Refuse(c)
    BY <1>1, <2>6 DEF Refuse, PublishError, Answer
  <2>7. CASE Detach(c)
    BY <1>1, <2>7 DEF Detach, PublishError, Answer, Accepted
  <2>8. CASE Mount(c)
    BY <1>1, <2>8 DEF Mount, Accepted
  <2>9. CASE MountFails(c)
    BY <1>1, <2>9 DEF MountFails, PublishError, Answer
  <2>10. CASE Put(c)
    <3>1. /\ live' = live \cup {target[c]} /\ Acceptable(attrs[target[c]])
          /\ UNCHANGED target
          /\ \A d \in Call : pc'[d] = IF d = c THEN "persist" ELSE pc[d]
      BY <1>0, <2>10 DEF Put, Goto, Accepted, TypeOK
    <3> QED
      BY <1>0, <3>1 DEF Accepted
  <2>11. CASE Persist(c)
    BY <1>1, <2>11 DEF Persist, Answer
  <2>12. CASE PersistFails(c)
    BY <1>1, <2>12 DEF PersistFails, PublishError, Answer
  <2>13. CASE Unlock(c)
    BY <1>1, <2>13 DEF Unlock
  <2>14. CASE Unref(c)
    BY <1>2, <2>14 DEF Unref, Forget
  <2> QED
    BY <1>4, <2>1, <2>2, <2>3, <2>4, <2>5, <2>6, <2>7, <2>8, <2>9, <2>10,
       <2>11, <2>12, <2>13, <2>14 DEF PublishStep
<1>5. ASSUME NEW c \in Call, DeleteStep(c) PROVE Accepted'
  <2>1. CASE DeleteUnmount(c)
    BY <1>1, <2>1 DEF DeleteUnmount
  <2>2. CASE DeleteSave(c)
    BY <1>2, <2>2 DEF DeleteSave, Forget
  <2> QED
    BY <1>5, <2>1, <2>2 DEF DeleteStep
<1>6. ASSUME NEW c \in Call, NEW t \in Target, Delete(c, t) PROVE Accepted'
  <2>1. PICK w \in {"unmount", "undetach", "save"} : Goto(c, w)
    BY <1>6 DEF Delete
  <2> QED
    BY <1>2, <1>6, <2>1 DEF Delete
<1>7. ASSUME NEW c \in Call, NEW t \in Target, NEW payload \in Payloads,
             Publish(c, t, payload)
      PROVE  Accepted'
  <2>1. PICK w \in {"swap", "ref"} : Goto(c, w)
    BY <1>7 DEF Publish
  <2> QED
    BY <1>2, <1>7, <2>1 DEF Publish
<1>8. CASE Restart
  BY <1>8 DEF Restart, NoCall, Accepted
<1>9. CASE \/ \E t \in Target : Mint(t) \/ PodDeleted(t)
           \/ ShutdownStep
           \/ UNCHANGED vars
  BY <1>3, <1>9 DEF Mint, PodDeleted, ShutdownStep, ShutdownBegin,
                    ShutdownUnmount, vars
<1> QED
  BY <1>4, <1>5, <1>6, <1>7, <1>8, <1>9 DEF Next

(* For any attributes that pods come with and at Go's real integer widths:  *)
(* a mounted volume has a Lease that the API server takes, that others      *)
(* honour for as long as its holder counts on, and that lasts as long as    *)
(* the pod asked, exactly if its names leave room for the prefix and its    *)
(* seconds fit int32.  ParseConfig checks everything else and neither of    *)
(* these.                                                                   *)
THEOREM MountedLockable == Spec => []LockableExactly
<1>1. Init => Accepted
  BY DEF Init, NoCall, Accepted
<1>2. Accepted => LockableExactly
  BY LockableWithin, LockableOnlyWithin DEF Accepted, LockableExactly
<1> QED
  BY LockInit, LockStep, AcceptedStep, <1>1, <1>2, PTL DEF Spec
=============================================================================
