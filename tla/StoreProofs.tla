---------------------------- MODULE StoreProofs ----------------------------
(***************************************************************************)
(* For any set of keys and values, the merge patches of both Stores do     *)
(* exactly what Snapshot.With says they do, whatever the other mounts of   *)
(* the object did in between.                                              *)
(***************************************************************************)
EXTENDS ObjectStore, TLAPS

(* With of a well-typed map is a well-typed map. *)
LEMMA WithType ==
    ASSUME NEW data \in Map, NEW set \in Sets, NEW del \in SUBSET Key
    PROVE  With(data, set, del) \in Map
BY StoreAssumption DEF Map, Sets, With, Stored

(* ConfigMapStore.Patch keeps the object's type. *)
LEMMA ConfigMapPatchType ==
    ASSUME NEW obj \in ConfigMap, NEW set \in Sets, NEW del \in SUBSET Key
    PROVE  MergeConfigMap(obj, set, del) \in ConfigMap
<1>1. Merge(obj.data, TextPatch(set, del)) \in [Key -> Text \cup {None}]
  BY StoreAssumption
     DEF ConfigMap, Map, Sets, Stored, Merge, TextPatch, Valid
<1>2. Merge(obj.binaryData, BinaryPatch(set, del)) \in Map
  BY StoreAssumption
     DEF ConfigMap, Map, Sets, Stored, Merge, BinaryPatch, Valid
<1> QED
  BY <1>1, <1>2 DEF MergeConfigMap, ConfigMap

(* ConfigMapStore.Patch never leaves a key in both halves. *)
LEMMA ConfigMapPatchDisjoint ==
    ASSUME NEW obj \in ConfigMap, NEW set \in Sets, NEW del \in SUBSET Key,
           KeysDisjoint(obj)
    PROVE  KeysDisjoint(MergeConfigMap(obj, set, del))
BY StoreAssumption
   DEF ConfigMap, Map, Sets, Stored, KeysDisjoint, MergeConfigMap, Merge,
       TextPatch, BinaryPatch, Valid

(* ConfigMapStore.Patch, merged and decoded, is Snapshot.With. *)
LEMMA ConfigMapPatchIsWith ==
    ASSUME NEW obj \in ConfigMap, NEW set \in Sets, NEW del \in SUBSET Key
    PROVE  DecodeConfigMap(MergeConfigMap(obj, set, del))
             = With(DecodeConfigMap(obj), set, del)
BY StoreAssumption
   DEF ConfigMap, Map, Sets, Stored, DecodeConfigMap, MergeConfigMap, Merge,
       TextPatch, BinaryPatch, Valid, With

(* Patch of either Store keeps the object's type. *)
LEMMA PatchedType ==
    ASSUME TypeOK, NEW set \in Sets, NEW del \in SUBSET Key
    PROVE  Patched(object, set, del) \in IF kind = "Secret" THEN Map ELSE ConfigMap
<1>1. CASE kind = "Secret"
  BY <1>1, StoreAssumption
     DEF TypeOK, Patched, Map, Sets, Stored, Merge, SecretPatch
<1>2. CASE kind # "Secret"
  BY <1>2, ConfigMapPatchType DEF TypeOK, Patched
<1> QED
  BY <1>1, <1>2

(* The object decodes to a map of stored values. *)
LEMMA DecodeType ==
    ASSUME TypeOK
    PROVE  Decode(object) \in Map
<1>1. CASE kind = "Secret"
  BY <1>1 DEF TypeOK, Decode, DecodeSecret
<1>2. CASE kind # "Secret"
  BY <1>2, StoreAssumption
     DEF TypeOK, Decode, DecodeConfigMap, ConfigMap, Map, Stored
<1> QED
  BY <1>1, <1>2

(* What a patch of either Store leaves at the server, key by key: With of   *)
(* the object, save that a Secret loses a key that is set to nil.           *)
LEMMA PatchedDecodes ==
    ASSUME TypeOK, NEW set \in Sets, NEW del \in SUBSET Key, NEW k \in Key
    PROVE  LET new == Decode(Patched(object, set, del))
               with == With(Decode(object), set, del)
           IN  IF kind = "Secret" /\ k \notin del /\ set[k] = Nil
               THEN new[k] = None /\ with[k] = Empty
               ELSE new[k] = with[k]
<1>1. CASE kind = "Secret"
  BY <1>1, StoreAssumption
     DEF TypeOK, Patched, Decode, DecodeSecret, Map, Sets, Stored, Merge,
         SecretPatch, With
<1>2. CASE kind # "Secret"
  BY <1>2, ConfigMapPatchIsWith DEF TypeOK, Patched, Decode
<1> QED
  BY <1>1, <1>2

StoreInv == TypeOK /\ ConfigMapAccepted

(* The arguments every operation of the file system passes to Commit: of    *)
(* stored values only, unless a key can vanish under a truncate.            *)
Commits(m, set, del) ==
    /\ set \in Sets
    /\ del \in SUBSET Key
    /\ Commit(m, set, del)
    /\ ~KeysVanish => set \in Map

(* An operation names every key its commit sets or deletes. *)
Touched(set, del) == del \cup {k \in Key : set[k] # None}

(* Every operation of a mount is one Commit, of keys that it names, or a    *)
(* Refresh.                                                                 *)
LEMMA StepCommits ==
    ASSUME TypeOK, NEW m \in Mount, Step(m)
    PROVE  \/ Refresh(m)
           \/ \E set, del : /\ Commits(m, set, del)
                            /\ \A k \in Touched(set, del) : Names(m, k)
<1> DEFINE Goal == \E set, del : /\ Commits(m, set, del)
                                 /\ \A k \in Touched(set, del) : Names(m, k)
<1>1. \A k \in Key, v \in Stored : Only(k, v) \in Map /\ Only(k, v) \in Sets
  BY DEF Only, NoKeys, Map, Sets
<1>2. NoKeys \in Map /\ NoKeys \in Sets
  BY DEF NoKeys, Map, Sets
<1>3. \A k \in Key, v \in Stored \cup {Nil} : Only(k, v) \in Sets
  BY DEF Only, NoKeys, Sets
<1>4. \A k \in Key : \A v, del : Touched(Only(k, v), del) \subseteq del \cup {k}
  BY DEF Touched, Only, NoKeys
<1>5. \A del : Touched(NoKeys, del) = del
  BY DEF Touched, NoKeys
<1>6. ASSUME NEW k \in Key, CommitHandle(m, k)
      PROVE  Goal
  <2>1. PICK v \in Stored : Commit(m, Only(k, v), {})
    BY <1>6 DEF CommitHandle
  <2>2. Commits(m, Only(k, v), {})
    BY <2>1, <1>1 DEF Commits
  <2>3. \A j \in Touched(Only(k, v), {}) : Names(m, j)
    BY <1>4, <1>6 DEF Names
  <2> QED
    BY <2>2, <2>3
<1>7. ASSUME NEW k \in Key, Unlink(m, k)
      PROVE  Goal
  <2>1. Commits(m, NoKeys, {k})
    BY <1>2, <1>7 DEF Unlink, Commits
  <2>2. \A j \in Touched(NoKeys, {k}) : Names(m, j)
    BY <1>5, <1>7 DEF Names
  <2> QED
    BY <2>1, <2>2
<1>8. ASSUME NEW k \in Key, TruncateCommitted(m, k)
      PROVE  Goal
  <2>1. PICK v \in Stored \cup {Nil} :
          Commit(m, Only(k, v), {}) /\ (~KeysVanish => v \in Stored)
    BY <1>8 DEF TruncateCommitted, TruncateVanished, Stored
  <2>2. Commits(m, Only(k, v), {})
    BY <2>1, <1>1, <1>3 DEF Commits
  <2>3. \A j \in Touched(Only(k, v), {}) : Names(m, j)
    BY <1>4, <1>8 DEF Names
  <2> QED
    BY <2>2, <2>3
<1>9. ASSUME NEW k \in Key, NEW new \in Key, Rename(m, k, new)
      PROVE  Goal
  <2>1. cached[m][k] \in Stored
    BY <1>9 DEF Rename, TypeOK, Map
  <2>2. Commits(m, Only(new, cached[m][k]), {k})
    BY <2>1, <1>1, <1>9 DEF Rename, Commits
  <2>3. \A j \in Touched(Only(new, cached[m][k]), {k}) : Names(m, j)
    BY <1>4, <1>9 DEF Names
  <2> QED
    BY <2>2, <2>3
<1> QED
  BY <1>6, <1>7, <1>8, <1>9 DEF Step

(* One Commit preserves the types and an acceptable ConfigMap. *)
LEMMA CommitPreserves ==
    ASSUME NEW m \in Mount, NEW set, NEW del, StoreInv, Commits(m, set, del)
    PROVE  StoreInv'
<1>1. cached' \in [Mount -> Map]
  <2>1. With(cached[m], set, del) \in Map
    BY WithType DEF StoreInv, TypeOK, Commits
  <2> QED
    BY <2>1 DEF StoreInv, TypeOK, Commits, Commit, Apply
<1>2. TypeOK'
  BY <1>1, PatchedType DEF StoreInv, TypeOK, Commits, Commit, Apply
<1>3. ConfigMapAccepted'
  BY ConfigMapPatchDisjoint
     DEF StoreInv, TypeOK, ConfigMapAccepted, Commits, Commit, Apply, Patched
<1> QED
  BY <1>2, <1>3 DEF StoreInv

(* The initial object and caches satisfy the invariant. *)
LEMMA StoreInit == Init => StoreInv
<1> SUFFICES ASSUME Init PROVE StoreInv
  OBVIOUS
<1>1. Decode(object) \in Map
  <2>1. CASE kind = "Secret"
    BY <2>1 DEF Init, Decode, DecodeSecret
  <2>2. CASE kind # "Secret"
    BY <2>2, StoreAssumption
       DEF Init, Decode, DecodeConfigMap, ConfigMap, Map, Stored
  <2> QED
    BY <2>1, <2>2
<1> QED
  BY <1>1 DEF Init, StoreInv, TypeOK, ConfigMapAccepted

(* Every step preserves the invariant. *)
LEMMA StoreStep == StoreInv /\ [Next]_vars => StoreInv'
<1> SUFFICES ASSUME StoreInv, [Next]_vars PROVE StoreInv'
  OBVIOUS
<1>1. ASSUME NEW m \in Mount, Step(m) PROVE StoreInv'
  <2>1. CASE Refresh(m)
    BY <2>1, DecodeType DEF StoreInv, TypeOK, ConfigMapAccepted, Refresh
  <2>2. CASE ~Refresh(m)
    BY <1>1, <2>2, StepCommits, CommitPreserves DEF StoreInv
  <2> QED
    BY <2>1, <2>2
<1>2. CASE UNCHANGED vars
  BY <1>2 DEF vars, StoreInv, TypeOK, ConfigMapAccepted
<1> QED
  BY <1>1, <1>2 DEF Next

(* ObjectStore is type correct: in particular the text half of a ConfigMap  *)
(* never receives a binary value.                                           *)
THEOREM StoreTypeCorrect == Spec => []TypeOK
<1>1. StoreInv => TypeOK
  BY DEF StoreInv
<1> QED
  BY StoreInit, StoreStep, <1>1, PTL DEF Spec

(* ConfigMapStore: whatever the mounts of an object are asked to do, the    *)
(* ConfigMap stays acceptable to the API server.                            *)
THEOREM ConfigMapAlwaysAccepted == Spec => []ConfigMapAccepted
<1>1. StoreInv => ConfigMapAccepted
  BY DEF StoreInv
<1> QED
  BY StoreInit, StoreStep, <1>1, PTL DEF Spec

(* An operation that names a key writes or deletes it, and writes nil only  *)
(* in a truncate of a key that has vanished.                                *)
LEMMA NamesCommits ==
    ASSUME TypeOK, NEW m \in Mount, NEW k \in Key, Names(m, k)
    PROVE  \E set, del : /\ Commits(m, set, del)
                         /\ k \in Touched(set, del)
                         /\ set[k] = Nil => TruncateVanished(m, k)
<1> DEFINE Goal == \E set, del : /\ Commits(m, set, del)
                                 /\ k \in Touched(set, del)
                                 /\ set[k] = Nil => TruncateVanished(m, k)
<1>1. \A j \in Key, v \in Stored :
        /\ Only(j, v) \in Map /\ Only(j, v) \in Sets
        /\ \A i \in Key : Only(j, v)[i] # Nil
        /\ Only(j, v)[j] # None
  BY StoreAssumption DEF Only, NoKeys, Map, Sets
<1>2. ASSUME NEW v \in Stored, Commit(m, Only(k, v), {}) PROVE Goal
  BY <1>1, <1>2 DEF Commits, Touched
<1>3. ASSUME CommitHandle(m, k) PROVE Goal
  BY <1>2, <1>3 DEF CommitHandle
<1>4. ASSUME Unlink(m, k) PROVE Goal
  <2>1. NoKeys \in Map /\ NoKeys \in Sets /\ NoKeys[k] # Nil
    BY StoreAssumption DEF NoKeys, Map, Sets
  <2> QED
    BY <2>1, <1>4 DEF Unlink, Commits, Touched
<1>5. ASSUME TruncateCommitted(m, k) PROVE Goal
  <2>1. CASE TruncateVanished(m, k)
    <3>1. Only(k, Nil) \in Sets /\ Only(k, Nil)[k] = Nil
      BY DEF Only, NoKeys, Sets
    <3>2. Commits(m, Only(k, Nil), {}) /\ k \in Touched(Only(k, Nil), {})
      BY <2>1, <3>1, StoreAssumption DEF TruncateVanished, Commits, Touched
    <3> QED
      BY <2>1, <3>2
  <2>2. CASE ~TruncateVanished(m, k)
    BY <1>2, <1>5, <2>2 DEF TruncateCommitted, Stored
  <2> QED
    BY <2>1, <2>2
<1>6. ASSUME NEW i \in Key, NEW j \in Key, Rename(m, i, j), k \in {i, j}
      PROVE  Goal
  <2>1. cached[m][i] \in Stored
    BY <1>6 DEF Rename, TypeOK, Map
  <2>2. Commits(m, Only(j, cached[m][i]), {i})
    BY <2>1, <1>1, <1>6 DEF Rename, Commits
  <2>3. /\ k \in Touched(Only(j, cached[m][i]), {i})
        /\ Only(j, cached[m][i])[k] # Nil
    BY <2>1, <1>1, <1>6 DEF Touched
  <2> QED
    BY <2>2, <2>3
<1> QED
  BY <1>3, <1>4, <1>5, <1>6 DEF Names

(* One step of a mount leaves its Snapshot right about what it wrote and    *)
(* about what it was right about, unless the key vanishes.                  *)
LEMMA StepAgrees ==
    ASSUME StoreInv, NEW m \in Mount, NEW k \in Key, Step(m),
           Exact(m, k) \/ Names(m, k)
    PROVE  Exact(m, k)' \/ Vanishes(m, k)
<1>1. ASSUME NEW set, NEW del, Commits(m, set, del),
             kind = "Secret" /\ k \notin del => set[k] # Nil,
             Exact(m, k) \/ k \in Touched(set, del)
      PROVE  Exact(m, k)'
  <2>1. /\ cached'[m] = With(cached[m], set, del)
        /\ Decode(object)' = Decode(Patched(object, set, del))
    BY <1>1 DEF StoreInv, TypeOK, Commits, Commit, Apply, Decode
  <2>2. Decode(object)'[k] = With(Decode(object), set, del)[k]
    BY <1>1, <2>1, PatchedDecodes DEF StoreInv, Commits
  <2> QED
    BY <1>1, <2>1, <2>2 DEF Exact, With, Touched
<1>2. CASE Names(m, k)
  BY <1>1, <1>2, NamesCommits DEF StoreInv, Vanishes
<1>3. CASE ~Names(m, k) /\ Refresh(m)
  BY <1>3 DEF StoreInv, TypeOK, Refresh, Exact, Decode
<1>4. CASE ~Names(m, k) /\ ~Refresh(m)
  <2>1. PICK set, del : Commits(m, set, del) /\ k \notin Touched(set, del)
    BY <1>4, StepCommits DEF StoreInv
  <2>2. k \notin del => set[k] # Nil
    BY <2>1, StoreAssumption DEF Touched
  <2> QED
    BY <1>1, <1>4, <2>1, <2>2
<1> QED
  BY <1>2, <1>3, <1>4

(* Committer.Commit and both Stores: a Snapshot derived by a commit is right *)
(* about what the commit wrote, for any number of mounts, keys and values.   *)
THEOREM OwnWritesAlwaysAgree == Spec => OwnWritesAgree
<1>1. StoreInv /\ [Next]_vars =>
        [\A m \in Mount, k \in Key :
           Step(m) /\ (Exact(m, k) \/ Names(m, k))
             => Exact(m, k)' \/ Vanishes(m, k)]_vars
  BY StepAgrees
<1> QED
  BY StoreInit, StoreStep, <1>1, PTL DEF Spec, OwnWritesAgree

(* Committer.Commit and both Stores: the same without exception, as long as  *)
(* no key vanishes under a truncate, the only way a nil slice gets into a    *)
(* patch.                                                                    *)
THEOREM OwnWritesExactIfKept == ~KeysVanish => (Spec => OwnWritesExact)
<1> SUFFICES ASSUME ~KeysVanish PROVE Spec => OwnWritesExact
  OBVIOUS
<1>1. StoreInv /\ [Next]_vars =>
        [\A m \in Mount, k \in Key :
           Step(m) /\ (Exact(m, k) \/ Names(m, k)) => Exact(m, k)']_vars
  BY StepAgrees DEF Vanishes, TruncateVanished
<1> QED
  BY StoreInit, StoreStep, <1>1, PTL DEF Spec, OwnWritesExact

(* Committer.Commit and both Stores: a key changes at the server only by an  *)
(* operation that names it, however stale the cache it was made from.        *)
THEOREM OthersAlwaysKept == Spec => OthersKept
<1>1. ASSUME StoreInv, NEW m \in Mount, Step(m), NEW k \in Key,
             (Decode(object)[k])' # Decode(object)[k]
      PROVE  Names(m, k)
  <2>1. ~Refresh(m)
    BY <1>1 DEF Refresh, Decode
  <2>2. PICK set, del : /\ Commits(m, set, del)
                        /\ \A j \in Touched(set, del) : Names(m, j)
    BY <1>1, <2>1, StepCommits DEF StoreInv
  <2>3. Decode(object)' = Decode(Patched(object, set, del))
    BY <2>2 DEF Commits, Commit, Apply, Decode
  <2>4. CASE k \in Touched(set, del)
    BY <2>2, <2>4
  <2>5. CASE k \notin Touched(set, del)
    <3>1. k \notin del /\ set[k] = None
      BY <2>5 DEF Touched
    <3>2. Decode(object)'[k] = With(Decode(object), set, del)[k]
      BY <1>1, <2>2, <2>3, <3>1, PatchedDecodes, StoreAssumption
         DEF StoreInv, Commits
    <3> QED
      BY <1>1, <3>1, <3>2, StoreAssumption DEF With
  <2> QED
    BY <2>4, <2>5
<1>2. StoreInv /\ [Next]_vars =>
        [\A k \in Key : (Decode(object)[k])' # Decode(object)[k]
           => \E m \in Mount : Names(m, k)]_vars
  BY <1>1 DEF Next
<1> QED
  BY StoreInit, StoreStep, <1>2, PTL DEF Spec, OthersKept

(* checkSize: ENOSPC is given for exactly the commits the API server would   *)
(* refuse, by a mount that has the sizes right, whatever they set, delete or *)
(* rename.                                                                   *)
THEOREM SizeAlwaysAgrees == Spec => []SizeAgrees
<1>1. StoreInv => SizeAgrees
  <2> SUFFICES ASSUME StoreInv, NEW m \in Mount,
                      Lengths(cached[m]) = Lengths(Decode(object)),
                      NEW set \in Sets, NEW del \in SUBSET Key
               PROVE  CheckSize(m, set, del) <=> Fits(Patched(object, set, del))
    BY DEF SizeAgrees
  <2> DEFINE here == With(cached[m], set, del)
             there == Decode(Patched(object, set, del))
             len(v) == IF v = None THEN 0 ELSE LenOf[v]
  <2>1. ASSUME NEW k \in Key PROVE len(here[k]) = len(there[k])
    <3>1. len(cached[m][k]) = len(Decode(object)[k])
      BY DEF Lengths
    <3>2. IF kind = "Secret" /\ k \notin del /\ set[k] = Nil
          THEN there[k] = None /\ With(Decode(object), set, del)[k] = Empty
          ELSE there[k] = With(Decode(object), set, del)[k]
      BY PatchedDecodes DEF StoreInv
    <3>3. len(Empty) = 0 /\ len(None) = 0
      BY StoreAssumption DEF Stored
    <3>4. CASE k \in del \/ set[k] # None
      <4>1. here[k] = With(Decode(object), set, del)[k]
        BY <3>4 DEF With
      <4> QED
        BY <4>1, <3>2, <3>3
    <3>5. CASE k \notin del /\ set[k] = None
      <4>1. /\ here[k] = cached[m][k]
            /\ With(Decode(object), set, del)[k] = Decode(object)[k]
        BY <3>5, StoreAssumption DEF With
      <4> QED
        BY <4>1, <3>1, <3>2, <3>5, StoreAssumption
    <3> QED
      BY <3>4, <3>5
  <2>2. Lengths(here) = Lengths(there)
    <3> HIDE DEF here, there
    <3> QED
      BY <2>1 DEF Lengths
  <2> QED
    BY <2>2 DEF CheckSize, Fits, Size
<1> QED
  BY StoreInit, StoreStep, <1>1, PTL DEF Spec
=============================================================================
