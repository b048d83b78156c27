---------------------------- MODULE ObjectStore ----------------------------
(***************************************************************************)
(* The two Stores (store_secret.go, store_configmap.go): how a commit's    *)
(* set and del become a JSON merge patch, what the API server makes of it, *)
(* how the object is decoded back, and the Snapshot.With that Commit       *)
(* checks the size of and installs in the cache as its own account of the  *)
(* same write.  Several mounts share the object, each with a cache that    *)
(* falls behind when another mount commits.                                *)
(*                                                                         *)
(* A Go map from keys is a function on Key that is None where the map has  *)
(* no entry.  A value is text (valid UTF-8), binary, or Nil, the nil slice *)
(* that a caller can pass in set; a stored value is never Nil.             *)
(***************************************************************************)
EXTENDS Functions

CONSTANTS
    Mount,           \* mounts of the object, in any pods
    Key,
    Text,        \* stored values that are valid UTF-8
    Binary,      \* stored values that are not
    Empty,       \* the value of length zero; valid UTF-8
    Nil,         \* a nil []byte
    None,        \* no entry in a map
    Keep,        \* a key the patch does not mention
    Null,        \* a key the patch sets to null
    KeysVanish,      \* may a key be deleted between lookup and SETATTR?
    LenOf,           \* the length of a stored value
    MaxObjectBytes   \* the ceiling on the bytes of all values

Stored == Text \cup Binary

ASSUME StoreAssumption ==
    /\ Empty \in Text
    /\ Text \cap Binary = {}
    /\ {Nil, None, Keep, Null} \cap Stored = {}
    /\ Nil # None /\ Nil # Keep /\ Nil # Null
    /\ None # Keep /\ None # Null /\ Keep # Null
    /\ KeysVanish \in BOOLEAN
    /\ LenOf \in [Stored -> Nat]
    /\ LenOf[Empty] = 0
    /\ MaxObjectBytes \in Nat

Map == [Key -> Stored \cup {None}]

(* What a Commit is asked to set: stored values, or the nil slice. *)
Sets == [Key -> Stored \cup {Nil, None}]

(* data is a map to JSON strings; binaryData may hold text as well. *)
ConfigMap == [data : [Key -> Text \cup {None}], binaryData : Map]

VARIABLES
    kind,     \* Cfg.ObjectKind: which Store the volume uses
    object,   \* the Secret's data, or the ConfigMap, at the API server
    cached    \* the Data of each mount's current Snapshot

vars == <<kind, object, cached>>

----------------------------------------------------------------------------
(* Snapshot.With; a nil slice reads back as the empty value. *)
With(data, set, del) ==
    [k \in Key |-> IF k \in del THEN None
                   ELSE IF set[k] = Nil THEN Empty
                   ELSE IF set[k] # None THEN set[k]
                   ELSE data[k]]

(* The API server's JSON merge patch of one map. *)
Merge(data, patch) ==
    [k \in Key |-> IF patch[k] = Keep THEN data[k]
                   ELSE IF patch[k] = Null THEN None
                   ELSE patch[k]]

(* A fault: a key to delete is left out of the patch. *)
SecretPatchKeeps(set, del) ==
    [k \in Key |-> IF set[k] \in {None, Nil} THEN Keep ELSE set[k]]

(* SecretStore.Patch: json.Marshal writes a nil slice as null. *)
SecretPatch(set, del) ==
    [k \in Key |-> IF k \in del \/ set[k] = Nil THEN Null
                   ELSE IF set[k] = None THEN Keep
                   ELSE set[k]]

(* SecretStore.Decode *)
DecodeSecret(data) == data

(* A fault: everything is written as text. *)
ValidAlways(v) == TRUE

(* utf8.Valid *)
Valid(v) == v \in Text \/ v = Nil

(* ConfigMapStore.Patch: every write nulls the half it does not use, and    *)
(* string(nil) is the empty text.                                           *)
TextPatch(set, del) ==
    [k \in Key |-> IF k \in del THEN Null
                   ELSE IF set[k] = None THEN Keep
                   ELSE IF set[k] = Nil THEN Empty
                   ELSE IF Valid(set[k]) THEN set[k]
                   ELSE Null]

(* A fault: a text write leaves the binary half alone. *)
BinaryPatchKeeps(set, del) ==
    [k \in Key |-> IF k \in del THEN Null
                   ELSE IF set[k] = None \/ Valid(set[k]) THEN Keep
                   ELSE set[k]]

BinaryPatch(set, del) ==
    [k \in Key |-> IF k \in del THEN Null
                   ELSE IF set[k] = None THEN Keep
                   ELSE IF Valid(set[k]) THEN Null
                   ELSE set[k]]

MergeConfigMap(obj, set, del) ==
    [data |-> Merge(obj.data, TextPatch(set, del)),
     binaryData |-> Merge(obj.binaryData, BinaryPatch(set, del))]

(* ConfigMapStore.Decode: data first, then binaryData over it. *)
DecodeConfigMap(obj) ==
    [k \in Key |-> IF obj.binaryData[k] # None THEN obj.binaryData[k]
                   ELSE obj.data[k]]

(* The Store of the volume's kind: Decode, and Patch as the server merges it. *)
Decode(o) == IF kind = "Secret" THEN DecodeSecret(o) ELSE DecodeConfigMap(o)

Patched(o, set, del) ==
    IF kind = "Secret" THEN Merge(o, SecretPatch(set, del))
                       ELSE MergeConfigMap(o, set, del)

(* Snapshot.Size: the bytes of all values. *)
Lengths(data) == [k \in Key |-> IF data[k] = None THEN 0 ELSE LenOf[data[k]]]

Size(data) == SumFunction(Lengths(data))

(* What the API server accepts: no key in both halves of a ConfigMap, and   *)
(* no more value bytes than its own limit, which is the same.               *)
KeysDisjoint(o) ==
    \A k \in Key : o.data[k] = None \/ o.binaryData[k] = None

Fits(o) == Size(Decode(o)) <= MaxObjectBytes

----------------------------------------------------------------------------
(* A fault: the size is checked before the write, not after it. *)
CheckSizeBefore(m, set, del) == Size(cached[m]) <= MaxObjectBytes

(* checkSize: the write, projected on the mount's own Snapshot.  (A mount   *)
(* has a Snapshot from the quorum read that publishing it makes.)           *)
CheckSize(m, set, del) == Size(With(cached[m], set, del)) <= MaxObjectBytes

(* The patch is applied and the cache's next Snapshot derived from its      *)
(* current one; a patch the server refuses changes nothing.                 *)
Apply(m, set, del) ==
    /\ Fits(Patched(object, set, del))
    /\ object' = Patched(object, set, del)
    /\ cached' = [cached EXCEPT ![m] = With(cached[m], set, del)]
    /\ kind' = kind

(* A fault: the whole projected Snapshot is sent, not the keys written. *)
CommitSnapshot(m, set, del) ==
    CheckSize(m, set, del) /\ Apply(m, With(cached[m], set, del), del)

(* Committer.Commit; the fence is DataPath's. *)
Commit(m, set, del) == CheckSize(m, set, del) /\ Apply(m, set, del)

NoKeys == [k \in Key |-> None]

Only(k, v) == [NoKeys EXCEPT ![k] = v]

(* handle.commit: value is a fresh slice, never nil. *)
CommitHandle(m, k) == \E v \in Stored : Commit(m, Only(k, v), {})

Unlink(m, k) == Commit(m, NoKeys, {k})

(* Rename copies the value it finds and deletes the old key in one patch.   *)
(* The kernel answers a rename onto itself.                                 *)
Rename(m, k, new) ==
    /\ k # new
    /\ cached[m][k] # None
    /\ Commit(m, Only(new, cached[m][k]), {k})

(* truncateCommitted of a key that is gone, to length zero: nil is resized  *)
(* to nil.                                                                  *)
TruncateVanished(m, k) ==
    KeysVanish /\ cached[m][k] = None /\ Commit(m, Only(k, Nil), {})

(* truncateCommitted: resizing may give any value, and may cut UTF-8 short. *)
(* A key that is gone grows to zeros, unless it is not to grow at all.      *)
TruncateCommitted(m, k) ==
    \/ /\ cached[m][k] # None
       /\ \E v \in Stored : Commit(m, Only(k, v), {})
    \/ /\ KeysVanish
       /\ cached[m][k] = None
       /\ \E v \in Text \ {Empty} : Commit(m, Only(k, v), {})
    \/ TruncateVanished(m, k)

(* A quorum read or a watch event; DataPath has the order they arrive in. *)
Refresh(m) ==
    /\ cached' = [cached EXCEPT ![m] = Decode(object)]
    /\ UNCHANGED <<kind, object>>

(* The operations that name the key k. *)
Names(m, k) ==
    \/ CommitHandle(m, k) \/ Unlink(m, k) \/ TruncateCommitted(m, k)
    \/ \E j \in Key : Rename(m, k, j) \/ Rename(m, j, k)

(* What mount m does. *)
Step(m) ==
    \/ \E k \in Key : CommitHandle(m, k) \/ Unlink(m, k) \/ TruncateCommitted(m, k)
    \/ \E k, new \in Key : Rename(m, k, new)
    \/ Refresh(m)

Init ==
    /\ kind \in {"Secret", "ConfigMap"}
    /\ IF kind = "Secret" THEN object \in Map
                          ELSE object \in ConfigMap /\ KeysDisjoint(object)
    /\ Fits(object)
    /\ cached = [m \in Mount |-> Decode(object)]

Next == \E m \in Mount : Step(m)

Spec == Init /\ [][Next]_vars

----------------------------------------------------------------------------
(* Type invariant: in particular no binary value ends up in the text half,  *)
(* where JSON would mangle it.                                              *)
TypeOK ==
    /\ kind \in {"Secret", "ConfigMap"}
    /\ object \in IF kind = "Secret" THEN Map ELSE ConfigMap
    /\ cached \in [Mount -> Map]

(* The ConfigMap stays one the API server accepts: no sequence of writes,   *)
(* deletes, renames and truncates of any mounts puts a key in data and      *)
(* binaryData at once, whichever half held the key before.                  *)
ConfigMapAccepted == kind = "ConfigMap" => KeysDisjoint(object)

(* A mount is right about a key: its Snapshot has what the object decodes   *)
(* to.                                                                      *)
Exact(m, k) == Decode(object)[k] = cached[m][k]

(* The Snapshot keeps as empty what SecretStore.Patch has deleted: it sends *)
(* the nil slice of a truncate whose key had vanished as null.              *)
Vanishes(m, k) == kind = "Secret" /\ TruncateVanished(m, k)

(* Read-your-own-writes: the Snapshot that Commit derives without asking    *)
(* the server is right about every key the commit wrote, renamed or         *)
(* deleted, and about every other key it was right about before, however    *)
(* stale the rest of it is.  Only a truncate of a vanished key is excepted. *)
OwnWritesAgree ==
    [][\A m \in Mount, k \in Key :
         Step(m) /\ (Exact(m, k) \/ Names(m, k))
           => Exact(m, k)' \/ Vanishes(m, k)]_vars

(* The same without the exception, which needs keys that do not vanish. *)
OwnWritesExact ==
    [][\A m \in Mount, k \in Key :
         Step(m) /\ (Exact(m, k) \/ Names(m, k)) => Exact(m, k)']_vars

(* A commit changes no key that it was not asked to write, rename or        *)
(* delete, from a stale cache either: mounts that write different keys of   *)
(* one object never undo each other's writes.                               *)
OthersKept ==
    [][\A k \in Key :
         (Decode(object)[k])' # Decode(object)[k]
           => \E m \in Mount : Names(m, k)]_vars

(* checkSize and the API server draw the same line: a mount that has the    *)
(* sizes right refuses (ENOSPC) exactly the commits that the server would   *)
(* have refused, whatever they set and delete, and none that fit.           *)
SizeAgrees ==
    \A m \in Mount :
      Lengths(cached[m]) = Lengths(Decode(object)) =>
        \A set \in Sets, del \in SUBSET Key :
          CheckSize(m, set, del) <=> Fits(Patched(object, set, del))
=============================================================================
