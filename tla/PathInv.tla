------------------------------ MODULE PathInv ------------------------------
(***************************************************************************)
(* The inductive invariants behind DataPath's safety properties, and the   *)
(* conditions each needs.  The runs whose names follow a condition show    *)
(* what happens without it.                                                *)
(***************************************************************************)
EXTENDS DataPath

(* No two threads share an open file description. *)
OneUser ==
    \A t, u \in Thread : HandleOf[t] = HandleOf[u] => t = u

----------------------------------------------------------------------------
(* Nothing leaks *)

(* The steps of setlk at which the call itself owns the manager. *)
Locking(t) == tpc[t] \in {"fget", "fgot", "pin"}

(* The steps of the Committer. *)
Committing(t) == tpc[t] \in {"fence", "patch", "patched", "clean"}

(* A call that has not reached commit has no name there; one that has knows *)
(* which call it is, and close(2) keeps its descriptor until it returns.    *)
Named(t) ==
    /\ tpc[t] \in {"idle", "oget", "ogot", "acquire", "fget", "fgot", "pin"}
         => op[t] = None
    /\ Committing(t) => op[t] \notin {None, "setlk"}
    /\ tpc[t] = "drop" => op[t] \in {"unlock", "last"}
    /\ tpc[t] = "release" => op[t] \in {"unlock", "last", "setlk"}
    /\ op[t] = "close" => fd[t]

(* A handle's lease is one its own user took.  Without a descriptor the     *)
(* handle keeps it only until Release's DropLease; setlk works on a handle  *)
(* that has none.                                                           *)
Dropped(t) ==
    /\ lease[HandleOf[t]] \in {None, t}
    /\ ~fd[t] /\ lease[HandleOf[t]] # None
         => op[t] = "last" /\ (Committing(t) \/ tpc[t] = "drop")
    /\ tpc[t] \in {"release", "return"} /\ op[t] = "last"
         => lease[HandleOf[t]] = None
    /\ tpc[t] = "acquire" \/ Locking(t) => fd[t] /\ lease[HandleOf[t]] = None

(* NoLeakedLease of one thread's manager. *)
Renewed(t) == running[t] => lease[HandleOf[t]] = t \/ Locking(t)

LeakInv ==
    TypeOK /\ \A t \in Thread : Named(t) /\ Dropped(t) /\ Renewed(t)

----------------------------------------------------------------------------
(* Nothing is lost in silence *)

(* The handle is open, or its Release is running. *)
Kept(t) == fd[t] \/ op[t] = "last"

(* What was written to an open handle and not patched yet is its dirty      *)
(* buffer, and a commit under way is writing it.                            *)
Pending(t) ==
    LET h == HandleOf[t] IN
    /\ Kept(t) /\ unsaved[h] # None => dirty[h] /\ unsaved[h] = buf[h]
    /\ Committing(t) /\ ~Direct(t) => Kept(t)
    /\ tpc[t] \in {"fence", "patch"} /\ ~Direct(t)
         => unsaved[h] \in {None, tval[t]}
    /\ tpc[t] \in {"patched", "clean"} /\ ~Direct(t) => unsaved[h] = None

(* A close that returned 0 wrote everything, and until it returned nothing  *)
(* can have been written again.                                             *)
Clean(t) ==
    LET h == HandleOf[t] IN
    /\ flushed[h] => unsaved[h] = None
    /\ fd[t] /\ op[t] # "close" => ~flushed[h]

LossInv == LeakInv /\ \A t \in Thread : Pending(t) /\ Clean(t)

----------------------------------------------------------------------------
(* The flock *)

(* Applications that take the lock before they write, on their own open     *)
(* file descriptions, through a server that neither refuses a Patch nor     *)
(* lets a renewed Lease expire.  A created file is dirty before it is       *)
(* locked; O_TRUNC, unlink, rename and truncate(2), and writers that are    *)
(* not mounts, write outside the lock or behind the handle's back.          *)
Cooperative ==
    /\ OneUser
    /\ Disciplined /\ ~PatchMayFail /\ ~LeaseMayFail
    /\ Uses \subseteq {"create"}

(* A manager that runs is healthy, on the Lease, and the call's or the      *)
(* handle's, until it is released.                                          *)
Owned(t) ==
    LET h == HandleOf[t] IN
    /\ healthy[t] = running[t]
    /\ running[t] => owner = t
    /\ lease[h] # None \/ Locking(t) => running[t]
    /\ tpc[t] = "release" => tlease[t] = t /\ ~running[t]

(* A dirty buffer is committed under the handle's lease, as it stands, and  *)
(* before the lease is dropped or the descriptor is gone; without a lease   *)
(* only a file just created is dirty.                                       *)
Fenced(t) ==
    LET h == HandleOf[t] IN
    /\ dirty[h] /\ lease[h] = None => base[h] = None
    /\ Committing(t) => /\ ~Direct(t) /\ op[t] # "last" /\ fd[t]
                        /\ lease[h] = t /\ tlease[t] = t
                        /\ dirty[h] /\ tval[t] = buf[h]
    /\ tpc[t] = "drop" \/ (tpc[t] = "return" /\ op[t] = "close") => ~dirty[h]

(* What the lock's read returned, what a clean locked handle holds, and     *)
(* what a commit has just written, is the key's value.                      *)
Current(t) ==
    LET h == HandleOf[t] IN
    /\ tpc[t] \in {"fgot", "pin"} => tsnap[t].val = Latest
    /\ tpc[t] \in {"patched", "clean"} => tval[t] = Latest
    /\ lease[h] # None /\ ~dirty[h] => buf[h] = Latest

LockedInv ==
    LeakInv /\ \A t \in Thread : Owned(t) /\ Fenced(t) /\ Current(t)

----------------------------------------------------------------------------
(* Nothing is overwritten unread *)

(* The files are there: nobody creates one. *)
Existing == Cooperative /\ Uses = {}

(* Only a locked handle is dirty, and its user has seen the key's value. *)
Seen(t) ==
    LET h == HandleOf[t] IN
    /\ dirty[h] => lease[h] # None
    /\ lease[h] # None => base[h] = Latest

SeenInv == LockedInv /\ \A t \in Thread : Seen(t)
=============================================================================
