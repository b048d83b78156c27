----------------------------- MODULE MCDataPath -----------------------------
(* Small instances of DataPath for TLC. *)
EXTENDS PathInv, TLC

CONSTANTS v1, v2, h1, h2, t1, t2

(* Two mounts with a handle and a thread each, *)
TwoMounts == h1 :> v1 @@ h2 :> v2
TwoHandles == t1 :> h1 @@ t2 :> h2
(* one mount with one handle and one thread, *)
OneMount == h1 :> v1
OneThread == t1 :> h1
(* or one handle that two threads share. *)
SharedHandle == t1 :> h1 @@ t2 :> h1

(* Two mounts and all that belongs to them may be exchanged. *)
Exchange ==
    {v1 :> v1 @@ h1 :> h1 @@ t1 :> t1 @@ v2 :> v2 @@ h2 :> h2 @@ t2 :> t2,
     v1 :> v2 @@ h1 :> h2 @@ t1 :> t2 @@ v2 :> v1 @@ h2 :> h1 @@ t2 :> t1}
=============================================================================
