---------------------------- MODULE ExpiringLock ----------------------------
(***************************************************************************)
(* What the Lease promises its users, without API calls, clocks on nodes   *)
(* or observations: one owner at a time, and an owner can be deprived of   *)
(* the lock only after a full term in which nobody wrote the lock.         *)
(***************************************************************************)
EXTENDS Integers

CONSTANTS Id, Term, Nobody

VARIABLES clock, owner, since, term

lvars == <<clock, owner, since, term>>

LInit ==
    /\ clock = 0
    /\ owner = Nobody
    /\ since = 0
    /\ term = Nobody

(* A free lock, one's own lock, or one that was silent for a term. *)
Take(i) ==
    /\ \/ owner = Nobody
       \/ owner = i
       \/ clock - since > term
    /\ owner' = i
    /\ since' = clock
    /\ term' \in Term
    /\ UNCHANGED clock

Extend(i) ==
    /\ owner = i
    /\ since' = clock
    /\ UNCHANGED <<clock, owner, term>>

GiveUp(i) ==
    /\ owner = i
    /\ owner' = Nobody
    /\ since' = clock
    /\ UNCHANGED <<clock, term>>

Pass ==
    /\ clock' = clock + 1
    /\ UNCHANGED <<owner, since, term>>

LNext ==
    \/ \E i \in Id : Take(i) \/ Extend(i) \/ GiveUp(i)
    \/ Pass

LSpec == LInit /\ [][LNext]_lvars
=============================================================================
