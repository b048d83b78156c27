---------------------------- MODULE MCNodePlugin ----------------------------
(* Small instances of NodePlugin for TLC. *)
EXTENDS PluginInv, TLC

CONSTANTS a, b, c1, c2, c3, other

(* Attributes as a pod should have them: names of three characters, and     *)
(* every number left to its default.                                        *)
Plain ==
    [ephemeral |-> TRUE, identity |-> {"namespace", "serviceAccount", "uid"},
     kind |-> "Secret", object |-> [len |-> 3, legal |-> TRUE],
     lease |-> None, numbers |-> {None}, staleness |-> None, seconds |-> None]

JustPlain == {Plain}

(* With lengths and durations at their limits, *)
AtTheLimits ==
    {Plain,
     [Plain EXCEPT !.object.len = MaxName - Prefix, !.kind = "ConfigMap"],
     [Plain EXCEPT !.object.len = MaxName, !.lease = [len |-> MaxName, legal |-> TRUE]],
     [Plain EXCEPT !.seconds = 1, !.numbers = {0, 2 * MaxInt32 + 1}],
     [Plain EXCEPT !.seconds = MaxInt32, !.staleness = MaxInt64]}

(* beyond the two that ParseConfig does not check: names without room for   *)
(* the prefix, and seconds that wrap in the Lease's field, or already as    *)
(* nanoseconds, to a negative number or a small one,                        *)
BeyondTheLimits ==
    {[Plain EXCEPT !.object.len = MaxName - Prefix + 1],
     [Plain EXCEPT !.object.len = MaxName]}
    \cup {[Plain EXCEPT !.seconds = n] :
            n \in {MaxInt32 + 1, 2 * (MaxInt32 + 1), 4 * (MaxInt32 + 1) + 1, MaxInt64}}

(* and what publish refuses, one attribute at a time. *)
Refused ==
    {[Plain EXCEPT !.ephemeral = FALSE],
     [Plain EXCEPT !.identity = {"namespace", "uid"}],
     [Plain EXCEPT !.kind = "Pod"],
     [Plain EXCEPT !.object.len = 0],
     [Plain EXCEPT !.object.legal = FALSE],
     [Plain EXCEPT !.object.len = MaxName + 1],
     [Plain EXCEPT !.lease = [len |-> 3, legal |-> FALSE]],
     [Plain EXCEPT !.lease = [len |-> MaxName + 1, legal |-> TRUE]],
     [Plain EXCEPT !.numbers = {None, Garbage}],
     [Plain EXCEPT !.numbers = {2 * MaxInt32 + 2}],
     [Plain EXCEPT !.staleness = Garbage],
     [Plain EXCEPT !.seconds = 0],
     [Plain EXCEPT !.seconds = -1],
     [Plain EXCEPT !.seconds = MaxInt64 + 1]}

Mixed == AtTheLimits \cup BeyondTheLimits \cup Refused

(* Names that leave no room for the prefix of the default leaseName. *)
LongNames == {[Plain EXCEPT !.object.len = n] : n \in 1..MaxName}

(* Every number of seconds that parses. *)
LongLeases == {[Plain EXCEPT !.seconds = n] : n \in 1..MaxInt64}

(* A token for the default audience, with another or without, for another   *)
(* one alone, and payloads without a usable one.                            *)
AllPayloads ==
    {DefaultAudience :> TRUE, DefaultAudience :> TRUE @@ other :> FALSE,
     other :> TRUE, DefaultAudience :> FALSE @@ other :> TRUE, <<>>}

GoodPayload == {DefaultAudience :> TRUE}
=============================================================================
