------------------------------- MODULE Request -------------------------------
(***************************************************************************)
(* What a publish request carries and how the plugin reads it: the pod's   *)
(* token (podtoken.Extract), its identity (podtoken.PodIdentity), and the  *)
(* volume attributes (objectfs.ParseConfig), down to the two numbers that  *)
(* a LeaseManager makes of leaseDurationSeconds.                           *)
(*                                                                         *)
(* An object name is a length and whether its characters are allowed.  A   *)
(* numeric attribute is None when it is not set, Garbage when it is not a  *)
(* number.  The ends of Go's integer types and the nanoseconds of a second *)
(* are constants, so that TLC can check small ones.                        *)
(***************************************************************************)
EXTENDS Integers, FiniteSets

CONSTANTS
    MaxName,        \* longest object name the API server takes, 253
    Prefix,         \* length of "roommate-"
    Second,         \* time.Second
    MaxInt64,       \* the largest int and time.Duration, 2^63 - 1
    MaxInt32,       \* the largest LeaseDurationSeconds, 2^31 - 1
    DefaultLeaseDuration,
    DefaultAudience,
    Garbage,
    None

ASSUME RequestAssumption ==
    /\ {MaxName, Prefix, Second, MaxInt64, MaxInt32} \subseteq Nat \ {0}
    /\ MaxInt32 * Second <= MaxInt64
    /\ \E n \in 1..MaxInt32 : DefaultLeaseDuration = n * Second

(* A signed integer of the type that ends at max, as Go's arithmetic leaves *)
(* it.                                                                      *)
Wrap(n, max) == ((n + max + 1) % (2 * (max + 1))) - (max + 1)

(* validation.IsDNS1123Subdomain *)
IsDNS1123Subdomain(name) == name.legal /\ name.len \in 1..MaxName

(* parseMode and parseUint32; unset is the default. *)
ParsesUint32(raw) == raw # Garbage /\ (raw # None => raw \in 0..2 * MaxInt32 + 1)

(* parseSeconds accepts what Atoi reads as a positive int, ... *)
ParsesSeconds(raw) ==
    raw # Garbage /\ (raw # None => raw \in 1..MaxInt64)

(* ... and multiplies. *)
Seconds(raw, default) ==
    IF raw = None THEN default ELSE Wrap(raw * Second, MaxInt64)

LeaseName(attr) ==
    IF attr.lease # None THEN attr.lease
    ELSE [len |-> Prefix + attr.object.len, legal |-> attr.object.legal]

(* A fault: a leaseName that is set is taken as it is. *)
ValidNamesTrusting(attr) == IsDNS1123Subdomain(attr.object)

(* The derived leaseName is not checked: it is taken to be valid if the     *)
(* object's name is.                                                        *)
ValidNames(attr) ==
    /\ IsDNS1123Subdomain(attr.object)
    /\ attr.lease # None => IsDNS1123Subdomain(attr.lease)

ParsesConfig(attr) ==
    /\ attr.kind \in {"Secret", "ConfigMap"}
    /\ ValidNames(attr)
    /\ \A raw \in attr.numbers : ParsesUint32(raw)
    /\ ParsesSeconds(attr.staleness) /\ ParsesSeconds(attr.seconds)

(* PodIdentity: the fields of podInfoOnMount are all there. *)
PodIdentity(attr) == attr.identity = {"namespace", "serviceAccount", "uid"}

(* publish's checks of the request, up to the token, of an inline volume. *)
Acceptable(attr) == attr.ephemeral /\ PodIdentity(attr) /\ ParsesConfig(attr)

(* Extract, of a payload that says for each audience whether its entry has  *)
(* a token, when the kubelet's latest is tok: the default audience, or the  *)
(* only one.                                                                *)
Extract(payload, tok) ==
    LET default == DefaultAudience \in DOMAIN payload /\ payload[DefaultAudience]
        sole == /\ Cardinality(DOMAIN payload) = 1
                /\ \A a \in DOMAIN payload : payload[a]
    IN IF default \/ sole THEN tok ELSE None

----------------------------------------------------------------------------
(* What becomes of leaseDurationSeconds *)

(* NewLeaseManager: the duration its renewal loop takes a third of ... *)
HeldFor(attr) ==
    LET d == Seconds(attr.seconds, DefaultLeaseDuration)
    IN IF d <= 0 THEN DefaultLeaseDuration ELSE d

(* ... and what create and takeOver write into the Lease for others. *)
LeaseDurationSeconds(attr) == Wrap(HeldFor(attr) \div Second, MaxInt32)

(* What the pod asked for. *)
AskedFor(attr) ==
    IF attr.seconds = None THEN DefaultLeaseDuration \div Second ELSE attr.seconds

(* The lock of a volume with these attributes works: the API server accepts *)
(* the Lease's name and duration, whoever waits for the Lease allows its    *)
(* holder as long as the holder takes itself to have, and that is what the  *)
(* pod asked for.                                                           *)
Lockable(attr) ==
    /\ IsDNS1123Subdomain(LeaseName(attr))
    /\ LeaseDurationSeconds(attr) > 0
    /\ LeaseDurationSeconds(attr) * Second = HeldFor(attr)
    /\ LeaseDurationSeconds(attr) = AskedFor(attr)

(* The attributes leave room for the prefix of the default leaseName, and   *)
(* their leaseDurationSeconds fits the Lease's field.                       *)
WithinLimits(attr) ==
    /\ attr.lease = None => attr.object.len + Prefix <= MaxName
    /\ attr.seconds # None => attr.seconds <= MaxInt32
=============================================================================
