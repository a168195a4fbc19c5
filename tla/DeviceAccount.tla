---------------------------- MODULE DeviceAccount ----------------------------
(***************************************************************************)
(* The decision of createIssuerState.reserve in token-issuer/state-store.js *)
(* as operators on one device's account: when a reservation is refused,    *)
(* what an accepted one makes of the account, and which stored accounts    *)
(* are readable.  The account is the value of the device's row without its *)
(* commit ID.  Epochs are 0 .. MaxEpoch; a count that the row does not     *)
(* hold is 0, as `record?.quota?.[epoch] || 0` reads it.                   *)
(***************************************************************************)
EXTENDS Integers

CONSTANTS
    Devices,        \* canonical App Attest key IDs
    PublicKeys,     \* public keys (PEM)
    NoKey,          \* the public key of an account that does not exist
    MaxEpoch,       \* bound on the epochs of the model
    Quota           \* ISSUANCE_QUOTA_PER_EPOCH; 0 disables the quota

ASSUME NoKeyAssumption == NoKey \notin PublicKeys
ASSUME MaxEpochAssumption == MaxEpoch \in Nat
ASSUME QuotaAssumption == Quota \in Nat

Epochs == 0 .. MaxEpoch

Account == [publicKeyPem : PublicKeys \cup {NoKey}, signCount : Nat,
            latestEpoch : Epochs, quota : [Epochs -> Nat]]

NoAccount == [publicKeyPem |-> NoKey, signCount |-> 0,
              latestEpoch |-> 0, quota |-> [e \in Epochs |-> 0]]

Exists(acc) == acc.publicKeyPem # NoKey

\* The arguments of reserve.  An attestation presents counter 0
\* (verifyAttestationAuthData), an assertion a positive one.
Argument == [device : Devices, mode : {"attestation", "assertion"},
             publicKeyPem : PublicKeys, signCount : Nat,
             epoch : Epochs, count : Nat \ {0}]

Larger(a, b) == IF a >= b THEN a ELSE b

\* Mutant: the epoch of the replica that writes last.
MutantLatestEpoch(acc, a) == a.epoch

\* The greatest epoch any replica has reserved for, this request included.
LatestEpoch(acc, a) == Larger(a.epoch, acc.latestEpoch)

\* Mutant: a counter may be presented again.
MutantReplayed(acc, a) == a.signCount < acc.signCount

\* The counter of an assertion does not exceed all counters before it.
Replayed(acc, a) == a.signCount <= acc.signCount

\* The checks of reserve in the order of the code; "none" accepts.
Refusal(acc, a) ==
    IF a.mode = "assertion" /\ ~Exists(acc)
      THEN "unknown_device_key"
    ELSE IF Exists(acc) /\ acc.publicKeyPem # a.publicKeyPem
      THEN "key_mismatch"
    ELSE IF a.mode = "assertion" /\ Replayed(acc, a)
      THEN "replayed_assertion"
    ELSE IF a.epoch < LatestEpoch(acc, a) - 1
      THEN "expired_epoch"
    ELSE IF Quota > 0 /\ acc.quota[a.epoch] + a.count > Quota
      THEN "quota_exceeded"
    ELSE "none"

Refusals == {"unknown_device_key", "key_mismatch", "replayed_assertion",
             "expired_epoch", "quota_exceeded"}

Accepted(acc, a) == Refusal(acc, a) = "none"

\* Counts are kept for the latest epoch and the one before it.
KeptEpochs(latest) == {e \in Epochs : e \in {latest, latest - 1}}

\* Mutant: counts of past epochs are carried along.
MutantNextCounts(acc, a) == [acc.quota EXCEPT ![a.epoch] = @ + a.count]

NextCounts(acc, a) ==
    [e \in Epochs |->
        IF e = a.epoch THEN acc.quota[e] + a.count
        ELSE IF e \in KeptEpochs(LatestEpoch(acc, a)) THEN acc.quota[e]
        ELSE 0]

\* Never the counter of a re-attestation alone, which may be lower.
NextSignCount(acc, a) == Larger(a.signCount, acc.signCount)

\* The account an accepted reservation writes.
Charge(acc, a) ==
    [publicKeyPem |-> a.publicKeyPem,
     signCount    |-> NextSignCount(acc, a),
     latestEpoch  |-> LatestEpoch(acc, a),
     quota        |-> NextCounts(acc, a)]

\* What `checked` demands of a stored account: no count outside the latest
\* epoch and the one before it.  Anything else fails closed (503).
Readable(acc) ==
    \A e \in Epochs : acc.quota[e] > 0 => e \in KeptEpochs(acc.latestEpoch)
=============================================================================
