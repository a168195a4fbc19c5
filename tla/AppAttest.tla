------------------------------ MODULE AppAttest ------------------------------
(***************************************************************************)
(* validateAppAttest of token-issuer/appattest.js between the request and  *)
(* the reservation (server.js 294-330): what is checked of an attestation  *)
(* and of an assertion, in the order of the code, and what becomes of it   *)
(* when several requests of one device are under way.  An assertion is     *)
(* verified against a copy of the device's account that may be old when    *)
(* the ledger decides.                                                     *)
(*                                                                         *)
(* A key ID is the SHA-256 of a public key and is identified with it.  A   *)
(* nonce, a signature and a certificate are values with the parts they     *)
(* bind; which of them exist is assumed of Apple and its hardware, and a   *)
(* request may combine them in any way.                                    *)
(***************************************************************************)
EXTENDS DeviceAccount, Sequences

CONSTANTS
    Requests,       \* POST /issue requests
    Workloads,      \* what the requests carry
    Hashes,         \* clientDataHash values of 32 bytes
    None,           \* an absent attestation, assertion or nonce
    Certs,          \* X.509 certificates
    Signatures,     \* signatures by keys of Devices
    Root,           \* the pinned certificate
    AppleKeys,      \* keys of Apple's certificate authority
    Hardware,       \* keys made by App Attest hardware
    Home,           \* the application and environment such a key belongs to
    ThisApp,        \* the configured team and bundle ID
    Environment,    \* APPLE_APP_ATTEST_AAGUID
    Now, Skew,      \* the time and CERT_CLOCK_SKEW_MS
    Enrolled        \* devices that attested in the past

\* What the issuer may rely on.  Apple certifies its own authorities and the
\* keys of its hardware, with a nonce over what that hardware said; the hardware
\* says the truth about the application it runs and signs no certificates.
ASSUME KeyIdAssumption == PublicKeys = Devices
ASSUME RootAssumption == Root \in Certs /\ Root.key \in AppleKeys
ASSUME AppleAssumption ==
    /\ Hardware \subseteq Devices /\ AppleKeys \cap Devices = {}
    /\ \A c \in Certs :
          /\ c.signer \notin Hardware
          /\ c.signer \in AppleKeys =>
                \/ c.key \in AppleKeys /\ c.nonce = None
                \/ /\ c.key \in Hardware /\ c.nonce # None
                   /\ c.nonce.authData.rp = Home[c.key].rp
                   /\ c.nonce.authData.aaguid = Home[c.key].aaguid
ASSUME HomeAssumption ==
    \A d \in Hardware : Home[d] = [rp |-> Home[d].rp, aaguid |-> Home[d].aaguid]
ASSUME NoneAssumption == None \notin Signatures
ASSUME EnrolledAssumption ==
    \A d \in Enrolled : d \in Hardware /\ Home[d] = [rp |-> ThisApp, aaguid |-> Environment]

VARIABLES
    ready,          \* APP_ATTEST_READY
    input,          \* what a request carries
    stage,          \* where its handler stands
    record,         \* the account getAttestedKey gave it
    reason,         \* why it was refused: attestationFailureCategory
    accounts, charged, answer   \* the ledger

ledger == <<accounts, charged, answer>>
vars == <<ready, input, stage, record, reason, ledger>>

ByAttestation(q) == q.attestation # None

\* A request is JSON of the expected shape: a key ID, a batch that is not
\* empty, and proofs made of certificates and signatures that exist.
ASSUME WorkloadAssumption ==
    \A w \in Workloads : \A r \in Requests :
        /\ w[r].epoch \in Epochs /\ w[r].count \in Nat \ {0}
        /\ w[r].attestation # None =>
              /\ w[r].attestation.x5c \in Seq(Certs) /\ w[r].attestation.x5c # <<>>
              /\ w[r].attestation.authData.signCount \in Nat
        /\ w[r].assertion # None =>
              /\ w[r].assertion.signature \in Signatures \cup {None}
              /\ w[r].assertion.authData.signCount \in Nat

\* The candidate a verified proof hands to reserve.
Candidate(q, rec) ==
    [device       |-> q.keyId,
     mode         |-> IF ByAttestation(q) THEN "attestation" ELSE "assertion",
     publicKeyPem |-> IF ByAttestation(q) THEN q.attestation.authData.key
                      ELSE rec.publicKeyPem,
     signCount    |-> IF ByAttestation(q) THEN q.attestation.authData.signCount
                      ELSE IF q.assertion # None THEN q.assertion.authData.signCount
                      ELSE 0,
     epoch        |-> q.epoch,
     count        |-> q.count]

arg == [r \in Requests |-> Candidate(input[r], record[r])]

Ledger == INSTANCE DeviceLedger

-----------------------------------------------------------------------------
(* The checks.  Each throws; attestationFailureCategory names the first    *)
(* that did.                                                               *)

Check(cat, ok) == [category |-> cat, holds |-> ok]

Passes(checks) == \A i \in DOMAIN checks : checks[i].holds

FirstFailure(checks) ==
    checks[CHOOSE i \in DOMAIN checks :
              ~checks[i].holds /\ \A j \in 1 .. i - 1 : checks[j].holds].category

RequestChecks(q) ==
    <<Check("configuration", ready),
      Check("client_data", q.hash \in Hashes),
      Check("proof_format", q.attestation # None \/ q.assertion # None)>>

ValidAt(c) == c.from - Skew <= Now /\ Now <= c.to + Skew

\* verifyCertChain: every certificate is signed by the next one, the last one
\* by the pinned root.
ChainVerifies(x5c) ==
    LET chain == Append(x5c, Root)
    IN  /\ \A i \in 1 .. Len(chain) : ValidAt(chain[i])
        /\ \A i \in 1 .. Len(x5c) : chain[i].signer = chain[i + 1].key
        /\ Root.signer = Root.key

\* Mutant: the nonce of the certificate is not compared.
MutantNonceMatches(a, hash, leaf) == leaf.nonce # None

\* verifyNonce: the certificate was issued for this authenticator data and
\* this request.
NonceMatches(a, hash, leaf) ==
    leaf.nonce # None /\ leaf.nonce = [authData |-> a.authData, hash |-> hash]

\* parseAuthenticatorData: 37 bytes, and the credential when the AT flag says so.
Parses(authData) ==
    authData.size # "short" /\ (authData.at => authData.size = "full")

\* verifyKeyId: one P-256 key in the certificate, in the authenticator data, in
\* its credential ID and in the key ID the client presents, however spelled.
KeyIdMatches(keyId, authData, leaf) ==
    /\ leaf.key \in Devices
    /\ leaf.key = authData.key
    /\ keyId = leaf.key
    /\ authData.credentialId = leaf.key

\* Without the AT flag there is no credential and verifyKeyId fails on the
\* undefined key before verifyAttestationAuthData looks at the flag.
AttestationChecks(q) ==
    LET a == q.attestation
        leaf == a.x5c[1]
    IN  <<Check("proof_format", a.decodes),
          Check("certificate_chain", ChainVerifies(a.x5c)),
          Check("nonce_binding", NonceMatches(a, q.hash, leaf)),
          Check("proof_format", Parses(a.authData)),
          Check("verification", a.authData.at),
          Check("key_binding", KeyIdMatches(q.keyId, a.authData, leaf)),
          Check("app_identity", a.authData.rp = ThisApp),
          Check("environment", a.authData.aaguid = Environment),
          Check("counter", a.authData.signCount = 0)>>

\* Mutant: the signature is checked over the authenticator data alone.
MutantSignatureVerifies(a, hash, key) ==
    a.signature # None /\ a.signature.key = key /\ a.signature.authData = a.authData

\* crypto.verify over SHA-256(authData || clientDataHash) with the stored key.
SignatureVerifies(a, hash, key) ==
    a.signature # None
    /\ a.signature = [key |-> key, authData |-> a.authData, hash |-> hash]

\* verifyAssertion, with the account that getAttestedKey gave.
AssertionChecks(q, rec) ==
    LET a == q.assertion
    IN  <<Check("unknown_device_key", Exists(rec)),
          Check("proof_format", a.decodes),
          Check("assertion_signature", SignatureVerifies(a, q.hash, rec.publicKeyPem)),
          Check("proof_format", a.authData.size # "short"),
          Check("app_identity", a.authData.rp = ThisApp),
          Check("counter", a.authData.signCount > rec.signCount)>>

-----------------------------------------------------------------------------

\* The account of a device that attested once, and no account for the others.
EnrolledAccount(d) ==
    IF d \in Enrolled THEN [NoAccount EXCEPT !.publicKeyPem = d] ELSE NoAccount

Init ==
    /\ ready \in BOOLEAN
    /\ input \in Workloads
    /\ stage = [r \in Requests |-> "new"]
    /\ record = [r \in Requests |-> NoAccount]
    /\ reason = [r \in Requests |-> "none"]
    /\ accounts = [d \in Devices |-> EnrolledAccount(d)]
    /\ charged = {}
    /\ answer = [r \in Requests |-> "none"]

Refuse(r, why) ==
    /\ stage' = [stage EXCEPT ![r] = "refused"]
    /\ reason' = [reason EXCEPT ![r] = why]

\* validateAppAttest of a request with an attestation, which awaits nothing.
ValidateAttestation(r) ==
    /\ stage[r] = "new" /\ ByAttestation(input[r])
    /\ LET before == RequestChecks(input[r])
           checks == AttestationChecks(input[r])
       IN  \/ /\ Passes(before) /\ Passes(checks)
              /\ stage' = [stage EXCEPT ![r] = "reserve"]
              /\ UNCHANGED reason
           \/ /\ ~(Passes(before) /\ Passes(checks))
              /\ Refuse(r, FirstFailure(before \o checks))
    /\ UNCHANGED <<ready, input, record, ledger>>

\* validateAppAttest of any other request, up to the await of getAttestedKey.
AskKey(r) ==
    /\ stage[r] = "new" /\ ~ByAttestation(input[r])
    /\ LET checks == RequestChecks(input[r])
       IN  \/ /\ Passes(checks)
              /\ stage' = [stage EXCEPT ![r] = "reading"]
              /\ UNCHANGED reason
           \/ ~Passes(checks) /\ Refuse(r, FirstFailure(checks))
    /\ UNCHANGED <<ready, input, record, ledger>>

\* Mutant: the key ID is used as the client spells it.
MutantStoreKey(q) == IF q.spelling = "base64" THEN q.keyId ELSE NoKey

\* The row of a key ID: decoded and encoded again, so either spelling finds it.
StoreKey(q) == q.keyId

\* getAttestedKey reads the row.
StoreReads(r) ==
    /\ stage[r] = "reading"
    /\ record' = [record EXCEPT ![r] =
                    IF StoreKey(input[r]) \in Devices THEN accounts[StoreKey(input[r])]
                    ELSE NoAccount]
    /\ stage' = [stage EXCEPT ![r] = "read"]
    /\ UNCHANGED <<ready, input, reason, ledger>>

\* getAttestedKey throws: 503.
StoreFails(r) ==
    /\ stage[r] = "reading"
    /\ Refuse(r, "state_unavailable")
    /\ UNCHANGED <<ready, input, record, ledger>>

\* The rest of validateAppAttest, on what was read.
ValidateAssertion(r) ==
    /\ stage[r] = "read"
    /\ LET checks == AssertionChecks(input[r], record[r])
       IN  \/ /\ Passes(checks)
              /\ stage' = [stage EXCEPT ![r] = "reserve"]
              /\ UNCHANGED reason
           \/ ~Passes(checks) /\ Refuse(r, FirstFailure(checks))
    /\ UNCHANGED <<ready, input, record, ledger>>

\* The ledger charges the call, while it waits or after it was given up.
LedgerCharges(r) ==
    /\ stage[r] = "reserve" \/ answer[r] = "unavailable"
    /\ UNCHANGED <<ready, input, stage, record, reason>>
    /\ Ledger!Reserve(r)

ReserveGrants(r) ==
    /\ stage[r] = "reserve"
    /\ stage' = [stage EXCEPT ![r] = "issued"]
    /\ UNCHANGED <<ready, input, record, reason>>
    /\ Ledger!Grant(r)

\* attestationFailureCategory of a refused reservation.
Category(refusal) ==
    CASE refusal = "key_mismatch"       -> "key_binding"
      [] refusal = "replayed_assertion" -> "counter"
      [] refusal = "quota_exceeded"     -> "quota"
      [] OTHER                          -> refusal

\* 401, or 429 for the quota.
ReserveRefuses(r) ==
    /\ stage[r] = "reserve"
    /\ Refuse(r, Category(Refusal(accounts[arg[r].device], arg[r])))
    /\ UNCHANGED <<ready, input, record>>
    /\ Ledger!Refuse(r)

\* No answer in time: 503, charged or not.
ReserveFails(r) ==
    /\ stage[r] = "reserve"
    /\ Refuse(r, "state_unavailable")
    /\ UNCHANGED <<ready, input, record>>
    /\ Ledger!GiveUp(r)

Next ==
    \E r \in Requests :
        \/ ValidateAttestation(r) \/ AskKey(r)
        \/ StoreReads(r) \/ StoreFails(r) \/ ValidateAssertion(r)
        \/ LedgerCharges(r) \/ ReserveGrants(r) \/ ReserveRefuses(r) \/ ReserveFails(r)

Spec == Init /\ [][Next]_vars

-----------------------------------------------------------------------------
(* Properties.                                                             *)

\* The key belongs to this application in this environment, on Apple hardware.
Genuine(d) ==
    d \in Hardware /\ Home[d] = [rp |-> ThisApp, aaguid |-> Environment]

\* Every account belongs to a genuine device and holds that device's own key
\* under its own key ID, whatever parts of proofs were put together
\* (appattest.js 359-463, server.js 285-293).
AccountsAreGenuine ==
    \A d \in Devices :
        Exists(accounts[d]) => Genuine(d) /\ accounts[d].publicKeyPem = d

\* What is charged was asked for by the device that pays: its hardware attested
\* this very request, or signed it with the counter that is charged
\* (appattest.js 405-412, 479-484).
ChargedForOwnRequest ==
    \A r \in charged :
        LET q == input[r]
        IN  /\ Genuine(q.keyId)
            /\ IF ByAttestation(q)
               THEN \E c \in Certs : /\ c.signer \in AppleKeys /\ c.key = q.keyId
                                     /\ c.nonce # None /\ c.nonce.hash = q.hash
               ELSE \E s \in Signatures : /\ s.key = q.keyId /\ s.hash = q.hash
                                          /\ s.authData.signCount = arg[r].signCount

\* No assertion is charged twice, although any number of requests may verify it
\* against the same old copy of the account (appattest.js 496 and 597,
\* state-store.js 127).
AssertionChargedOnce ==
    \A r, s \in charged :
        r # s /\ ~ByAttestation(input[r]) /\ ~ByAttestation(input[s])
              /\ input[r].keyId = input[s].keyId
        => input[r].assertion.signature # input[s].assertion.signature

\* The proof an unmodified client makes: fresh, well formed, for this request.
ProperAttestation(q) ==
    LET a == q.attestation
        d == a.authData
    IN  /\ a.decodes /\ ChainVerifies(a.x5c)
        /\ a.x5c[1].key = q.keyId
        /\ a.x5c[1].nonce = [authData |-> d, hash |-> q.hash]
        /\ d.size = "full" /\ d.at /\ d.key = q.keyId /\ d.credentialId = q.keyId
        /\ d.signCount = 0

ProperAssertion(q) ==
    LET a == q.assertion
    IN  /\ a.decodes /\ a.authData.size # "short"
        /\ a.authData.signCount > 0 /\ a.authData.rp = ThisApp
        /\ a.signature \in Signatures
        /\ a.signature = [key |-> q.keyId, authData |-> a.authData, hash |-> q.hash]

Proper(q) ==
    /\ Genuine(q.keyId) /\ q.hash \in Hashes
    /\ \/ ByAttestation(q) /\ ProperAttestation(q)
       \/ ~ByAttestation(q) /\ q.assertion # None /\ ProperAssertion(q)

\* An unmodified client is never turned away for its proof: only for an outage,
\* for its quota or an old epoch, for a device that had not attested when the
\* handlers began, or because the device has used that counter or a later one,
\* whether the key ID is spelled in base64 or base64url (appattest.js 593-611).
ProperIsServed ==
    \A r \in Requests :
        ready /\ Proper(input[r]) /\ stage[r] = "refused" =>
            \/ reason[r] \in {"state_unavailable", "quota", "expired_epoch"}
            \/ /\ reason[r] = "unknown_device_key"
               /\ ~ByAttestation(input[r]) /\ input[r].keyId \notin Enrolled
            \/ /\ reason[r] = "counter" /\ ~ByAttestation(input[r])
               /\ \E s \in charged :
                     /\ ~ByAttestation(input[s]) /\ input[s].keyId = input[r].keyId
                     /\ input[s].assertion.authData.signCount
                            >= input[r].assertion.authData.signCount
=============================================================================
