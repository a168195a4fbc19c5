--------------------------- MODULE AppAttestProofs ---------------------------
(***************************************************************************)
(* For every universe of certificates, signatures and requests: only       *)
(* genuine devices have accounts, each of them pays only for what its own  *)
(* hardware asked for, no assertion is paid for twice, and no unmodified   *)
(* client is turned away for its proof.                                    *)
(***************************************************************************)
EXTENDS AppAttest, WellFoundedInduction, TLAPS

\* A chain that verifies was anchored by Apple, however long it is: no
\* certificate of it can be the last one that Apple's keys did not sign.
LEMMA AnchoredLeaf ==
    ASSUME NEW x5c \in Seq(Certs), x5c # <<>>, ChainVerifies(x5c)
    PROVE  x5c[1] \in Certs /\ x5c[1].signer \in AppleKeys
<1> DEFINE n == Len(x5c)
           Less == {ss \in Nat \X Nat : ss[1] < ss[2]}
           Bad == {j \in Nat : j < n /\ x5c[n - j].signer \notin AppleKeys}
<1>1. n \in Nat /\ n >= 1 /\ \A i \in 1 .. n : x5c[i] \in Certs
  OBVIOUS
<1>2. /\ \A i \in 1 .. n : i < n => x5c[i].signer = x5c[i + 1].key
      /\ x5c[n].signer = Root.key
  BY <1>1, RootAssumption DEF ChainVerifies
<1>3. Bad = {}
  <2> SUFFICES ASSUME Bad # {} PROVE FALSE
    OBVIOUS
  <2>1. IsWellFoundedOn(Less, Nat)
    BY NatLessThanWellFounded DEF OpToRel
  <2>2. Bad \subseteq Nat
    OBVIOUS
  <2>3. \E j \in Bad : \A i \in Bad : <<i, j>> \notin Less
    <3> HIDE DEF Bad, Less
    <3> QED BY <2>1, <2>2, WFMin
  <2>4. PICK j \in Bad : \A i \in Bad : ~(i < j)
    BY <2>3
  <2>5. j \in Nat /\ j < n /\ x5c[n - j].signer \notin AppleKeys
    OBVIOUS
  <2>6. j # 0
    BY <1>1, <1>2, <2>5, RootAssumption
  <2>7. x5c[n - (j - 1)].signer \in AppleKeys
    BY <1>1, <2>4, <2>5, <2>6
  <2>8. x5c[n - (j - 1)].key \in AppleKeys \cup Hardware
    BY <1>1, <2>5, <2>6, <2>7, AppleAssumption
  <2>9. x5c[n - j].signer = x5c[n - (j - 1)].key
    BY <1>1, <1>2, <2>5, <2>6
  <2> QED BY <1>1, <2>5, <2>6, <2>8, <2>9, AppleAssumption
<1> QED
  <2>1. n - 1 \in Nat /\ n - 1 < n /\ n - (n - 1) = 1
    BY <1>1
  <2>2. n - 1 \notin Bad
    BY <1>3
  <2> QED BY <1>1, <2>1, <2>2

-----------------------------------------------------------------------------

Evidence(r) ==
    LET q == input[r]
    IN  /\ Genuine(q.keyId)
        /\ arg[r].publicKeyPem = q.keyId
        /\ ByAttestation(q) =>
              \E c \in Certs : /\ c.signer \in AppleKeys /\ c.key = q.keyId
                               /\ c.nonce # None /\ c.nonce.hash = q.hash
        /\ ~ByAttestation(q) =>
              /\ q.assertion # None /\ q.assertion.signature \in Signatures
              /\ q.assertion.signature =
                    [key |-> q.keyId, authData |-> q.assertion.authData, hash |-> q.hash]

Shape ==
    /\ input \in Workloads
    /\ DOMAIN accounts = Devices /\ accounts = [d \in Devices |-> accounts[d]]
    /\ \A d \in Devices : accounts[d].signCount \in Nat
    /\ stage = [r \in Requests |-> stage[r]]
    /\ record = [r \in Requests |-> record[r]]
    /\ answer = [r \in Requests |-> answer[r]]
    /\ charged \subseteq Requests

\* Until its reservation a request has no answer and no charge.
NotYetReserved ==
    \A r \in Requests :
        stage[r] \in {"new", "reading", "read"} => answer[r] = "none" /\ r \notin charged

\* Only a request with an assertion waits for the device's key.
AwaitsWithAssertion ==
    \A r \in Requests :
        stage[r] \in {"reading", "read"} =>
            ~ByAttestation(input[r]) /\ input[r].assertion # None

\* A copy of an account is a genuine one.
RecordsAreGenuine ==
    \A r \in Requests :
        Exists(record[r]) =>
            Genuine(input[r].keyId) /\ record[r].publicKeyPem = input[r].keyId

\* Who is at the ledger, or has been there, has shown evidence.
ReservedHasEvidence ==
    \A r \in Requests :
        stage[r] = "reserve" \/ answer[r] = "unavailable" \/ r \in charged => Evidence(r)

\* The counter of the account is at or past every counter that was charged.
CountersPassed ==
    \A r \in charged :
        ~ByAttestation(input[r]) =>
            arg[r].signCount <= accounts[input[r].keyId].signCount

IInv ==
    /\ Shape /\ NotYetReserved /\ AwaitsWithAssertion
    /\ AccountsAreGenuine /\ RecordsAreGenuine
    /\ ReservedHasEvidence /\ CountersPassed /\ AssertionChargedOnce

-----------------------------------------------------------------------------

LEMMA CheckHolds == \A cat, ok : Check(cat, ok).holds = ok
BY DEF Check

\* The checks of an attestation give evidence, whatever parts it is made of.
LEMMA AttestationEvidence ==
    ASSUME NEW q, q.attestation.x5c \in Seq(Certs), q.attestation.x5c # <<>>,
           Passes(AttestationChecks(q))
    PROVE  /\ Genuine(q.keyId) /\ q.attestation.authData.key = q.keyId
           /\ \E c \in Certs : /\ c.signer \in AppleKeys /\ c.key = q.keyId
                               /\ c.nonce # None /\ c.nonce.hash = q.hash
<1> DEFINE a == q.attestation
           leaf == a.x5c[1]
<1>1. /\ ChainVerifies(a.x5c) /\ NonceMatches(a, q.hash, leaf)
      /\ KeyIdMatches(q.keyId, a.authData, leaf)
      /\ a.authData.rp = ThisApp /\ a.authData.aaguid = Environment
  <2> DEFINE checks == AttestationChecks(q)
  <2>1. DOMAIN checks = 1 .. 9
    BY DEF AttestationChecks
  <2>2. \A i \in 1 .. 9 : checks[i].holds
    BY <2>1 DEF Passes
  <2>3. ChainVerifies(a.x5c)
    <3>1. checks[2] = Check("certificate_chain", ChainVerifies(a.x5c))
      BY DEF AttestationChecks
    <3> HIDE DEF checks, a, leaf
    <3>2. checks[2].holds
      BY <2>2
    <3> QED BY <3>1, <3>2 DEF Check
  <2>4. NonceMatches(a, q.hash, leaf)
    <3>1. checks[3] = Check("nonce_binding", NonceMatches(a, q.hash, leaf))
      BY DEF AttestationChecks
    <3> HIDE DEF checks, a, leaf
    <3>2. checks[3].holds
      BY <2>2
    <3> QED BY <3>1, <3>2 DEF Check
  <2>5. KeyIdMatches(q.keyId, a.authData, leaf)
    <3>1. checks[6] = Check("key_binding", KeyIdMatches(q.keyId, a.authData, leaf))
      BY DEF AttestationChecks
    <3> HIDE DEF checks, a, leaf
    <3>2. checks[6].holds
      BY <2>2
    <3> QED BY <3>1, <3>2 DEF Check
  <2>6. a.authData.rp = ThisApp
    <3>1. checks[7] = Check("app_identity", a.authData.rp = ThisApp)
      BY DEF AttestationChecks
    <3> HIDE DEF checks, a, leaf
    <3>2. checks[7].holds
      BY <2>2
    <3> QED BY <3>1, <3>2, CheckHolds, Zenon
  <2>7. a.authData.aaguid = Environment
    <3>1. checks[8] = Check("environment", a.authData.aaguid = Environment)
      BY DEF AttestationChecks
    <3> HIDE DEF checks, a, leaf
    <3>2. checks[8].holds
      BY <2>2
    <3> QED BY <3>1, <3>2, CheckHolds, Zenon
  <2> QED BY <2>3, <2>4, <2>5, <2>6, <2>7
<1>2. leaf \in Certs /\ leaf.signer \in AppleKeys
  BY <1>1, AnchoredLeaf
<1>3. leaf.nonce # None /\ leaf.nonce.authData = a.authData /\ leaf.nonce.hash = q.hash
  BY <1>1 DEF NonceMatches
<1>4. leaf.key \in Devices /\ leaf.key = q.keyId /\ leaf.key = a.authData.key
  BY <1>1 DEF KeyIdMatches
<1>5. leaf.key \in Hardware
  BY <1>2, <1>4, AppleAssumption
<1>6. Home[leaf.key].rp = ThisApp /\ Home[leaf.key].aaguid = Environment
  BY <1>1, <1>2, <1>3, <1>5, AppleAssumption
<1> QED BY <1>2, <1>3, <1>4, <1>5, <1>6, HomeAssumption DEF Genuine

\* The checks of an assertion, against an account of the device, give evidence.
LEMMA AssertionEvidence ==
    ASSUME NEW q, NEW rec, q.assertion.signature \in Signatures \cup {None},
           Passes(AssertionChecks(q, rec))
    PROVE  /\ Exists(rec)
           /\ q.assertion.signature \in Signatures
           /\ q.assertion.signature =
                 [key |-> rec.publicKeyPem, authData |-> q.assertion.authData, hash |-> q.hash]
<1> DEFINE a == q.assertion
           checks == AssertionChecks(q, rec)
<1>1. DOMAIN checks = 1 .. 6
  BY DEF AssertionChecks
<1>2. \A i \in 1 .. 6 : checks[i].holds
  BY <1>1 DEF Passes
<1>3. Exists(rec)
  <2>1. checks[1] = Check("unknown_device_key", Exists(rec))
    BY DEF AssertionChecks
  <2> HIDE DEF checks
  <2>2. checks[1].holds
    BY <1>2
  <2> QED BY <2>1, <2>2 DEF Check
<1>4. SignatureVerifies(a, q.hash, rec.publicKeyPem)
  <2>1. checks[3] = Check("assertion_signature", SignatureVerifies(a, q.hash, rec.publicKeyPem))
    BY DEF AssertionChecks
  <2> HIDE DEF checks, a
  <2>2. checks[3].holds
    BY <1>2
  <2> QED BY <2>1, <2>2 DEF Check
<1> QED BY <1>3, <1>4 DEF SignatureVerifies

-----------------------------------------------------------------------------

LEMMA InitIInv == Init => IInv
<1> SUFFICES ASSUME Init PROVE IInv
  OBVIOUS
<1> USE DEF Init
<1>1. \A d \in Devices : /\ accounts[d] = EnrolledAccount(d) /\ accounts[d].signCount = 0
                         /\ accounts[d].publicKeyPem = IF d \in Enrolled THEN d ELSE NoKey
  BY DEF EnrolledAccount, NoAccount
<1>2. Shape /\ NotYetReserved /\ AwaitsWithAssertion
  BY <1>1 DEF Shape, NotYetReserved, AwaitsWithAssertion
<1>3. AccountsAreGenuine
  BY <1>1, EnrolledAssumption DEF AccountsAreGenuine, Exists, Genuine
<1>4. RecordsAreGenuine
  BY DEF RecordsAreGenuine, Exists, NoAccount
<1>5. ReservedHasEvidence /\ CountersPassed /\ AssertionChargedOnce
  BY DEF ReservedHasEvidence, CountersPassed, AssertionChargedOnce
<1> QED BY <1>2, <1>3, <1>4, <1>5 DEF IInv

\* Evidence, and the arguments of reserve, are about the request and the copy
\* of the account alone.
LEMMA EvidenceStable ==
    ASSUME NEW r \in Requests, input' = input, record'[r] = record[r]
    PROVE  (Evidence(r)' <=> Evidence(r)) /\ arg'[r] = arg[r]
BY DEF Evidence, arg, Candidate, ByAttestation, Genuine

\* A step of a handler that leaves the ledger alone keeps the invariant if it
\* brings evidence to the ledger and takes a genuine copy.
LEMMA HandlerStep ==
    ASSUME IInv, NEW r \in Requests, NEW to,
           UNCHANGED <<input, ledger>>,
           stage[r] \in {"new", "reading", "read"},
           stage' = [stage EXCEPT ![r] = to],
           record' = [s \in Requests |-> record'[s]],
           \A s \in Requests \ {r} : record'[s] = record[s],
           Exists(record'[r]) =>
               Genuine(input[r].keyId) /\ record'[r].publicKeyPem = input[r].keyId,
           to \in {"reading", "read"} => ~ByAttestation(input[r]) /\ input[r].assertion # None,
           to = "reserve" => Evidence(r)'
    PROVE  IInv'
<1> USE DEF ledger
<1>1. Shape'
  BY DEF IInv, Shape
<1>2. NotYetReserved' /\ answer[r] = "none" /\ r \notin charged
  BY DEF IInv, Shape, NotYetReserved
<1>3. AwaitsWithAssertion'
  BY DEF IInv, Shape, AwaitsWithAssertion, ByAttestation
<1>4. AccountsAreGenuine'
  BY DEF IInv, AccountsAreGenuine, Genuine, Exists
<1>5. RecordsAreGenuine'
  BY DEF IInv, RecordsAreGenuine, Genuine, Exists
<1>6. ReservedHasEvidence'
  <2> SUFFICES ASSUME NEW s \in Requests,
                      stage'[s] = "reserve" \/ answer'[s] = "unavailable" \/ s \in charged'
               PROVE  Evidence(s)'
    BY DEF ReservedHasEvidence
  <2>1. CASE s = r
    BY <1>2, <2>1 DEF IInv, Shape
  <2>2. CASE s # r
    <3>1. stage'[s] = stage[s] /\ record'[s] = record[s]
      BY <2>2 DEF IInv, Shape
    <3>2. Evidence(s)
      BY <3>1 DEF IInv, ReservedHasEvidence
    <3> QED BY <3>1, <3>2, EvidenceStable
  <2> QED BY <2>1, <2>2
<1>7. \A s \in charged : arg'[s] = arg[s]
  BY <1>2, EvidenceStable DEF IInv, Shape
<1>8. CountersPassed'
  BY <1>7 DEF IInv, CountersPassed, ByAttestation
<1>9. AssertionChargedOnce'
  BY DEF IInv, AssertionChargedOnce, ByAttestation
<1> QED BY <1>1, <1>2, <1>3, <1>4, <1>5, <1>6, <1>8, <1>9 DEF IInv

\* The account operators of the ledger are those of the issuer.
LEMMA SameAccount ==
    \A acc, a : /\ Ledger!Accepted(acc, a) <=> Accepted(acc, a)
                /\ Ledger!Charge(acc, a) = Charge(acc, a)
BY DEF Ledger!Accepted, Accepted, Ledger!Refusal, Refusal, Ledger!Exists, Exists,
       Ledger!Replayed, Replayed, Ledger!LatestEpoch, LatestEpoch, Ledger!Larger, Larger,
       Ledger!Charge, Charge, Ledger!NextSignCount, NextSignCount, Ledger!NextCounts, NextCounts,
       Ledger!KeptEpochs, KeptEpochs, Ledger!Epochs, Epochs

\* The atomic decision of the ledger, on the evidence that brought the request
\* there, whatever has become of the request meanwhile.
LEMMA ChargeStep ==
    ASSUME IInv, NEW r \in Requests, LedgerCharges(r)
    PROVE  IInv'
<1> DEFINE d == input[r].keyId
           acc == accounts[d]
<1>1. /\ UNCHANGED <<input, stage, record, answer>>
      /\ r \notin charged /\ charged' = charged \cup {r}
      /\ Accepted(acc, arg[r])
      /\ accounts' = [accounts EXCEPT ![d] = Charge(acc, arg[r])]
  <2>1. arg[r].device = d
    BY DEF arg, Candidate
  <2> QED BY <2>1, SameAccount DEF LedgerCharges, Ledger!Reserve
<1>2. Evidence(r)
  BY DEF IInv, ReservedHasEvidence, LedgerCharges
<1>3. d \in Devices /\ Genuine(d) /\ arg[r].publicKeyPem = d
  BY <1>2, AppleAssumption DEF Evidence, Genuine
<1>4. \A s \in Requests : arg'[s] = arg[s] /\ (Evidence(s)' <=> Evidence(s))
  BY <1>1, EvidenceStable
<1>5. arg[r].signCount \in Nat /\ acc.signCount \in Nat
  BY <1>3, WorkloadAssumption DEF IInv, Shape, arg, Candidate, ByAttestation
<1>6. /\ accounts'[d].publicKeyPem = d
      /\ accounts'[d].signCount \in Nat
      /\ accounts'[d].signCount >= acc.signCount
      /\ accounts'[d].signCount >= arg[r].signCount
      /\ \A e \in Devices \ {d} : accounts'[e] = accounts[e]
  BY <1>1, <1>3, <1>5 DEF IInv, Shape, Charge, NextSignCount, Larger
<1>7. Shape'
  BY <1>1, <1>3, <1>6 DEF IInv, Shape
<1>8. NotYetReserved' /\ AwaitsWithAssertion'
  <2>1. stage[r] \notin {"new", "reading", "read"}
    BY DEF IInv, NotYetReserved, LedgerCharges
  <2> QED BY <1>1, <2>1 DEF IInv, NotYetReserved, AwaitsWithAssertion, ByAttestation
<1>9. AccountsAreGenuine'
  BY <1>3, <1>6 DEF IInv, AccountsAreGenuine, Genuine, Exists
<1>10. RecordsAreGenuine'
  BY <1>1 DEF IInv, RecordsAreGenuine, Genuine, Exists
<1>11. ReservedHasEvidence'
  BY <1>1, <1>2, <1>4 DEF IInv, ReservedHasEvidence
<1>12. \A s \in charged :
          ~ByAttestation(input[s]) => /\ input[s].keyId \in Devices
                                      /\ arg[s].signCount \in Nat
                                      /\ arg[s].signCount <= accounts[input[s].keyId].signCount
  <2> SUFFICES ASSUME NEW s \in charged, ~ByAttestation(input[s])
               PROVE  /\ input[s].keyId \in Devices /\ arg[s].signCount \in Nat
                      /\ arg[s].signCount <= accounts[input[s].keyId].signCount
    OBVIOUS
  <2>1. s \in Requests
    BY DEF IInv, Shape
  <2>2. Evidence(s)
    BY <2>1 DEF IInv, ReservedHasEvidence
  <2>3. input[s].keyId \in Devices
    BY <2>2, AppleAssumption DEF Evidence, Genuine
  <2>4. arg[s].signCount \in Nat
    BY <2>1, WorkloadAssumption DEF IInv, Shape, arg, Candidate, ByAttestation
  <2> QED BY <2>3, <2>4 DEF IInv, CountersPassed
<1>13. CountersPassed'
  <2> SUFFICES ASSUME NEW s \in charged', ~ByAttestation(input[s])
               PROVE  arg[s].signCount <= accounts'[input[s].keyId].signCount
    BY <1>1, <1>4, <1>7 DEF CountersPassed, Shape, ByAttestation
  <2>1. CASE s = r
    BY <1>5, <1>6, <2>1
  <2>2. CASE s \in charged /\ input[s].keyId = d
    BY <1>5, <1>6, <1>12, <2>2
  <2>3. CASE s \in charged /\ input[s].keyId # d
    BY <1>6, <1>12, <2>3
  <2> QED BY <1>1, <2>1, <2>2, <2>3
<1>14. \A s \in charged :
          ~ByAttestation(input[r]) /\ ~ByAttestation(input[s]) /\ input[s].keyId = d
          => input[s].assertion.signature # input[r].assertion.signature
  <2> SUFFICES ASSUME NEW s \in charged,
                      ~ByAttestation(input[r]), ~ByAttestation(input[s]), input[s].keyId = d
               PROVE  input[s].assertion.signature # input[r].assertion.signature
    OBVIOUS
  <2>1. arg[r].mode = "assertion" /\ ~Replayed(acc, arg[r])
    BY <1>1 DEF Accepted, Refusal, arg, Candidate
  <2>2. arg[s].signCount < arg[r].signCount
    BY <1>5, <1>12, <2>1 DEF Replayed
  <2>3. Evidence(s) /\ s \in Requests
    BY DEF IInv, Shape, ReservedHasEvidence
  <2>4. /\ input[s].assertion # None /\ input[r].assertion # None
        /\ input[s].assertion.signature.authData = input[s].assertion.authData
        /\ input[r].assertion.signature.authData = input[r].assertion.authData
    BY <1>2, <2>3 DEF Evidence
  <2>5. /\ arg[s].signCount = input[s].assertion.authData.signCount
        /\ arg[r].signCount = input[r].assertion.authData.signCount
    BY <2>3, <2>4 DEF arg, Candidate
  <2>6. arg[s].signCount # arg[r].signCount
    BY <1>5, <1>12, <2>2
  <2> QED BY <2>4, <2>5, <2>6
<1>15. AssertionChargedOnce'
  BY <1>1, <1>14 DEF IInv, AssertionChargedOnce, ByAttestation
<1> QED
  BY <1>7, <1>8, <1>9, <1>10, <1>11, <1>13, <1>15 DEF IInv

\* The answer of the ledger ends the handler and charges nothing.
LEMMA AnswerStep ==
    ASSUME IInv, NEW r \in Requests, NEW to \in {"issued", "refused"}, NEW ans,
           UNCHANGED <<input, record, accounts, charged>>,
           stage[r] = "reserve",
           stage' = [stage EXCEPT ![r] = to],
           answer' = [answer EXCEPT ![r] = ans]
    PROVE  IInv'
<1>1. Evidence(r)
  BY DEF IInv, ReservedHasEvidence
<1>2. \A s \in Requests : arg'[s] = arg[s] /\ (Evidence(s)' <=> Evidence(s))
  BY EvidenceStable
<1>3. \A s \in Requests : s # r => stage'[s] = stage[s] /\ answer'[s] = answer[s]
  BY DEF IInv, Shape
<1>4. stage'[r] = to
  BY DEF IInv, Shape
<1>5. Shape'
  BY DEF IInv, Shape
<1>6. NotYetReserved' /\ AwaitsWithAssertion'
  BY <1>3, <1>4 DEF IInv, NotYetReserved, AwaitsWithAssertion, ByAttestation
<1>7. AccountsAreGenuine' /\ RecordsAreGenuine'
  BY DEF IInv, AccountsAreGenuine, RecordsAreGenuine, Genuine, Exists
<1>8. ReservedHasEvidence'
  BY <1>1, <1>2, <1>3 DEF IInv, ReservedHasEvidence
<1>9. CountersPassed' /\ AssertionChargedOnce'
  BY <1>2 DEF IInv, Shape, CountersPassed, AssertionChargedOnce, ByAttestation
<1> QED BY <1>5, <1>6, <1>7, <1>8, <1>9 DEF IInv

LEMMA NextIInv == IInv /\ [Next]_vars => IInv'
<1> SUFFICES ASSUME IInv, [Next]_vars PROVE IInv'
  OBVIOUS
<1>1. ASSUME NEW r \in Requests, ValidateAttestation(r) PROVE IInv'
  <2>1. /\ stage[r] = "new" /\ UNCHANGED <<input, record, ledger>>
        /\ ByAttestation(input[r])
    BY <1>1 DEF ValidateAttestation
  <2>2. record = [s \in Requests |-> record[s]] /\ input \in Workloads
    BY DEF IInv, Shape
  <2>3. Exists(record[r]) =>
            Genuine(input[r].keyId) /\ record[r].publicKeyPem = input[r].keyId
    BY DEF IInv, RecordsAreGenuine
  <2>4. CASE Passes(AttestationChecks(input[r])) /\ stage' = [stage EXCEPT ![r] = "reserve"]
    <3>1. input[r].attestation.x5c \in Seq(Certs) /\ input[r].attestation.x5c # <<>>
      BY <2>1, <2>2, WorkloadAssumption DEF ByAttestation
    <3> DEFINE q == input[r]
    <3>2. /\ Genuine(q.keyId) /\ q.attestation.authData.key = q.keyId
          /\ \E c \in Certs : /\ c.signer \in AppleKeys /\ c.key = q.keyId
                              /\ c.nonce # None /\ c.nonce.hash = q.hash
      <4>1. Passes(AttestationChecks(q))
        BY <2>4
      <4> HIDE DEF q
      <4> QED BY <3>1, <4>1, AttestationEvidence DEF q
    <3>3. arg[r].publicKeyPem = q.keyId
      BY <2>1, <3>2 DEF arg, Candidate
    <3>4. Evidence(r)
      BY <2>1, <3>2, <3>3 DEF Evidence
    <3>5. Evidence(r)'
      BY <2>1, <3>4, EvidenceStable
    <3> QED BY <2>1, <2>2, <2>3, <2>4, <3>5, HandlerStep
  <2>5. CASE stage' = [stage EXCEPT ![r] = "refused"]
    BY <2>1, <2>2, <2>3, <2>5, HandlerStep
  <2> QED BY <1>1, <2>4, <2>5 DEF ValidateAttestation, Refuse
<1>2. ASSUME NEW r \in Requests, AskKey(r) PROVE IInv'
  <2>1. /\ stage[r] = "new" /\ UNCHANGED <<input, record, ledger>>
        /\ ~ByAttestation(input[r])
    BY <1>2 DEF AskKey
  <2>2. record = [s \in Requests |-> record[s]]
    BY DEF IInv, Shape
  <2>3. Exists(record[r]) =>
            Genuine(input[r].keyId) /\ record[r].publicKeyPem = input[r].keyId
    BY DEF IInv, RecordsAreGenuine
  <2>4. CASE Passes(RequestChecks(input[r])) /\ stage' = [stage EXCEPT ![r] = "reading"]
    <3> DEFINE checks == RequestChecks(input[r])
               proof == input[r].attestation # None \/ input[r].assertion # None
    <3>1. checks[3] = Check("proof_format", proof) /\ DOMAIN checks = 1 .. 3
      BY DEF RequestChecks
    <3>2. checks[3].holds
      <4>1. \A i \in DOMAIN checks : checks[i].holds
        BY <2>4 DEF Passes
      <4> HIDE DEF checks
      <4> QED BY <3>1, <4>1
    <3>3. proof
      <4>1. proof \in BOOLEAN
        OBVIOUS
      <4> HIDE DEF checks, proof
      <4>2. checks[3].holds = proof
        BY <3>1, CheckHolds
      <4> QED BY <3>2, <4>1, <4>2
    <3>4. input[r].assertion # None
      BY <2>1, <3>3 DEF ByAttestation
    <3> QED BY <2>1, <2>2, <2>3, <2>4, <3>4, HandlerStep
  <2>5. CASE stage' = [stage EXCEPT ![r] = "refused"]
    BY <2>1, <2>2, <2>3, <2>5, HandlerStep
  <2> QED BY <1>2, <2>4, <2>5 DEF AskKey, Refuse
<1>3. ASSUME NEW r \in Requests, StoreReads(r) PROVE IInv'
  <2>1. /\ stage[r] = "reading" /\ UNCHANGED <<input, ledger>>
        /\ stage' = [stage EXCEPT ![r] = "read"]
        /\ ~ByAttestation(input[r]) /\ input[r].assertion # None
    BY <1>3 DEF StoreReads, IInv, AwaitsWithAssertion
  <2>2. /\ record' = [s \in Requests |-> record'[s]]
        /\ \A s \in Requests \ {r} : record'[s] = record[s]
        /\ record'[r] = IF input[r].keyId \in Devices THEN accounts[input[r].keyId]
                        ELSE NoAccount
    BY <1>3 DEF StoreReads, StoreKey, IInv, Shape
  <2>3. Exists(record'[r]) =>
            Genuine(input[r].keyId) /\ record'[r].publicKeyPem = input[r].keyId
    BY <2>2 DEF IInv, AccountsAreGenuine, Exists, NoAccount
  <2> QED BY <2>1, <2>2, <2>3, HandlerStep
<1>4. ASSUME NEW r \in Requests, StoreFails(r) PROVE IInv'
  <2>1. /\ stage[r] = "reading" /\ UNCHANGED <<input, record, ledger>>
        /\ stage' = [stage EXCEPT ![r] = "refused"]
    BY <1>4 DEF StoreFails, Refuse
  <2>2. record = [s \in Requests |-> record[s]]
    BY DEF IInv, Shape
  <2>3. Exists(record[r]) =>
            Genuine(input[r].keyId) /\ record[r].publicKeyPem = input[r].keyId
    BY DEF IInv, RecordsAreGenuine
  <2> QED BY <2>1, <2>2, <2>3, HandlerStep
<1>5. ASSUME NEW r \in Requests, ValidateAssertion(r) PROVE IInv'
  <2>1. /\ stage[r] = "read" /\ UNCHANGED <<input, record, ledger>>
        /\ ~ByAttestation(input[r]) /\ input[r].assertion # None
    BY <1>5 DEF ValidateAssertion, IInv, AwaitsWithAssertion
  <2>2. record = [s \in Requests |-> record[s]] /\ input \in Workloads
    BY DEF IInv, Shape
  <2>3. Exists(record[r]) =>
            Genuine(input[r].keyId) /\ record[r].publicKeyPem = input[r].keyId
    BY DEF IInv, RecordsAreGenuine
  <2>4. CASE Passes(AssertionChecks(input[r], record[r])) /\ stage' = [stage EXCEPT ![r] = "reserve"]
    <3> DEFINE q == input[r]
               rec == record[r]
    <3>1. q.assertion.signature \in Signatures \cup {None}
      BY <2>1, <2>2, WorkloadAssumption
    <3>2. /\ Exists(rec) /\ q.assertion.signature \in Signatures
          /\ q.assertion.signature =
                [key |-> rec.publicKeyPem, authData |-> q.assertion.authData, hash |-> q.hash]
      <4>1. Passes(AssertionChecks(q, rec))
        BY <2>4
      <4> HIDE DEF q, rec
      <4> QED BY <3>1, <4>1, AssertionEvidence DEF q, rec
    <3>3. arg[r].publicKeyPem = q.keyId
      BY <2>1, <2>3, <3>2 DEF arg, Candidate
    <3>4. Evidence(r)
      BY <2>1, <2>3, <3>2, <3>3 DEF Evidence
    <3>5. Evidence(r)'
      BY <2>1, <3>4, EvidenceStable
    <3> QED BY <2>1, <2>2, <2>3, <2>4, <3>5, HandlerStep
  <2>5. CASE stage' = [stage EXCEPT ![r] = "refused"]
    BY <2>1, <2>2, <2>3, <2>5, HandlerStep
  <2> QED BY <1>5, <2>4, <2>5 DEF ValidateAssertion, Refuse
<1>6. ASSUME NEW r \in Requests, LedgerCharges(r) PROVE IInv'
  BY <1>6, ChargeStep
<1>7. ASSUME NEW r \in Requests, ReserveGrants(r) PROVE IInv'
  BY <1>7, AnswerStep DEF ReserveGrants, Ledger!Grant
<1>8. ASSUME NEW r \in Requests, ReserveRefuses(r) PROVE IInv'
  BY <1>8, AnswerStep DEF ReserveRefuses, Refuse, Ledger!Refuse
<1>9. ASSUME NEW r \in Requests, ReserveFails(r) PROVE IInv'
  BY <1>9, AnswerStep DEF ReserveFails, Refuse, Ledger!GiveUp
<1>10. CASE UNCHANGED vars
  <2>1. UNCHANGED <<input, stage, record, accounts, charged, answer>>
    BY <1>10 DEF vars, ledger
  <2>2. arg' = arg /\ \A s \in Requests : Evidence(s)' <=> Evidence(s)
    BY <2>1, EvidenceStable DEF arg, Candidate, ByAttestation
  <2> QED BY <2>1, <2>2
        DEF IInv, Shape, NotYetReserved, AwaitsWithAssertion, AccountsAreGenuine,
            RecordsAreGenuine, ReservedHasEvidence, CountersPassed, AssertionChargedOnce,
            ByAttestation, Genuine, Exists
<1> QED
  BY <1>1, <1>2, <1>3, <1>4, <1>5, <1>6, <1>7, <1>8, <1>9, <1>10 DEF Next

LEMMA IInvInvariant == Spec => []IInv
<1> QED BY InitIInv, NextIInv, PTL DEF Spec

\* Whatever parts of proofs requests put together, only genuine devices of this
\* application have accounts, under their own key ID and with their own key
\* (appattest.js 359-463).
THEOREM AccountsAreGenuineTheorem == Spec => []AccountsAreGenuine
<1>1. IInv => AccountsAreGenuine
  BY DEF IInv
<1> QED BY <1>1, IInvInvariant, PTL

\* A device pays only for a request that its own hardware attested or signed
\* (appattest.js 405-412, 479-484).
THEOREM ChargedForOwnRequestTheorem == Spec => []ChargedForOwnRequest
<1>1. IInv => ChargedForOwnRequest
  <2> SUFFICES ASSUME IInv, NEW r \in charged
               PROVE  LET q == input[r]
                      IN  /\ Genuine(q.keyId)
                          /\ IF ByAttestation(q)
                             THEN \E c \in Certs : /\ c.signer \in AppleKeys /\ c.key = q.keyId
                                                   /\ c.nonce # None /\ c.nonce.hash = q.hash
                             ELSE \E s \in Signatures : /\ s.key = q.keyId /\ s.hash = q.hash
                                                        /\ s.authData.signCount = arg[r].signCount
    BY DEF ChargedForOwnRequest
  <2>1. r \in Requests /\ Evidence(r)
    BY DEF IInv, Shape, ReservedHasEvidence
  <2>2. CASE ByAttestation(input[r])
    BY <2>1, <2>2 DEF Evidence
  <2>3. CASE ~ByAttestation(input[r])
    <3>1. /\ input[r].assertion # None
          /\ input[r].assertion.signature \in Signatures
          /\ input[r].assertion.signature =
                [key |-> input[r].keyId, authData |-> input[r].assertion.authData,
                 hash |-> input[r].hash]
      BY <2>1, <2>3 DEF Evidence
    <3>2. arg[r].signCount = input[r].assertion.authData.signCount
      BY <2>1, <2>3, <3>1 DEF arg, Candidate
    <3> QED BY <2>1, <2>3, <3>1, <3>2 DEF Evidence
  <2> QED BY <2>2, <2>3
<1> QED BY <1>1, IInvInvariant, PTL

\* No assertion is paid for twice, however many requests verified it against the
\* same copy of the account (appattest.js 496 and 597, state-store.js 127).
THEOREM AssertionChargedOnceTheorem == Spec => []AssertionChargedOnce
<1>1. IInv => AssertionChargedOnce
  BY DEF IInv
<1> QED BY <1>1, IInvInvariant, PTL

-----------------------------------------------------------------------------
(* What an unmodified client is turned away for.                           *)

\* The device has been charged for an assertion with this counter or a later one.
Paid(d, n) ==
    \E s \in charged : /\ ~ByAttestation(input[s]) /\ input[s].keyId = d
                       /\ input[s].assertion.authData.signCount >= n

\* Who is at the ledger, or has been there.
AtLedger(r) == stage[r] = "reserve" \/ answer[r] = "unavailable" \/ r \in charged

\* Only assertions move a counter.
AttestedAtZero ==
    \A r \in Requests : AtLedger(r) /\ ByAttestation(input[r]) => arg[r].signCount = 0

\* The counter of an account, and of every copy of one, was paid with.
CountersEarned ==
    /\ \A d \in Devices : accounts[d].signCount = 0 \/ Paid(d, accounts[d].signCount)
    /\ \A r \in Requests :
          /\ record[r].signCount \in Nat
          /\ record[r].signCount = 0 \/ Paid(input[r].keyId, record[r].signCount)

\* An account that was read exists for ever, and so does an enrolled one.
AccountsLast ==
    /\ \A d \in Enrolled : Exists(accounts[d])
    /\ \A r \in Requests :
          /\ Exists(record[r]) => Exists(accounts[input[r].keyId])
          /\ stage[r] = "read" /\ input[r].keyId \in Enrolled => Exists(record[r])
          /\ stage[r] = "reserve" /\ ~ByAttestation(input[r]) => Exists(record[r])

\* The reasons for which a proper request may be refused.
Excused(r) ==
    \/ reason[r] \in {"state_unavailable", "quota", "expired_epoch"}
    \/ /\ reason[r] = "unknown_device_key"
       /\ ~ByAttestation(input[r]) /\ input[r].keyId \notin Enrolled
    \/ /\ reason[r] = "counter" /\ ~ByAttestation(input[r])
       /\ Paid(input[r].keyId, input[r].assertion.authData.signCount)

SInv ==
    /\ reason = [r \in Requests |-> reason[r]]
    /\ AttestedAtZero /\ CountersEarned /\ AccountsLast
    /\ \A r \in Requests :
          ready /\ Proper(input[r]) /\ stage[r] = "refused" => Excused(r)

-----------------------------------------------------------------------------
(* The checks that a proper request passes.                                *)

LEMMA TrueHolds == \A cat, ok : ok => Check(cat, ok).holds
BY DEF Check

\* A proper request passes the checks that come before its proof is looked at.
LEMMA ProperPassesRequest ==
    ASSUME NEW q, ready, Proper(q) PROVE Passes(RequestChecks(q))
<1> DEFINE checks == RequestChecks(q)
<1>1. DOMAIN checks = 1 .. 3
  BY DEF RequestChecks
<1>2. checks[1].holds
  BY TrueHolds DEF RequestChecks
<1>3. checks[2].holds
  <2>1. q.hash \in Hashes
    BY DEF Proper
  <2> QED BY <2>1, TrueHolds DEF RequestChecks
<1>4. checks[3].holds
  <2>1. q.attestation # None \/ q.assertion # None
    BY DEF Proper, ByAttestation
  <2> QED BY <2>1, TrueHolds DEF RequestChecks
<1> QED
  <2> HIDE DEF checks
  <2>1. \A i \in DOMAIN checks : checks[i].holds
    BY <1>1, <1>2, <1>3, <1>4
  <2> QED BY <2>1 DEF Passes, checks

\* A proper attestation passes all its checks: Apple issued its certificate for
\* a key of this application and environment.
LEMMA ProperPassesAttestation ==
    ASSUME NEW q, Proper(q), ByAttestation(q),
           q.attestation.x5c \in Seq(Certs), q.attestation.x5c # <<>>
    PROVE  Passes(AttestationChecks(q))
<1> DEFINE a == q.attestation
           leaf == a.x5c[1]
           checks == AttestationChecks(q)
<1>1. /\ a.decodes /\ ChainVerifies(a.x5c)
      /\ leaf.key = q.keyId
      /\ leaf.nonce = [authData |-> a.authData, hash |-> q.hash]
      /\ a.authData.size = "full" /\ a.authData.at /\ a.authData.key = q.keyId
      /\ a.authData.credentialId = q.keyId /\ a.authData.signCount = 0
  BY DEF Proper, ProperAttestation
<1>2. /\ q.keyId \in Hardware /\ Home[q.keyId].rp = ThisApp
      /\ Home[q.keyId].aaguid = Environment /\ q.keyId \in Devices
  BY AppleAssumption DEF Proper, Genuine
<1>3. leaf \in Certs /\ leaf.signer \in AppleKeys
  BY <1>1, AnchoredLeaf
<1>4. leaf.key \notin AppleKeys
  BY <1>1, <1>2, AppleAssumption
<1>5. /\ leaf.nonce # None
      /\ leaf.nonce.authData.rp = ThisApp /\ leaf.nonce.authData.aaguid = Environment
  BY <1>1, <1>2, <1>3, <1>4, AppleAssumption
<1>6. a.authData.rp = ThisApp /\ a.authData.aaguid = Environment
  BY <1>1, <1>5
<1>7. NonceMatches(a, q.hash, leaf)
  BY <1>1, <1>5 DEF NonceMatches
<1>8. KeyIdMatches(q.keyId, a.authData, leaf)
  BY <1>1, <1>2 DEF KeyIdMatches
<1>9. Parses(a.authData)
  BY <1>1 DEF Parses
<1>10. DOMAIN checks = 1 .. 9
  BY DEF AttestationChecks
<1>11. checks[1].holds
  BY <1>1, TrueHolds DEF AttestationChecks
<1>12. checks[2].holds
  BY <1>1, TrueHolds DEF AttestationChecks
<1>13. checks[3].holds
  BY <1>7, TrueHolds DEF AttestationChecks
<1>14. checks[4].holds
  BY <1>9, TrueHolds DEF AttestationChecks
<1>15. checks[5].holds
  BY <1>1, TrueHolds DEF AttestationChecks
<1>16. checks[6].holds
  BY <1>8, TrueHolds DEF AttestationChecks
<1>17. checks[7].holds
  BY <1>6, TrueHolds DEF AttestationChecks
<1>18. checks[8].holds
  BY <1>6, TrueHolds DEF AttestationChecks
<1>19. checks[9].holds
  BY <1>1, TrueHolds DEF AttestationChecks
<1> QED
  <2> HIDE DEF checks
  <2>1. \A i \in DOMAIN checks : checks[i].holds
    BY <1>10, <1>11, <1>12, <1>13, <1>14, <1>15, <1>16, <1>17, <1>18, <1>19
  <2> QED BY <2>1 DEF Passes, checks

\* Of the checks of a proper assertion only two can fail: the device is unknown,
\* or its counter is not past the one of the copy.
LEMMA ProperAssertionFails ==
    ASSUME NEW q, NEW rec, Proper(q), ~ByAttestation(q),
           Exists(rec) => rec.publicKeyPem = q.keyId,
           ~Passes(AssertionChecks(q, rec))
    PROVE  \/ FirstFailure(AssertionChecks(q, rec)) = "unknown_device_key" /\ ~Exists(rec)
           \/ /\ FirstFailure(AssertionChecks(q, rec)) = "counter"
              /\ ~(q.assertion.authData.signCount > rec.signCount)
<1> DEFINE a == q.assertion
           checks == AssertionChecks(q, rec)
           First(i) == ~checks[i].holds /\ \A j \in 1 .. i - 1 : checks[j].holds
<1>1. /\ a.decodes /\ a.authData.size # "short" /\ a.authData.rp = ThisApp
      /\ a.signature # None
      /\ a.signature = [key |-> q.keyId, authData |-> a.authData, hash |-> q.hash]
  BY NoneAssumption DEF Proper, ProperAssertion
<1>2. DOMAIN checks = 1 .. 6
  BY DEF AssertionChecks
<1>3. checks[1] = Check("unknown_device_key", Exists(rec))
  BY DEF AssertionChecks
<1>4. checks[2].holds
  BY <1>1, TrueHolds DEF AssertionChecks
<1>5. Exists(rec) => checks[3].holds
  <2>1. Exists(rec) => SignatureVerifies(a, q.hash, rec.publicKeyPem)
    BY <1>1 DEF SignatureVerifies
  <2> QED BY <2>1, TrueHolds DEF AssertionChecks
<1>6. checks[4].holds
  BY <1>1, TrueHolds DEF AssertionChecks
<1>7. checks[5].holds
  BY <1>1, TrueHolds DEF AssertionChecks
<1>8. checks[6] = Check("counter", a.authData.signCount > rec.signCount)
  BY DEF AssertionChecks
<1>9. \E i \in 1 .. 6 : ~checks[i].holds
  BY <1>2 DEF Passes
<1> HIDE DEF checks
<1>10. Exists(rec) => checks[1].holds
  BY <1>3, TrueHolds
<1>11. a.authData.signCount > rec.signCount => checks[6].holds
  BY <1>8, TrueHolds
<1>12. CASE ~Exists(rec)
  <2>1. ~checks[1].holds
    BY <1>3, <1>12 DEF Check
  <2>2. First(1)
    BY <2>1
  <2>3. \A i \in DOMAIN checks : First(i) => i = 1
    BY <1>2, <2>1
  <2>4. FirstFailure(checks) = checks[1].category
    BY <1>2, <2>2, <2>3 DEF FirstFailure
  <2> QED BY <1>3, <1>12, <2>4 DEF checks, Check
<1>13. CASE Exists(rec)
  <2>1. ~checks[6].holds /\ \A j \in 1 .. 5 : checks[j].holds
    BY <1>4, <1>5, <1>6, <1>7, <1>9, <1>10, <1>13
  <2>2. First(6)
    BY <2>1
  <2>3. \A i \in DOMAIN checks : First(i) => i = 6
    BY <1>2, <2>1
  <2>4. FirstFailure(checks) = checks[6].category
    BY <1>2, <2>2, <2>3 DEF FirstFailure
  <2> QED BY <1>8, <1>11, <2>1, <2>4 DEF checks, Check
<1> QED BY <1>12, <1>13

-----------------------------------------------------------------------------

LEMMA InitSInv == Init => SInv
<1> SUFFICES ASSUME Init PROVE SInv
  OBVIOUS
<1> USE DEF Init
<1>1. \A d \in Devices : /\ accounts[d].signCount = 0
                         /\ accounts[d].publicKeyPem = IF d \in Enrolled THEN d ELSE NoKey
  BY DEF EnrolledAccount, NoAccount
<1>2. AttestedAtZero
  BY DEF AttestedAtZero, AtLedger
<1>3. CountersEarned
  BY <1>1 DEF CountersEarned, NoAccount
<1>4. \A d \in Enrolled : d \in Devices /\ d # NoKey
  BY EnrolledAssumption, AppleAssumption, KeyIdAssumption, NoKeyAssumption
<1>5. AccountsLast
  BY <1>1, <1>4 DEF AccountsLast, Exists, NoAccount
<1> QED BY <1>2, <1>3, <1>5 DEF SInv

\* No step changes what a request carries, and no charge is taken back.
LEMMA StepKeeps ==
    ASSUME [Next]_vars
    PROVE  UNCHANGED <<ready, input>> /\ charged \subseteq charged'
<1>1. ASSUME NEW r \in Requests, LedgerCharges(r)
      PROVE  UNCHANGED <<ready, input>> /\ charged \subseteq charged'
  BY <1>1 DEF LedgerCharges, Ledger!Reserve
<1>2. ASSUME NEW r \in Requests,
             ReserveGrants(r) \/ ReserveRefuses(r) \/ ReserveFails(r)
      PROVE  UNCHANGED <<ready, input>> /\ charged \subseteq charged'
  BY <1>2 DEF ReserveGrants, ReserveRefuses, ReserveFails, Ledger!Grant, Ledger!Refuse,
              Ledger!GiveUp
<1>3. ASSUME NEW r \in Requests,
             \/ ValidateAttestation(r) \/ AskKey(r) \/ StoreReads(r) \/ StoreFails(r)
             \/ ValidateAssertion(r)
      PROVE  UNCHANGED <<ready, input>> /\ charged \subseteq charged'
  BY <1>3 DEF ValidateAttestation, AskKey, StoreReads, StoreFails, ValidateAssertion, ledger
<1>4. CASE UNCHANGED vars
  BY <1>4 DEF vars, ledger
<1> QED BY <1>1, <1>2, <1>3, <1>4 DEF Next

\* What was paid stays paid.
LEMMA PaidStays ==
    ASSUME input' = input, charged \subseteq charged'
    PROVE  \A d, n : Paid(d, n) => Paid(d, n)'
BY DEF Paid, ByAttestation

\* An excuse stays one.
LEMMA ExcusedStays ==
    ASSUME input' = input, charged \subseteq charged', NEW r, reason'[r] = reason[r], Excused(r)
    PROVE  Excused(r)'
<1>1. \A n : Paid(input[r].keyId, n) => Paid(input[r].keyId, n)'
  BY PaidStays
<1> QED BY <1>1 DEF Excused, ByAttestation

\* A step of a handler that leaves the ledger alone.
LEMMA HandlerServed ==
    ASSUME IInv, SInv, NEW r \in Requests, NEW to, NEW why,
           UNCHANGED <<ready, input, ledger>>,
           stage[r] \in {"new", "reading", "read"},
           stage' = [stage EXCEPT ![r] = to],
           reason' = reason \/ reason' = [reason EXCEPT ![r] = why],
           \A s \in Requests \ {r} : record'[s] = record[s],
           \/ record'[r] = record[r]
           \/ record'[r] = NoAccount
           \/ input[r].keyId \in Devices /\ record'[r] = accounts[input[r].keyId],
           to = "read" /\ input[r].keyId \in Enrolled => Exists(record'[r]),
           to = "reserve" /\ ~ByAttestation(input[r]) => Exists(record'[r]),
           to = "reserve" /\ ByAttestation(input[r]) => arg'[r].signCount = 0,
           ready /\ Proper(input[r]) /\ to = "refused" => Excused(r)'
    PROVE  SInv'
<1> USE DEF ledger
<1>1. stage'[r] = to /\ \A s \in Requests : s # r => stage'[s] = stage[s] /\ reason'[s] = reason[s]
  BY DEF IInv, Shape, SInv
<1>2. reason' = [s \in Requests |-> reason'[s]]
  BY DEF SInv
<1>3. answer[r] = "none" /\ r \notin charged
  BY DEF IInv, NotYetReserved
<1>4. AttestedAtZero'
  <2> SUFFICES ASSUME NEW s \in Requests, AtLedger(s)', ByAttestation(input[s])
               PROVE  arg'[s].signCount = 0
    BY DEF AttestedAtZero, ByAttestation
  <2>1. CASE s = r
    BY <1>1, <1>3, <2>1 DEF AtLedger
  <2>2. CASE s # r
    <3>1. arg'[s] = arg[s]
      BY <2>2, EvidenceStable
    <3> QED BY <1>1, <2>2, <3>1 DEF SInv, AttestedAtZero, AtLedger
  <2> QED BY <2>1, <2>2
<1>5. \A d, n : Paid(d, n) => Paid(d, n)'
  BY PaidStays
<1>6. CountersEarned'
  <2>1. \A d \in Devices : (accounts[d].signCount = 0 \/ Paid(d, accounts[d].signCount))'
    BY <1>5 DEF SInv, CountersEarned
  <2> SUFFICES ASSUME NEW s \in Requests
               PROVE  (/\ record[s].signCount \in Nat
                       /\ \/ record[s].signCount = 0
                          \/ Paid(input[s].keyId, record[s].signCount))'
    BY <2>1 DEF CountersEarned
  <2>2. CASE record'[s] = record[s]
    BY <1>5, <2>2 DEF SInv, CountersEarned
  <2>3. CASE s = r /\ record'[r] = NoAccount
    BY <2>3 DEF NoAccount
  <2>4. CASE s = r /\ input[r].keyId \in Devices /\ record'[r] = accounts[input[r].keyId]
    BY <1>5, <2>4 DEF SInv, CountersEarned, IInv, Shape
  <2> QED BY <2>2, <2>3, <2>4
<1>7. AccountsLast'
  <2>1. \A d \in Enrolled : Exists(accounts[d])'
    BY DEF SInv, AccountsLast, Exists
  <2> SUFFICES ASSUME NEW s \in Requests
               PROVE  /\ Exists(record'[s]) => Exists(accounts[input[s].keyId])
                      /\ stage'[s] = "read" /\ input[s].keyId \in Enrolled => Exists(record'[s])
                      /\ stage'[s] = "reserve" /\ ~ByAttestation(input[s]) => Exists(record'[s])
    BY <2>1 DEF AccountsLast, Exists, ByAttestation
  <2>2. Exists(record'[s]) => Exists(accounts[input[s].keyId])
    BY DEF SInv, AccountsLast, Exists, NoAccount
  <2>3. CASE s = r
    BY <1>1, <2>2, <2>3
  <2>4. CASE s # r
    BY <1>1, <2>2, <2>4 DEF SInv, AccountsLast
  <2> QED BY <2>3, <2>4
<1>8. ASSUME NEW s \in Requests, ready', Proper(input[s])', stage'[s] = "refused"
      PROVE  Excused(s)'
  <2>1. Proper(input[s])
    BY <1>8 DEF Proper, ByAttestation, ProperAttestation, ProperAssertion, Genuine
  <2>2. CASE s = r
    BY <1>1, <1>8, <2>1, <2>2
  <2>3. CASE s # r
    <3>1. Excused(s)
      BY <1>1, <1>8, <2>1, <2>3 DEF SInv
    <3> QED BY <1>1, <2>3, <3>1, ExcusedStays
  <2> QED BY <2>2, <2>3
<1> QED BY <1>2, <1>4, <1>6, <1>7, <1>8 DEF SInv

\* The decision of the ledger: a counter that grows was paid with by the very
\* request that is charged.
LEMMA ChargeServed ==
    ASSUME IInv, SInv, NEW r \in Requests, LedgerCharges(r)
    PROVE  SInv'
<1> DEFINE d == input[r].keyId
           acc == accounts[d]
<1>1. /\ UNCHANGED <<ready, input, stage, record, reason, answer>>
      /\ r \notin charged /\ charged' = charged \cup {r}
      /\ accounts' = [accounts EXCEPT ![d] = Charge(acc, arg[r])]
  <2>1. arg[r].device = d
    BY DEF arg, Candidate
  <2> QED BY <2>1, SameAccount DEF LedgerCharges, Ledger!Reserve
<1>2. Evidence(r) /\ AtLedger(r)
  BY DEF IInv, ReservedHasEvidence, LedgerCharges, AtLedger
<1>3. d \in Devices /\ Genuine(d) /\ arg[r].publicKeyPem = d
  BY <1>2, AppleAssumption DEF Evidence, Genuine
<1>4. arg[r].signCount \in Nat /\ acc.signCount \in Nat
  BY <1>3, WorkloadAssumption DEF IInv, Shape, arg, Candidate, ByAttestation
<1>5. /\ accounts'[d].publicKeyPem = d /\ d # NoKey
      /\ accounts'[d].signCount \in {acc.signCount, arg[r].signCount}
      /\ accounts'[d].signCount = arg[r].signCount \/ accounts'[d].signCount = acc.signCount
      /\ accounts'[d].signCount >= arg[r].signCount
      /\ \A e \in Devices \ {d} : accounts'[e] = accounts[e]
  BY <1>1, <1>3, <1>4, KeyIdAssumption, NoKeyAssumption
     DEF IInv, Shape, Charge, NextSignCount, Larger
<1>6. \A s \in Requests : arg'[s] = arg[s]
  BY <1>1, EvidenceStable
<1>7. \A e, n : Paid(e, n) => Paid(e, n)'
  BY <1>1, PaidStays
<1>8. AttestedAtZero'
  BY <1>1, <1>2, <1>6 DEF SInv, AttestedAtZero, AtLedger, ByAttestation
<1>9. (accounts[d].signCount = 0 \/ Paid(d, accounts[d].signCount))'
  <2>1. CASE accounts'[d].signCount = acc.signCount
    BY <1>1, <1>3, <1>7, <2>1 DEF SInv, CountersEarned
  <2>2. CASE accounts'[d].signCount = arg[r].signCount /\ ByAttestation(input[r])
    BY <1>1, <1>2, <2>2 DEF SInv, AttestedAtZero
  <2>3. CASE accounts'[d].signCount = arg[r].signCount /\ ~ByAttestation(input[r])
    <3>1. arg[r].signCount = input[r].assertion.authData.signCount
      BY <1>2, <2>3 DEF Evidence, arg, Candidate
    <3> QED BY <1>1, <1>4, <2>3, <3>1 DEF Paid, ByAttestation
  <2> QED BY <1>5, <2>1, <2>2, <2>3
<1>10. CountersEarned'
  <2>1. \A e \in Devices : (accounts[e].signCount = 0 \/ Paid(e, accounts[e].signCount))'
    BY <1>1, <1>5, <1>7, <1>9 DEF SInv, CountersEarned
  <2>2. \A s \in Requests :
           (/\ record[s].signCount \in Nat
            /\ record[s].signCount = 0 \/ Paid(input[s].keyId, record[s].signCount))'
    BY <1>1, <1>7 DEF SInv, CountersEarned
  <2> QED BY <2>1, <2>2 DEF CountersEarned
<1>11. \A e \in Devices : Exists(accounts[e]) => Exists(accounts[e])'
  BY <1>5 DEF Exists
<1>12. AccountsLast'
  <2>1. \A e \in Enrolled : Exists(accounts[e])'
    BY <1>11, EnrolledAssumption, AppleAssumption DEF SInv, AccountsLast
  <2>2. \A s \in Requests : Exists(record[s]) => input[s].keyId \in Devices
    BY AppleAssumption DEF IInv, RecordsAreGenuine, Genuine
  <2>3. \A s \in Requests : Exists(record[s])' => Exists(accounts[input[s].keyId])'
    BY <1>1, <1>11, <2>2 DEF SInv, AccountsLast, Exists
  <2> QED BY <1>1, <2>1, <2>3 DEF SInv, AccountsLast, Exists, ByAttestation
<1>13. ASSUME NEW s \in Requests, ready', Proper(input[s])', stage'[s] = "refused"
       PROVE  Excused(s)'
  <2>1. Proper(input[s])
    BY <1>1, <1>13 DEF Proper, ByAttestation, ProperAttestation, ProperAssertion, Genuine
  <2>2. Excused(s)
    BY <1>1, <1>13, <2>1 DEF SInv
  <2> QED BY <1>1, <2>2, ExcusedStays
<1>14. reason' = [s \in Requests |-> reason'[s]]
  BY <1>1 DEF SInv
<1> QED BY <1>8, <1>10, <1>12, <1>13, <1>14 DEF SInv

\* The answer of the ledger.
LEMMA AnswerServed ==
    ASSUME IInv, SInv, NEW r \in Requests, NEW to \in {"issued", "refused"}, NEW why, NEW ans,
           UNCHANGED <<ready, input, record, accounts, charged>>,
           stage[r] = "reserve",
           stage' = [stage EXCEPT ![r] = to],
           answer' = [answer EXCEPT ![r] = ans],
           reason' = reason \/ reason' = [reason EXCEPT ![r] = why],
           ready /\ Proper(input[r]) /\ to = "refused" => Excused(r)'
    PROVE  SInv'
<1>1. /\ stage'[r] = to
      /\ \A s \in Requests : s # r => /\ stage'[s] = stage[s] /\ answer'[s] = answer[s]
                                      /\ reason'[s] = reason[s]
  BY DEF IInv, Shape, SInv
<1>2. reason' = [s \in Requests |-> reason'[s]]
  BY DEF SInv
<1>3. \A s \in Requests : arg'[s] = arg[s] /\ (AtLedger(s)' => AtLedger(s))
  BY <1>1, EvidenceStable DEF AtLedger
<1>4. AttestedAtZero'
  BY <1>3 DEF SInv, AttestedAtZero, ByAttestation
<1>5. CountersEarned'
  BY DEF SInv, CountersEarned, Paid, ByAttestation
<1>6. AccountsLast'
  BY <1>1 DEF SInv, AccountsLast, Exists, ByAttestation
<1>7. ASSUME NEW s \in Requests, ready', Proper(input[s])', stage'[s] = "refused"
      PROVE  Excused(s)'
  <2>1. Proper(input[s])
    BY <1>7 DEF Proper, ByAttestation, ProperAttestation, ProperAssertion, Genuine
  <2>2. CASE s = r
    BY <1>1, <1>7, <2>1, <2>2
  <2>3. CASE s # r
    <3>1. Excused(s)
      BY <1>1, <1>7, <2>1, <2>3 DEF SInv
    <3> QED BY <1>1, <2>3, <3>1, ExcusedStays
  <2> QED BY <2>2, <2>3
<1> QED BY <1>2, <1>4, <1>5, <1>6, <1>7 DEF SInv

\* The ledger refuses a proper request for its quota, its epoch or a counter
\* that the device has paid with.
LEMMA RefusalExcused ==
    ASSUME IInv, SInv, NEW r \in Requests, ReserveRefuses(r), Proper(input[r])
    PROVE  Excused(r)'
<1> DEFINE q == input[r]
           acc == accounts[q.keyId]
           a == arg[r]
<1>1. /\ stage[r] = "reserve" /\ UNCHANGED <<input, charged>>
      /\ reason' = [reason EXCEPT ![r] = Category(Refusal(acc, a))]
      /\ Refusal(acc, a) # "none"
  <2>1. a.device = q.keyId
    BY DEF arg, Candidate
  <2> QED BY <2>1, SameAccount DEF ReserveRefuses, Refuse, Ledger!Refuse, Accepted
<1>2. reason'[r] = Category(Refusal(acc, a))
  BY <1>1 DEF SInv
<1>3. Evidence(r)
  BY <1>1 DEF IInv, ReservedHasEvidence
<1>4. q.keyId \in Devices /\ a.publicKeyPem = q.keyId
  BY <1>3, AppleAssumption DEF Evidence, Genuine
<1>5. a.mode = IF ByAttestation(q) THEN "attestation" ELSE "assertion"
  BY DEF arg, Candidate
<1>6. a.mode = "assertion" => Exists(acc)
  BY <1>1, <1>5 DEF SInv, AccountsLast
<1>7. Exists(acc) => acc.publicKeyPem = a.publicKeyPem
  BY <1>4 DEF IInv, AccountsAreGenuine
<1>8. CASE a.mode = "assertion" /\ Replayed(acc, a)
  <2>1. ~ByAttestation(q)
    BY <1>5, <1>8
  <2>2. a.signCount = q.assertion.authData.signCount
    BY <1>3, <2>1 DEF Evidence, arg, Candidate
  <2>3. a.signCount > 0 /\ a.signCount \in Nat /\ acc.signCount \in Nat
    <3>1. q.assertion # None
      BY <1>3, <2>1 DEF Evidence
    <3>2. q.assertion.authData.signCount \in Nat
      BY <3>1, WorkloadAssumption DEF IInv, Shape
    <3>3. q.assertion.authData.signCount > 0
      BY <2>1 DEF Proper, ProperAssertion
    <3> QED BY <1>4, <2>2, <3>2, <3>3 DEF IInv, Shape
  <2>4. Paid(q.keyId, acc.signCount) /\ a.signCount <= acc.signCount
    BY <1>4, <1>8, <2>3 DEF SInv, CountersEarned, Replayed
  <2>5. Paid(q.keyId, q.assertion.authData.signCount)
    <3>1. PICK s \in charged : /\ ~ByAttestation(input[s]) /\ input[s].keyId = q.keyId
                               /\ input[s].assertion.authData.signCount >= acc.signCount
      BY <2>4 DEF Paid
    <3>2. s \in Requests /\ input[s].assertion # None
      BY <3>1 DEF IInv, Shape, ReservedHasEvidence, Evidence
    <3>3. input[s].assertion.authData.signCount \in Nat
      BY <3>2, WorkloadAssumption DEF IInv, Shape
    <3>4. input[s].assertion.authData.signCount >= q.assertion.authData.signCount
      BY <2>2, <2>3, <2>4, <3>1, <3>3
    <3> QED BY <3>1, <3>4 DEF Paid
  <2>6. Paid(q.keyId, q.assertion.authData.signCount)'
    BY <1>1, <2>5 DEF Paid, ByAttestation
  <2>7. Refusal(acc, a) = "replayed_assertion"
    BY <1>6, <1>7, <1>8 DEF Refusal
  <2>8. reason'[r] = "counter"
    BY <1>2, <2>7 DEF Category
  <2> QED BY <1>1, <2>1, <2>6, <2>8 DEF Excused, ByAttestation
<1>9. CASE ~(a.mode = "assertion" /\ Replayed(acc, a))
  <2>1. Refusal(acc, a) \in {"expired_epoch", "quota_exceeded"}
    BY <1>1, <1>6, <1>7, <1>9 DEF Refusal
  <2>2. reason'[r] \in {"expired_epoch", "quota"}
    BY <1>2, <2>1 DEF Category
  <2> QED BY <2>2 DEF Excused
<1> QED BY <1>8, <1>9

LEMMA NextSInv == IInv /\ SInv /\ [Next]_vars => SInv'
<1> SUFFICES ASSUME IInv, SInv, [Next]_vars PROVE SInv'
  OBVIOUS
<1>0. input \in Workloads
  BY DEF IInv, Shape
<1>1. ASSUME NEW r \in Requests, ValidateAttestation(r) PROVE SInv'
  <2> DEFINE q == input[r]
  <2>1. /\ stage[r] = "new" /\ UNCHANGED <<ready, input, record, ledger>> /\ ByAttestation(q)
    BY <1>1 DEF ValidateAttestation
  <2>2. q.attestation.x5c \in Seq(Certs) /\ q.attestation.x5c # <<>>
    BY <1>0, <2>1, WorkloadAssumption DEF ByAttestation
  <2>3. CASE /\ Passes(AttestationChecks(q)) /\ reason' = reason
             /\ stage' = [stage EXCEPT ![r] = "reserve"]
    <3> DEFINE checks == AttestationChecks(q)
               zero == q.attestation.authData.signCount = 0
    <3>1. checks[9] = Check("counter", zero) /\ DOMAIN checks = 1 .. 9
      BY DEF AttestationChecks
    <3>2. zero
      <4>1. \A i \in DOMAIN checks : checks[i].holds
        BY <2>3 DEF Passes
      <4>2. zero \in BOOLEAN
        OBVIOUS
      <4> HIDE DEF checks, zero
      <4>3. checks[9].holds /\ checks[9].holds = zero
        BY <3>1, <4>1, CheckHolds
      <4> QED BY <4>2, <4>3
    <3>3. arg[r].signCount = 0
      BY <2>1, <3>2 DEF arg, Candidate
    <3>4. arg'[r].signCount = 0
      BY <2>1, <3>3, EvidenceStable
    <3> HIDE DEF checks, zero
    <3> QED BY <2>1, <2>3, <3>4, HandlerServed
  <2>4. CASE /\ ~(Passes(RequestChecks(q)) /\ Passes(AttestationChecks(q)))
             /\ Refuse(r, FirstFailure(RequestChecks(q) \o AttestationChecks(q)))
    <3>1. ~(ready /\ Proper(q))
      <4>1. \A x : /\ ready /\ Proper(x) => Passes(RequestChecks(x))
                   /\ /\ Proper(x) /\ ByAttestation(x)
                      /\ x.attestation.x5c \in Seq(Certs) /\ x.attestation.x5c # <<>>
                      => Passes(AttestationChecks(x))
        BY ProperPassesRequest, ProperPassesAttestation
      <4> HIDE DEF q
      <4> QED BY <2>1, <2>2, <2>4, <4>1
    <3> QED BY <2>1, <2>4, <3>1, HandlerServed DEF Refuse
  <2> QED BY <1>1, <2>3, <2>4 DEF ValidateAttestation
<1>2. ASSUME NEW r \in Requests, AskKey(r) PROVE SInv'
  <2>1. /\ stage[r] = "new" /\ UNCHANGED <<ready, input, record, ledger>>
        /\ ~ByAttestation(input[r])
    BY <1>2 DEF AskKey
  <2>2. CASE reason' = reason /\ stage' = [stage EXCEPT ![r] = "reading"]
    BY <2>1, <2>2, HandlerServed
  <2>3. CASE ~Passes(RequestChecks(input[r])) /\ Refuse(r, FirstFailure(RequestChecks(input[r])))
    <3>1. ~(ready /\ Proper(input[r]))
      <4>1. \A x : ready /\ Proper(x) => Passes(RequestChecks(x))
        BY ProperPassesRequest
      <4> QED BY <2>3, <4>1
    <3> QED BY <2>1, <2>3, <3>1, HandlerServed DEF Refuse
  <2> QED BY <1>2, <2>2, <2>3 DEF AskKey
<1>3. ASSUME NEW r \in Requests, StoreReads(r) PROVE SInv'
  <2>1. /\ stage[r] = "reading" /\ UNCHANGED <<ready, input, reason, ledger>>
        /\ stage' = [stage EXCEPT ![r] = "read"]
    BY <1>3 DEF StoreReads
  <2>2. /\ \A s \in Requests \ {r} : record'[s] = record[s]
        /\ record'[r] = IF input[r].keyId \in Devices THEN accounts[input[r].keyId]
                        ELSE NoAccount
    BY <1>3 DEF StoreReads, StoreKey, IInv, Shape
  <2>3. input[r].keyId \in Enrolled => Exists(record'[r])
    BY <2>2, EnrolledAssumption, AppleAssumption DEF SInv, AccountsLast
  <2> QED BY <2>1, <2>2, <2>3, HandlerServed
<1>4. ASSUME NEW r \in Requests, StoreFails(r) PROVE SInv'
  <2>1. /\ stage[r] = "reading" /\ UNCHANGED <<ready, input, record, ledger>>
        /\ stage' = [stage EXCEPT ![r] = "refused"]
        /\ reason' = [reason EXCEPT ![r] = "state_unavailable"]
    BY <1>4 DEF StoreFails, Refuse
  <2>2. Excused(r)'
    BY <2>1 DEF SInv, Excused
  <2> QED BY <2>1, <2>2, HandlerServed
<1>5. ASSUME NEW r \in Requests, ValidateAssertion(r) PROVE SInv'
  <2> DEFINE q == input[r]
             rec == record[r]
             checks == AssertionChecks(q, rec)
  <2>1. /\ stage[r] = "read" /\ UNCHANGED <<ready, input, record, ledger>>
        /\ ~ByAttestation(q) /\ q.assertion # None
    BY <1>5 DEF ValidateAssertion, IInv, AwaitsWithAssertion
  <2>2. q.assertion.signature \in Signatures \cup {None} /\ q.assertion.authData.signCount \in Nat
    BY <1>0, <2>1, WorkloadAssumption
  <2>3. CASE Passes(checks) /\ reason' = reason /\ stage' = [stage EXCEPT ![r] = "reserve"]
    <3>1. Exists(rec)
      <4>1. \A x, y : /\ x.assertion.signature \in Signatures \cup {None}
                      /\ Passes(AssertionChecks(x, y))
                      => Exists(y)
        BY AssertionEvidence
      <4> HIDE DEF q, rec
      <4> QED BY <2>2, <2>3, <4>1
    <3> HIDE DEF checks
    <3> QED BY <2>1, <2>3, <3>1, HandlerServed
  <2>4. CASE ~Passes(checks) /\ Refuse(r, FirstFailure(checks))
    <3>1. ready /\ Proper(q) => Excused(r)'
      <4> SUFFICES ASSUME Proper(q) PROVE Excused(r)'
        OBVIOUS
      <4>1. reason'[r] = FirstFailure(checks)
        BY <2>4 DEF Refuse, SInv
      <4>2. Exists(rec) => rec.publicKeyPem = q.keyId
        BY DEF IInv, RecordsAreGenuine
      <4>3. \/ FirstFailure(checks) = "unknown_device_key" /\ ~Exists(rec)
            \/ /\ FirstFailure(checks) = "counter"
               /\ ~(q.assertion.authData.signCount > rec.signCount)
        <5>1. \A x, y : /\ Proper(x) /\ ~ByAttestation(x)
                        /\ Exists(y) => y.publicKeyPem = x.keyId
                        /\ ~Passes(AssertionChecks(x, y))
                        => \/ FirstFailure(AssertionChecks(x, y)) = "unknown_device_key" /\ ~Exists(y)
                           \/ /\ FirstFailure(AssertionChecks(x, y)) = "counter"
                              /\ ~(x.assertion.authData.signCount > y.signCount)
          BY ProperAssertionFails
        <5> HIDE DEF q, rec
        <5> QED BY <2>1, <2>4, <4>2, <5>1
      <4> HIDE DEF checks
      <4>4. CASE FirstFailure(checks) = "unknown_device_key" /\ ~Exists(rec)
        <5>1. q.keyId \notin Enrolled
          BY <2>1, <4>4 DEF SInv, AccountsLast
        <5> QED BY <2>1, <4>1, <4>4, <5>1 DEF Excused, ByAttestation
      <4>5. CASE /\ FirstFailure(checks) = "counter"
                 /\ ~(q.assertion.authData.signCount > rec.signCount)
        <5>1. q.assertion.authData.signCount > 0
          BY <2>1 DEF Proper, ProperAssertion
        <5>2. /\ rec.signCount \in Nat /\ Paid(q.keyId, rec.signCount)
              /\ q.assertion.authData.signCount <= rec.signCount
          BY <2>2, <4>5, <5>1 DEF SInv, CountersEarned
        <5>3. PICK s \in charged : /\ ~ByAttestation(input[s]) /\ input[s].keyId = q.keyId
                                   /\ input[s].assertion.authData.signCount >= rec.signCount
          BY <5>2 DEF Paid
        <5>4. s \in Requests /\ input[s].assertion # None
          BY <5>3 DEF IInv, Shape, ReservedHasEvidence, Evidence
        <5>5. input[s].assertion.authData.signCount \in Nat
          BY <1>0, <5>4, WorkloadAssumption
        <5>6. input[s].assertion.authData.signCount >= q.assertion.authData.signCount
          BY <2>2, <5>2, <5>3, <5>5
        <5>7. Paid(q.keyId, q.assertion.authData.signCount)'
          BY <2>1, <5>3, <5>6 DEF Paid, ByAttestation, ledger
        <5> QED BY <2>1, <4>1, <4>5, <5>7 DEF Excused, ByAttestation
      <4> QED BY <4>3, <4>4, <4>5
    <3> HIDE DEF checks
    <3> QED BY <2>1, <2>4, <3>1, HandlerServed DEF Refuse
  <2> QED BY <1>5, <2>3, <2>4 DEF ValidateAssertion
<1>6. ASSUME NEW r \in Requests, LedgerCharges(r) PROVE SInv'
  BY <1>6, ChargeServed
<1>7. ASSUME NEW r \in Requests, ReserveGrants(r) PROVE SInv'
  <2>1. /\ stage[r] = "reserve" /\ stage' = [stage EXCEPT ![r] = "issued"]
        /\ UNCHANGED <<ready, input, record, reason, accounts, charged>>
        /\ answer' = [answer EXCEPT ![r] = "ok"]
    BY <1>7 DEF ReserveGrants, Ledger!Grant
  <2> QED BY <2>1, AnswerServed
<1>8. ASSUME NEW r \in Requests, ReserveRefuses(r) PROVE SInv'
  <2>1. PICK why, ans :
          /\ stage[r] = "reserve" /\ stage' = [stage EXCEPT ![r] = "refused"]
          /\ UNCHANGED <<ready, input, record, accounts, charged>>
          /\ reason' = [reason EXCEPT ![r] = why]
          /\ answer' = [answer EXCEPT ![r] = ans]
    BY <1>8 DEF ReserveRefuses, Refuse, Ledger!Refuse
  <2>2. Proper(input[r]) => Excused(r)'
    BY <1>8, RefusalExcused
  <2> QED BY <2>1, <2>2, AnswerServed
<1>9. ASSUME NEW r \in Requests, ReserveFails(r) PROVE SInv'
  <2>1. /\ stage[r] = "reserve" /\ stage' = [stage EXCEPT ![r] = "refused"]
        /\ UNCHANGED <<ready, input, record, accounts, charged>>
        /\ reason' = [reason EXCEPT ![r] = "state_unavailable"]
        /\ answer' = [answer EXCEPT ![r] = "unavailable"]
    BY <1>9 DEF ReserveFails, Refuse, Ledger!GiveUp
  <2>2. Excused(r)'
    BY <2>1 DEF SInv, Excused
  <2> QED BY <2>1, <2>2, AnswerServed
<1>10. CASE UNCHANGED vars
  <2>1. UNCHANGED <<ready, input, stage, record, reason, accounts, charged, answer>>
    BY <1>10 DEF vars, ledger
  <2>2. \A s \in Requests : arg'[s] = arg[s]
    BY <2>1, EvidenceStable
  <2>3. \A d, n : Paid(d, n)' <=> Paid(d, n)
    BY <2>1 DEF Paid, ByAttestation
  <2>4. AttestedAtZero' /\ CountersEarned' /\ AccountsLast'
    BY <2>1, <2>2, <2>3 DEF SInv, AttestedAtZero, CountersEarned, AccountsLast, AtLedger,
                            ByAttestation, Exists
  <2>5. \A s \in Requests : Excused(s) => Excused(s)'
    BY <2>1, ExcusedStays
  <2>6. \A s \in Requests : Proper(input[s])' => Proper(input[s])
    BY <2>1 DEF Proper, ByAttestation, ProperAttestation, ProperAssertion, Genuine
  <2> QED BY <2>1, <2>4, <2>5, <2>6 DEF SInv
<1> QED
  BY <1>1, <1>2, <1>3, <1>4, <1>5, <1>6, <1>7, <1>8, <1>9, <1>10 DEF Next

\* An unmodified client is never turned away for its proof, whatever the other
\* requests of its device do meanwhile: only for an outage, its quota or an old
\* epoch, for a device that had not attested before, or for a counter that the
\* device has already paid with (appattest.js 593-611, state-store.js 118-144).
THEOREM ProperIsServedTheorem == Spec => []ProperIsServed
<1>1. SInv => ProperIsServed
  BY DEF SInv, ProperIsServed, Excused, Paid
<1> QED BY <1>1, IInvInvariant, InitSInv, NextSInv, PTL DEF Spec
=============================================================================
