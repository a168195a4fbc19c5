-------------------------- MODULE TokenIssuerProofs --------------------------
(***************************************************************************)
(* Proofs about TokenIssuer, for any finite sets of requests, any devices, *)
(* keys, quota, number of epochs and configured key material, with and     *)
(* without the binding requirement.                                        *)
(***************************************************************************)
EXTENDS TokenIssuer, FiniteSetTheorems, TLAPS

\* The handlers trackWork counts.
Busy == {r \in All : stage[r] \in Working}

\* The signing key of a request is imported, and there is one.
KeyInHand(r) == imported = "ok" /\ material[signingEpochId[r]] # NoMaterial

\* It is the key of the epoch the client blinded for.
ForBoundEpoch(r) == RequireBinding => signingEpochId[r] = bound[r]

WorkInv ==
    /\ activeWork = Cardinality(Busy)
    /\ exit = "clean" => activeWork = 0

\* How far a request has come says what was settled before: the epoch before
\* the keys, the keys before the attestation and the ledger, the ledger before
\* the signatures.
Settled(r) ==
    /\ stage[r] \in {"new", "reading", "keys", "attest"} => r \notin charged /\ answer[r] = "none"
    /\ stage[r] \in {"keys", "attest", "reserve", "sign"} => ForBoundEpoch(r)
    /\ stage[r] \in {"attest", "reserve", "sign"} => KeyInHand(r)
    /\ stage[r] = "sign" => r \in charged
    /\ r \in charged \/ answer[r] = "unavailable" => KeyInHand(r)
    /\ signed[r] => r \in charged /\ ForBoundEpoch(r)

RequestInv == \A r \in Requests : Settled(r)

\* Keys are in use only after all of them were imported, and no request is of
\* an epoch to come.
KeyringInv ==
    /\ imported = "ok" => Importable
    /\ \A r \in All : epochId[r] <= epoch

\* The inductive invariant.
Inv == TypeOK /\ WorkInv /\ RequestInv /\ KeyringInv

-----------------------------------------------------------------------------
(* Counting the work.                                                      *)

LEMMA BusyFinite == IsFiniteSet(Busy) /\ Cardinality(Busy) \in Nat
<1>1. Busy \subseteq All /\ IsFiniteSet(All)
  BY RequestsAssumption, FS_Union DEF Busy, All
<1> QED BY <1>1, FS_Subset, FS_CardinalityType

\* trackWork counts a handler that starts ...
LEMMA StartCounts ==
    ASSUME TypeOK, WorkInv, NEW r \in All, stage[r] \notin Working,
           exit = "running", NEW to \in Working, StartWork(r, to)
    PROVE  WorkInv' /\ activeWork' \in Nat
<1>1. Busy' = Busy \cup {r} /\ r \notin Busy
  BY DEF TypeOK, StartWork, Busy
<1>2. Cardinality(Busy)' = Cardinality(Busy) + 1
  BY <1>1, BusyFinite, FS_AddElement
<1> QED BY <1>2, BusyFinite DEF StartWork, WorkInv

\* ... and one that ends, which may end the drain.
LEMMA EndCounts ==
    ASSUME TypeOK, WorkInv, NEW r \in All, stage[r] \in Working,
           exit = "running", EndWork(r)
    PROVE  WorkInv' /\ activeWork' \in Nat /\ exit' \in {"running", "clean"}
<1>1. Busy' = Busy \ {r} /\ r \in Busy
  BY DEF TypeOK, EndWork, Busy, Working
<1>2. Cardinality(Busy)' = Cardinality(Busy) - 1
  BY <1>1, BusyFinite, FS_RemoveElement
<1>3. Cardinality(Busy) \in Nat /\ Cardinality(Busy) # 0
  BY <1>1, BusyFinite, FS_EmptySet
<1> QED BY <1>2, <1>3 DEF EndWork, FinishDrain, WorkInv

\* A step that neither starts nor ends a handler leaves the count alone.
LEMMA SameCount ==
    ASSUME TypeOK, WorkInv, UNCHANGED <<activeWork, exit>>,
           \A r \in All : stage'[r] \in Working <=> stage[r] \in Working
    PROVE  WorkInv'
<1>1. Busy' = Busy
  BY DEF Busy
<1> QED BY <1>1 DEF WorkInv

-----------------------------------------------------------------------------
(* Types.                                                                  *)

LEMMA EpochTypes == epoch \in FirstEpoch .. MaxEpoch => epoch \in Epochs
BY FirstEpochAssumption, MaxEpochAssumption DEF Epochs

\* An accepted reservation leaves an account.
LEMMA ChargeType ==
    ASSUME NEW acc \in Account, NEW a \in Argument
    PROVE  Ledger!Charge(acc, a) \in Account
BY MaxEpochAssumption
   DEF Account, Argument, Ledger!Charge, Ledger!NextSignCount, Ledger!NextCounts,
       Ledger!LatestEpoch, Ledger!Larger, Ledger!KeptEpochs, Ledger!Epochs, Epochs

\* A reservation that is not accepted has a reason.
LEMMA RefusalType ==
    ASSUME NEW acc, NEW a, ~Ledger!Accepted(acc, a)
    PROVE  Ledger!Refusal(acc, a) \in Refusals
BY DEF Ledger!Accepted, Ledger!Refusal, Refusals

LEMMA InitInv == Init => Inv
<1> SUFFICES ASSUME Init PROVE Inv
  OBVIOUS
<1>1. TypeOK
  <2>1. epoch \in FirstEpoch .. MaxEpoch /\ FirstEpoch \in Epochs
    BY FirstEpochAssumption, MaxEpochAssumption DEF Init, Epochs
  <2>2. accounts \in [Devices -> Account]
    BY MaxEpochAssumption DEF Init, Account, NoAccount, Epochs
  <2>3. arg \in [Requests -> Argument]
    BY IssuerInputsAssumption DEF Init
  <2>4. explicit \in BOOLEAN /\ material \in [Epochs -> Material \cup {NoMaterial}]
    BY DEF Init, Configured
  <2> QED BY <2>1, <2>2, <2>3, <2>4 DEF Init, TypeOK
<1>2. WorkInv
  <2>1. Busy = {}
    BY DEF Init, Busy, Working
  <2> QED BY <2>1, FS_EmptySet DEF Init, WorkInv
<1>3. RequestInv
  BY DEF Init, RequestInv, Settled, All
<1>4. KeyringInv
  BY FirstEpochAssumption DEF Init, KeyringInv
<1> QED BY <1>1, <1>2, <1>3, <1>4 DEF Inv

-----------------------------------------------------------------------------
(* Every step keeps the invariant.                                         *)

LEMMA NextInv == Inv /\ [Next]_vars => Inv'
<1> SUFFICES ASSUME Inv, [Next]_vars PROVE Inv'
  OBVIOUS
<1> USE DEF Inv
<1>a. epoch \in Epochs /\ Requests \subseteq All /\ Publishers \subseteq All
  BY EpochTypes DEF TypeOK, All
<1>1. ASSUME NEW r \in Requests,
             RefuseEarly(r) \/ ReadBody(r) \/ RefuseBody(r) \/ HaveKey(r) \/ AttestAccepts(r)
      PROVE  Inv'
  <2> USE <1>1, <1>a
      DEF RefuseEarly, ReadBody, RefuseBody, HaveKey, AttestAccepts, KeyGranted,
          keyring, operator, asked, ledger, process
  <2>1. TypeOK'
    BY DEF TypeOK, Working
  <2>2. WorkInv'
    BY SameCount DEF TypeOK, Working
  <2>3. RequestInv'
    BY DEF TypeOK, RequestInv, Settled, KeyInHand, ForBoundEpoch
  <2>4. KeyringInv'
    BY DEF KeyringInv, Importable
  <2> QED BY <2>1, <2>2, <2>3, <2>4
<1>2. ASSUME NEW r \in Requests, HandleIssue(r) PROVE Inv'
  <2> USE <1>2, <1>a DEF HandleIssue, AskKeys, operator, asked
  <2>1. PICK e \in Bindings(r) : signingEpochId' = [signingEpochId EXCEPT ![r] = e]
    OBVIOUS
  <2>2. e \in Epochs /\ (RequireBinding => e = bound[r])
    BY <2>1, BindingAssumption DEF Bindings, TypeOK, Epochs
  <2>3. WorkInv' /\ activeWork' \in Nat
    BY StartCounts DEF Working
  <2>4. TypeOK'
    <3>1. arg' \in [Requests -> Argument]
      BY DEF TypeOK, Argument
    <3> QED BY <2>1, <2>2, <2>3, <3>1 DEF TypeOK, StartWork, Working
  <2>5. RequestInv'
    BY <2>1, <2>2 DEF TypeOK, StartWork, RequestInv, Settled, KeyInHand, ForBoundEpoch
  <2>6. KeyringInv'
    BY DEF TypeOK, KeyringInv, Importable, Epochs
  <2> QED BY <2>3, <2>4, <2>5, <2>6
<1>3. ASSUME NEW r \in Requests, NoKeyFails(r) \/ AttestRefuses(r) \/ Sign(r)
      PROVE  Inv'
  <2> USE <1>3, <1>a
      DEF NoKeyFails, AttestRefuses, Sign, keyring, operator, asked, ledger
  <2>1. WorkInv' /\ activeWork' \in Nat /\ exit' \in {"running", "clean"}
    BY EndCounts DEF Working
  <2>2. TypeOK'
    BY <2>1 DEF TypeOK, EndWork, Working
  <2>3. RequestInv'
    BY DEF TypeOK, EndWork, RequestInv, Settled, KeyInHand, ForBoundEpoch
  <2>4. KeyringInv'
    BY DEF KeyringInv, Importable
  <2> QED BY <2>1, <2>2, <2>3, <2>4
<1>4. ASSUME NEW r \in Requests, LedgerCharges(r) PROVE Inv'
  <2> USE <1>4, <1>a
      DEF LedgerCharges, Ledger!Reserve, keyring, operator, request, asked, process
  <2>1. TypeOK'
    <3>1. accounts' \in [Devices -> Account]
      <4>1. arg[r] \in Argument /\ arg[r].device \in Devices
        BY DEF TypeOK, Argument
      <4>2. accounts[arg[r].device] \in Account
        BY <4>1 DEF TypeOK
      <4>3. PICK acc \in Account, a \in Argument : acc = accounts[arg[r].device] /\ a = arg[r]
        BY <4>1, <4>2
      <4>4. Ledger!Charge(acc, a) \in Account
        BY ChargeType
      <4> QED BY <4>1, <4>3, <4>4 DEF TypeOK
    <3> QED BY <3>1 DEF TypeOK
  <2>2. WorkInv'
    BY SameCount
  <2>3. RequestInv'
    BY DEF TypeOK, RequestInv, Settled, KeyInHand, ForBoundEpoch
  <2>4. KeyringInv'
    BY DEF KeyringInv, Importable
  <2> QED BY <2>1, <2>2, <2>3, <2>4
<1>5. ASSUME NEW r \in Requests, ReserveGrants(r) PROVE Inv'
  <2> USE <1>5, <1>a
      DEF ReserveGrants, Ledger!Grant, keyring, operator, asked, process
  <2>1. TypeOK'
    BY DEF TypeOK, Working
  <2>2. WorkInv'
    BY SameCount DEF TypeOK, Working
  <2>3. RequestInv'
    BY DEF TypeOK, RequestInv, Settled, KeyInHand, ForBoundEpoch
  <2>4. KeyringInv'
    BY DEF KeyringInv, Importable
  <2> QED BY <2>1, <2>2, <2>3, <2>4
<1>6. ASSUME NEW r \in Requests, ReserveRefuses(r) PROVE Inv'
  <2> USE <1>6, <1>a DEF ReserveRefuses, keyring, operator, asked
  <2>1. PICK a \in {"unavailable"} \cup Refusals :
          answer' = [answer EXCEPT ![r] = a] /\ UNCHANGED <<accounts, arg, charged>>
    <3>1. PICK acc, a : acc = accounts[arg[r].device] /\ a = arg[r]
      OBVIOUS
    <3>2. CASE Ledger!Refuse(r)
      BY <3>1, <3>2, RefusalType DEF Ledger!Refuse
    <3>3. CASE Ledger!GiveUp(r)
      BY <3>3 DEF Ledger!GiveUp
    <3> QED BY <3>2, <3>3
  <2>2. WorkInv' /\ activeWork' \in Nat /\ exit' \in {"running", "clean"}
    BY EndCounts DEF Working
  <2>3. TypeOK'
    BY <2>1, <2>2 DEF TypeOK, EndWork, Working
  <2>4. RequestInv'
    BY <2>1 DEF TypeOK, EndWork, RequestInv, Settled, KeyInHand, ForBoundEpoch
  <2>5. KeyringInv'
    BY DEF KeyringInv, Importable
  <2> QED BY <2>2, <2>3, <2>4, <2>5
<1>7. ASSUME NEW p \in Publishers, HandleIssuerKeys(p) PROVE Inv'
  <2> USE <1>7, <1>a DEF HandleIssuerKeys, AskKeys, operator, asked, ledger
  <2>1. WorkInv' /\ activeWork' \in Nat
    BY StartCounts DEF Working
  <2>2. TypeOK'
    BY <2>1 DEF TypeOK, StartWork, Working
  <2>3. RequestInv'
    BY RequestsAssumption
       DEF TypeOK, StartWork, RequestInv, Settled, KeyInHand, ForBoundEpoch
  <2>4. KeyringInv'
    BY DEF TypeOK, KeyringInv, Importable, Epochs
  <2> QED BY <2>1, <2>2, <2>3, <2>4
<1>8. ASSUME NEW p \in Publishers, HaveCurrent(p) PROVE Inv'
  <2> USE <1>8, <1>a
      DEF HaveCurrent, keyring, operator, asked, ledger, process
  <2>1. TypeOK'
    BY DEF TypeOK, Working
  <2>2. WorkInv'
    BY SameCount DEF TypeOK, Working
  <2>3. RequestInv'
    BY RequestsAssumption DEF TypeOK, RequestInv, Settled, KeyInHand, ForBoundEpoch
  <2>4. KeyringInv'
    BY DEF KeyringInv, Importable
  <2> QED BY <2>1, <2>2, <2>3, <2>4
<1>9. ASSUME NEW p \in Publishers, Publish(p) \/ PublishFails(p) PROVE Inv'
  <2> USE <1>9, <1>a
      DEF Publish, PublishFails, keyring, operator, asked, ledger
  <2>1. WorkInv' /\ activeWork' \in Nat /\ exit' \in {"running", "clean"}
    BY EndCounts DEF Working
  <2>2. TypeOK'
    BY <2>1 DEF TypeOK, EndWork, Working
  <2>3. RequestInv'
    BY RequestsAssumption
       DEF TypeOK, EndWork, RequestInv, Settled, KeyInHand, ForBoundEpoch
  <2>4. KeyringInv'
    BY DEF KeyringInv, Importable
  <2> QED BY <2>1, <2>2, <2>3, <2>4
<1>10. ASSUME NEW r \in All, Hangup(r) PROVE Inv'
  <2> USE <1>10, <1>a DEF Hangup, keyring, operator, asked, ledger, process
  <2>1. TypeOK'
    BY DEF TypeOK, Working
  <2>2. WorkInv'
    BY SameCount DEF TypeOK, Working
  <2>3. RequestInv'
    BY DEF TypeOK, RequestInv, Settled, KeyInHand, ForBoundEpoch
  <2>4. KeyringInv'
    BY DEF KeyringInv, Importable
  <2> QED BY <2>1, <2>2, <2>3, <2>4
<1>11. CASE ImportEnds
  <2> USE <1>11 DEF ImportEnds, operator, request, asked, ledger, process
  <2>1. TypeOK'
    BY DEF TypeOK
  <2>2. WorkInv'
    BY SameCount
  <2>3. RequestInv'
    BY DEF RequestInv, Settled, KeyInHand, ForBoundEpoch
  <2>4. KeyringInv'
    BY DEF KeyringInv, Importable
  <2> QED BY <2>1, <2>2, <2>3, <2>4
<1>12. CASE NextEpoch
  <2> USE <1>12 DEF NextEpoch, keyring, operator, request, asked, ledger, process
  <2>1. TypeOK'
    BY FirstEpochAssumption, MaxEpochAssumption DEF TypeOK
  <2>2. WorkInv'
    BY SameCount
  <2>3. RequestInv'
    BY DEF RequestInv, Settled, KeyInHand, ForBoundEpoch
  <2>4. KeyringInv'
    BY <1>a DEF TypeOK, KeyringInv, Importable, Epochs
  <2> QED BY <2>1, <2>2, <2>3, <2>4
<1>13. CASE BeginShutdown \/ HttpClosed \/ ForceExit
  <2> USE <1>13 DEF BeginShutdown, HttpClosed, ForceExit, FinishDrain, keyring,
                    operator, request, asked, ledger
  <2>1. TypeOK'
    BY DEF TypeOK
  <2>2. WorkInv'
    <3>1. Busy' = Busy
      BY DEF Busy
    <3> QED BY <3>1 DEF WorkInv
  <2>3. RequestInv'
    BY DEF RequestInv, Settled, KeyInHand, ForBoundEpoch
  <2>4. KeyringInv'
    BY DEF KeyringInv, Importable
  <2> QED BY <2>1, <2>2, <2>3, <2>4
<1>14. CASE UNCHANGED vars
  <2> USE <1>14 DEF vars, keyring, operator, request, asked, ledger, process
  <2>1. TypeOK'
    BY DEF TypeOK
  <2>2. WorkInv'
    BY SameCount
  <2>3. RequestInv' /\ KeyringInv'
    BY DEF RequestInv, Settled, KeyInHand, ForBoundEpoch, KeyringInv, Importable
  <2> QED BY <2>1, <2>2, <2>3
<1> QED
  BY <1>1, <1>2, <1>3, <1>4, <1>5, <1>6, <1>7, <1>8, <1>9, <1>10, <1>11, <1>12,
     <1>13, <1>14 DEF Next, Issue, PublishKeys

\* The inductive invariant holds of every process of the issuer.
THEOREM InvHolds == Spec => []Inv
BY InitInv, NextInv, PTL DEF Spec

\* activeWork counts the handlers under way, no more and no fewer, and a process
\* that leaves by itself leaves none behind, for any number of requests
\* (server.js 430-442).
THEOREM CleanExitTheorem == Spec => []CleanExitIsIdle
<1>1. Inv => CleanExitIsIdle
  <2> SUFFICES ASSUME Inv PROVE CleanExitIsIdle
    OBVIOUS
  <2>1. Cardinality(Busy) = 0 => Busy = {}
    BY BusyFinite, FS_EmptySet
  <2> QED BY <2>1 DEF Inv, WorkInv, CleanExitIsIdle, Busy
<1> QED BY <1>1, InvHolds, PTL

\* Whatever awaits the rollover of the epoch falls between: what is signed was
\* charged, for the epoch the client blinded for and with a key of that epoch
\* alone, and only a request whose key is in hand is charged (262-341).
THEOREM IssuanceTheorem == Spec => []IssuanceIsSound
<1>1. Inv => IssuanceIsSound
  <2> SUFFICES ASSUME Inv PROVE IssuanceIsSound
    OBVIOUS
  <2>1. SignedIsCharged /\ ChargedHasKey /\ SignedForBoundEpoch
    BY DEF Inv, TypeOK, RequestInv, Settled, KeyInHand, ForBoundEpoch, SignedIsCharged,
           ChargedHasKey, SignedForBoundEpoch
  <2>2. KeysExpire
    BY DEF Inv, TypeOK, RequestInv, Settled, KeyInHand, KeyringInv, Importable, KeysExpire
  <2> QED BY <2>1, <2>2 DEF IssuanceIsSound
<1> QED BY <1>1, InvHolds, PTL

\* Keys are published only in the epoch they are published for, however long the
\* two lookups take (365-377).
THEOREM PublicationTheorem == Spec => PublicationIsCurrent
<1>1. ASSUME Inv, [Next]_vars
      PROVE  [\A p \in Publishers : published'[p] # published[p] => published'[p] = epoch]_vars
  <2> SUFFICES ASSUME NEW p \in Publishers, published'[p] # published[p]
               PROVE  published'[p] = epoch
    OBVIOUS
  <2>1. \E q \in Publishers : Publish(q)
    BY <1>1 DEF Next, Issue, PublishKeys, RefuseEarly, ReadBody, RefuseBody, HandleIssue,
       HaveKey, NoKeyFails, AttestAccepts, AttestRefuses, ReserveGrants, ReserveRefuses,
       Sign, LedgerCharges, HandleIssuerKeys, HaveCurrent, PublishFails, Hangup, ImportEnds,
       NextEpoch, BeginShutdown, HttpClosed, ForceExit, vars
  <2>2. PICK q \in Publishers : Publish(q)
    BY <2>1
  <2>3. p = q /\ published'[p] = epochId[p]
    BY <1>1, <2>2 DEF Inv, TypeOK, Publish
  <2>4. epochId[p] - 1 \in {epoch, epoch - 1} /\ epochId[p] <= epoch
    BY <1>1, <2>2, <2>3 DEF Inv, KeyringInv, Publish, KeyGranted, IsLive, All
  <2>5. epochId[p] \in Int /\ epoch \in Int
    BY <1>1, MaxEpochAssumption, FirstEpochAssumption DEF Inv, TypeOK, Epochs, All
  <2> QED BY <2>3, <2>4, <2>5
<1> QED BY <1>1, InvHolds, PTL DEF Spec, PublicationIsCurrent
=============================================================================
