------------------------ MODULE RedemptionStoreProofs ------------------------
(***************************************************************************)
(* Proofs about RedemptionStore, for any sets of calls, tokens and relay   *)
(* processes.                                                              *)
(***************************************************************************)
EXTENDS RedemptionStore, TLAPS

\* An insert Azure has applied is the one recorded in the table.
AppliedIsRecorded == \A c \in Claims : wire[c] = "created" => table[token[c]] = c

\* An admission is durable: the row of the token names the admitted claim, so
\* a crash or a restart can never let the token be spent again (37-38, 43-44).
AdmissionIsRecorded ==
    \A c \in Claims : pc[c] = "admitted" => table[token[c]] = c

\* No call waits on a createTable promise that was dropped (34-36).
NoWaiterStranded ==
    \A c \in Claims : pc[c] = "init" => ready[relay[c]] # "unset"

\* The inductive invariant: a call is admitted on the strength of an
\* acknowledgment (AppliedIsRecorded) or of the row it read back.
Inv ==
    /\ StoreTypeOK
    /\ AppliedIsRecorded
    /\ AdmissionIsRecorded
    /\ RefusedOnlyIfTaken
    /\ NoWaiterStranded

\* The initial states of the store satisfy the inductive invariant.
LEMMA InitInv == StoreInit => Inv
  BY DEF StoreInit, Inv, StoreTypeOK, AppliedIsRecorded, AdmissionIsRecorded,
         RefusedOnlyIfTaken, NoWaiterStranded, Waiting, Verdicts

\* Every step of a call, of createTable, of Azure and every crash preserves it.
LEMMA NextInv == Inv /\ [StoreNext]_storeVars => Inv'
<1> SUFFICES ASSUME Inv, [StoreNext]_storeVars PROVE Inv'
  OBVIOUS
<1> USE NoClaimAssumption
<1> USE DEF Inv, StoreTypeOK, AppliedIsRecorded, AdmissionIsRecorded,
            RefusedOnlyIfTaken, NoWaiterStranded, Waiting, Verdicts
<1>1. ASSUME NEW c \in Claims, Redeem(c) PROVE Inv'
  BY <1>1 DEF Redeem
<1>2. ASSUME NEW c \in Claims, SendCreate(c) PROVE Inv'
  BY <1>2 DEF SendCreate
<1>3. ASSUME NEW c \in Claims, DeadlineBeforeCreate(c) PROVE Inv'
  BY <1>3 DEF DeadlineBeforeCreate
<1>4. ASSUME NEW c \in Claims, CreateAcked(c) PROVE Inv'
  BY <1>4 DEF CreateAcked
<1>5. ASSUME NEW c \in Claims, CreateFailed(c) PROVE Inv'
  BY <1>5 DEF CreateFailed
<1>6. ASSUME NEW c \in Claims, ReadBack(c) PROVE Inv'
  BY <1>6 DEF ReadBack, Verdict
<1>7. ASSUME NEW c \in Claims, ReadBackFailed(c) PROVE Inv'
  BY <1>7 DEF ReadBackFailed
<1>8. ASSUME NEW c \in Claims, CreateEntity(c) PROVE Inv'
  <2>1. CASE table[token[c]] = NoClaim
    BY <1>8, <2>1 DEF CreateEntity
  <2>2. CASE table[token[c]] # NoClaim
    BY <1>8, <2>2 DEF CreateEntity
  <2> QED BY <2>1, <2>2
<1>9. ASSUME NEW r \in Relays, TableReady(r) PROVE Inv'
  BY <1>9 DEF TableReady
<1>10. ASSUME NEW r \in Relays, TableFailed(r) PROVE Inv'
  BY <1>10 DEF TableFailed
<1>11. ASSUME NEW r \in Relays, Crash(r) PROVE Inv'
  BY <1>11 DEF Crash
<1>12. CASE UNCHANGED storeVars
  BY <1>12 DEF storeVars
<1> QED
  BY <1>1, <1>2, <1>3, <1>4, <1>5, <1>6, <1>7, <1>8, <1>9, <1>10, <1>11, <1>12
     DEF StoreNext, CallStep

\* Inv holds in every reachable state of the store.
THEOREM InvHolds == StoreSpec => []Inv
  BY InitInv, NextInv, PTL DEF StoreSpec

\* Type correctness of the redemption store.
THEOREM TypeCorrect == StoreSpec => []StoreTypeOK
<1>1. Inv => StoreTypeOK BY DEF Inv
<1> QED BY <1>1, InvHolds, PTL

\* A token admits at most one request over all relay processes, whatever the
\* network and the processes do (azureRedemptionStore.redeem).
THEOREM SpendOnceHolds == StoreSpec => []SpentAtMostOnce
<1>1. Inv => SpentAtMostOnce
  BY DEF Inv, AdmissionIsRecorded, SpentAtMostOnce
<1> QED BY <1>1, InvHolds, PTL

\* A call answers "spent" only when the row belongs to another claim.
THEOREM RefusalIsJust == StoreSpec => []RefusedOnlyIfTaken
<1>1. Inv => RefusedOnlyIfTaken BY DEF Inv
<1> QED BY <1>1, InvHolds, PTL
-----------------------------------------------------------------------------
(* Refinement: the protocol implements the atomic store SpendOnce.         *)

\* The initial states of the protocol map to initial states of SpendOnce.
LEMMA InitRefines == StoreInit => Abstract!Init
  BY DEF StoreInit, Abstract!Init, Answer, Verdicts

\* Every step maps to a step of SpendOnce or to a stutter.
LEMMA StepRefines == Inv /\ [StoreNext]_storeVars => [Abstract!Next]_Abstract!vars
<1> SUFFICES ASSUME Inv, [StoreNext]_storeVars
             PROVE Abstract!Next \/ UNCHANGED <<table, token, Answer>>
  BY DEF Abstract!vars
<1> USE DEF Inv, StoreTypeOK, Answer, Waiting, Verdicts
<1>1. ASSUME NEW c \in Claims, Redeem(c) PROVE UNCHANGED <<table, token, Answer>>
  BY <1>1 DEF Redeem
<1>2. ASSUME NEW c \in Claims, SendCreate(c) \/ CreateFailed(c)
      PROVE UNCHANGED <<table, token, Answer>>
  BY <1>2 DEF SendCreate, CreateFailed
<1>3. ASSUME NEW c \in Claims, DeadlineBeforeCreate(c) \/ ReadBackFailed(c)
      PROVE Abstract!GiveUp({c})
  BY <1>3 DEF DeadlineBeforeCreate, ReadBackFailed, Abstract!GiveUp
<1>4. ASSUME NEW c \in Claims, CreateAcked(c) PROVE Abstract!Admit(c)
  BY <1>4 DEF CreateAcked, Abstract!Admit, AppliedIsRecorded
<1>5. ASSUME NEW c \in Claims, ReadBack(c)
      PROVE Abstract!Admit(c) \/ Abstract!Refuse(c)
  BY <1>5 DEF ReadBack, Verdict, Abstract!Admit, Abstract!Refuse
<1>6. ASSUME NEW c \in Claims, CreateEntity(c)
      PROVE Abstract!Take(c) \/ UNCHANGED <<table, token, Answer>>
  BY <1>6 DEF CreateEntity, Abstract!Take
<1>7. ASSUME NEW r \in Relays, TableReady(r)
      PROVE UNCHANGED <<table, token, Answer>>
  BY <1>7 DEF TableReady
<1>8. ASSUME NEW r \in Relays, TableFailed(r)
      PROVE Abstract!GiveUp({c \in Claims : pc[c] = "init" /\ relay[c] = r})
  BY <1>8 DEF TableFailed, Abstract!GiveUp
<1>9. ASSUME NEW r \in Relays, Crash(r) PROVE UNCHANGED <<table, token, Answer>>
  BY <1>9 DEF Crash
<1>10. CASE UNCHANGED storeVars
  BY <1>10 DEF storeVars
<1>11. \A c \in Claims : {c} \in SUBSET Claims
  OBVIOUS
<1>12. \A r \in Relays : {c \in Claims : pc[c] = "init" /\ relay[c] = r} \in SUBSET Claims
  OBVIOUS
<1> HIDE DEF Inv, StoreTypeOK, Answer, Waiting, Verdicts
<1>13. CASE StoreNext
  <2>1. CASE \E c \in Claims : Redeem(c) \/ CallStep(c) \/ CreateEntity(c)
    BY <2>1, <1>1, <1>2, <1>3, <1>4, <1>5, <1>6, <1>11 DEF CallStep, Abstract!Next
  <2>2. CASE \E r \in Relays : TableReady(r) \/ TableFailed(r) \/ Crash(r)
    BY <2>2, <1>7, <1>8, <1>9, <1>12 DEF Abstract!Next
  <2> QED BY <1>13, <2>1, <2>2 DEF StoreNext
<1> QED BY <1>10, <1>13

\* The insert and read-back protocol implements the atomic spend-once store.
THEOREM Refinement == StoreSpec => ImplementsSpendOnce
  BY InvHolds, InitRefines, StepRefines, PTL
     DEF StoreSpec, ImplementsSpendOnce, Abstract!Spec
=============================================================================
