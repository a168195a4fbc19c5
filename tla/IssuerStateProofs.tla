-------------------------- MODULE IssuerStateProofs --------------------------
(***************************************************************************)
(* Proofs about IssuerState, for any devices, keys, calls, arguments,      *)
(* quota, number of epochs and number of attempts, and for both backends,  *)
(* and about the replicas that share its table, IssuerReplicas, for any    *)
(* number of replicas, calls and salts.                                    *)
(***************************************************************************)
EXTENDS IssuerReplicas, TLAPS

(* ---------------- What the decision of reserve guarantees -------------- *)

\* The account an accepted reservation writes is an account.
LEMMA ChargeType ==
  ASSUME NEW acc \in Account, NEW a \in Argument
  PROVE  Charge(acc, a) \in Account
  BY MaxEpochAssumption
     DEF Account, Argument, Charge, NextSignCount, NextCounts, LatestEpoch, Larger,
         KeptEpochs, Epochs

\* The greatest epoch seen never goes back and includes the request's.
LEMMA LatestEpochGrows ==
  ASSUME NEW acc \in Account, NEW a \in Argument
  PROVE  /\ LatestEpoch(acc, a) \in Epochs
         /\ LatestEpoch(acc, a) >= acc.latestEpoch
         /\ LatestEpoch(acc, a) >= a.epoch
  BY MaxEpochAssumption DEF Account, Argument, LatestEpoch, Larger, Epochs

\* What an accepted reservation has passed (state-store.js 125-134).
LEMMA AcceptedMeans ==
  ASSUME NEW acc \in Account, NEW a \in Argument, Accepted(acc, a)
  PROVE  /\ Exists(acc) => acc.publicKeyPem = a.publicKeyPem
         /\ a.mode = "assertion" => a.signCount > acc.signCount
         /\ a.epoch >= LatestEpoch(acc, a) - 1
         /\ Quota > 0 => acc.quota[a.epoch] + a.count <= Quota
<1>1. LatestEpoch(acc, a) \in Int
  BY LatestEpochGrows, MaxEpochAssumption DEF Epochs
<1>2. acc.quota[a.epoch] \in Nat /\ a.count \in Nat /\ a.epoch \in Int
  BY MaxEpochAssumption DEF Account, Argument, Epochs
<1> QED
  BY <1>1, <1>2, QuotaAssumption DEF Accepted, Refusal, Replayed, Account, Argument

\* What the written account holds (135-140).
LEMMA ChargeMeans ==
  ASSUME NEW acc \in Account, NEW a \in Argument
  PROVE  /\ Charge(acc, a).publicKeyPem = a.publicKeyPem
         /\ Charge(acc, a).signCount >= acc.signCount
         /\ Charge(acc, a).signCount >= a.signCount
         /\ Charge(acc, a).latestEpoch = LatestEpoch(acc, a)
         /\ Charge(acc, a).quota = NextCounts(acc, a)
         /\ Exists(Charge(acc, a))
  BY NoKeyAssumption DEF Account, Argument, Charge, NextSignCount, Larger, Exists

\* `checked` accepts the written account if the reservation was accepted.
LEMMA ChargeReadable ==
  ASSUME NEW acc \in Account, NEW a \in Argument, Accepted(acc, a)
  PROVE  Readable(Charge(acc, a))
<1>1. a.epoch >= LatestEpoch(acc, a) - 1 /\ a.epoch \in Epochs
  BY AcceptedMeans DEF Argument
<1>2. LatestEpoch(acc, a) >= a.epoch /\ LatestEpoch(acc, a) \in Epochs
  BY LatestEpochGrows
<1>3. a.epoch \in KeptEpochs(LatestEpoch(acc, a))
  BY <1>1, <1>2, MaxEpochAssumption DEF KeptEpochs, Epochs
<1>4. SUFFICES ASSUME NEW e \in Epochs, e \notin KeptEpochs(LatestEpoch(acc, a))
               PROVE  NextCounts(acc, a)[e] = 0
  BY <1>4, ChargeMeans DEF Readable
<1> QED BY <1>3, <1>4 DEF NextCounts

(* ------------------------- The inductive invariant --------------------- *)

\* A write on the wire was decided on the row it will replace, if any: while
\* the ETag is the one that was read, so is the row.
WritesAreDecided ==
    \A r \in Requests : wire[r] = "sent" =>
        /\ prior[r].etag <= RowOf(r).etag
        /\ prior[r].etag = RowOf(r).etag => prior[r] = RowOf(r)
        /\ Accepted(prior[r].account, arg[r])

\* A call is charged exactly when its write was applied, and a row names a
\* call only if its write was applied.
CommitsAreApplied ==
    /\ \A r \in Requests : commits[r] = IF wire[r] = "committed" THEN 1 ELSE 0
    /\ \A d \in Devices, r \in Requests :
            rows[d].commitID = r => wire[r] = "committed"

\* What a call knows of its write: no write is undecided when an attempt
\* starts, when a call is refused, or after a definite conflict.
CallsKnowTheirWrites ==
    \A r \in Requests :
        /\ pc[r] \in {"idle", "get"} \cup Refusals => wire[r] \in {"none", "conflict"}
        /\ pc[r] = "ok" => wire[r] = "committed"
        /\ pc[r] = "put" /\ backend = "memory" => wire[r] = "sent"
        /\ pc[r] = "readback" /\ conflict[r] => wire[r] = "conflict"

\* The counts of the two epochs a row keeps are what was really charged.
RowsCountCharges ==
    \A d \in Devices, e \in Epochs :
        e >= rows[d].account.latestEpoch - 1 => rows[d].account.quota[e] = charged[d][e]

\* The counter of a row bounds the counters of all assertions charged.
RowsBoundCounters ==
    \A r \in Requests : commits[r] > 0 /\ arg[r].mode = "assertion"
        => RowOf(r).account.signCount >= arg[r].signCount

\* What a call has lost was paid for before the row it read, and what it is
\* about to lose by a change since: the last conflict included.
AttemptsArePaid ==
    \A r \in Requests :
        /\ pc[r] = "idle" => lost[r] = 0
        /\ wire[r] = "sent" => began[r] + lost[r] <= prior[r].etag
        /\ wire[r] = "conflict" /\ pc[r] \in {"put", "readback"}
              => began[r] + lost[r] + 1 <= RowOf(r).etag

Inv ==
    /\ TypeOK
    /\ WritesAreDecided
    /\ CommitsAreApplied
    /\ CallsKnowTheirWrites
    /\ RowsCountCharges
    /\ RowsBoundCounters
    /\ AttemptsArePaid
    /\ QuotaHolds
    /\ CounterUsedOnce
    /\ RowsStayReadable
    /\ ConflictsMeanProgress

\* The empty store satisfies the inductive invariant.
LEMMA InitInv == Init => Inv
<1> SUFFICES ASSUME Init PROVE Inv
  OBVIOUS
<1>1. NoAccount \in Account
  BY MaxEpochAssumption DEF NoAccount, Account, Epochs
<1>2. NoRow \in Row
  BY <1>1 DEF NoRow, Row
<1>3. arg \in [Requests -> Argument]
  BY InputsAssumption DEF Init
<1>4. TypeOK
  BY <1>2, <1>3, AttemptsAssumption DEF Init, TypeOK
<1>5. \A r \in Requests : RowOf(r) = NoRow
  BY <1>3 DEF Init, RowOf, Argument
<1>6. WritesAreDecided /\ CommitsAreApplied /\ CallsKnowTheirWrites
  BY NoCommitAssumption
     DEF Init, WritesAreDecided, CommitsAreApplied, CallsKnowTheirWrites, NoRow, Refusals
<1>7. RowsCountCharges /\ RowsBoundCounters /\ AttemptsArePaid /\ ConflictsMeanProgress
  BY <1>5 DEF Init, RowsCountCharges, RowsBoundCounters, AttemptsArePaid,
              ConflictsMeanProgress, NoRow, NoAccount
<1>8. QuotaHolds /\ CounterUsedOnce /\ RowsStayReadable
  BY QuotaAssumption
     DEF Init, QuotaHolds, CounterUsedOnce, RowsStayReadable, Readable, NoRow, NoAccount
<1> QED BY <1>4, <1>6, <1>7, <1>8 DEF Inv

\* A write that is applied preserves what the invariant says of the table
\* and of the history, whoever applies it.
LEMMA ApplyInv ==
  ASSUME Inv, NEW r \in Requests, wire[r] = "sent", Matches(r), Apply(r),
         arg' = arg, began' = began, lost' = lost, prior' = prior
  PROVE  /\ rows' \in [Devices -> Row]
         /\ wire' \in [Requests -> {"none", "sent", "committed", "conflict"}]
         /\ commits' \in [Requests -> Nat]
         /\ charged' \in [Devices -> [Epochs -> Nat]]
         /\ WritesAreDecided' /\ CommitsAreApplied' /\ RowsCountCharges'
         /\ RowsBoundCounters' /\ QuotaHolds' /\ CounterUsedOnce'
         /\ RowsStayReadable' /\ ConflictsMeanProgress'
         /\ rows'[arg[r].device].etag = rows[arg[r].device].etag + 1
<1> DEFINE d == arg[r].device
           a == arg[r]
           acc == rows[d].account
           new == Charge(acc, a)
<1>1. /\ d \in Devices /\ a \in Argument /\ acc \in Account
      /\ rows[d] \in Row /\ a.epoch \in Epochs /\ a.count \in Nat
  BY DEF Inv, TypeOK, Row, Argument
<1>2. prior[r] = rows[d] /\ Accepted(acc, a)
  BY DEF Inv, WritesAreDecided, Matches, RowOf
<1>3. new \in Account
  BY <1>1, ChargeType
<1>4. rows' = [rows EXCEPT ![d] = [etag |-> rows[d].etag + 1, commitID |-> r, account |-> new]]
  BY <1>2 DEF Apply
<1>5. /\ wire' = [wire EXCEPT ![r] = "committed"]
      /\ commits' = [commits EXCEPT ![r] = @ + 1]
      /\ charged' = [charged EXCEPT ![d][a.epoch] = @ + a.count]
  BY DEF Apply
<1>6. rows' \in [Devices -> Row]
  BY <1>1, <1>3, <1>4 DEF Inv, TypeOK, Row
<1>7. /\ wire' \in [Requests -> {"none", "sent", "committed", "conflict"}]
      /\ commits' \in [Requests -> Nat]
      /\ charged' \in [Devices -> [Epochs -> Nat]]
  BY <1>1, <1>5 DEF Inv, TypeOK
<1>8. /\ rows'[d].etag = rows[d].etag + 1 /\ rows'[d].commitID = r /\ rows'[d].account = new
      /\ \A x \in Devices : x # d => rows'[x] = rows[x]
  BY <1>1, <1>4 DEF Inv, TypeOK
<1>9. /\ \A x \in Devices, e \in Epochs : charged'[x][e] =
             IF x = d /\ e = a.epoch THEN charged[x][e] + a.count ELSE charged[x][e]
  BY <1>1, <1>5 DEF Inv, TypeOK
<1>10. /\ commits[r] = 0 /\ commits'[r] = 1 /\ wire'[r] = "committed"
       /\ \A q \in Requests : q # r => commits'[q] = commits[q] /\ wire'[q] = wire[q]
  BY <1>5 DEF Inv, TypeOK, CommitsAreApplied
<1>11. \A q \in Requests : arg[q].device \in Devices /\ rows[arg[q].device] \in Row
  BY DEF Inv, TypeOK, Argument
<1>12. WritesAreDecided'
  <2> SUFFICES ASSUME NEW q \in Requests, wire'[q] = "sent"
               PROVE  /\ prior[q].etag <= rows'[arg[q].device].etag
                      /\ prior[q].etag = rows'[arg[q].device].etag
                            => prior[q] = rows'[arg[q].device]
                      /\ Accepted(prior[q].account, arg[q])
    BY DEF WritesAreDecided, RowOf
  <2>1. q # r /\ wire[q] = "sent"
    BY <1>10
  <2>2. /\ prior[q].etag <= rows[arg[q].device].etag
        /\ prior[q].etag = rows[arg[q].device].etag => prior[q] = rows[arg[q].device]
        /\ Accepted(prior[q].account, arg[q])
    BY <2>1 DEF Inv, WritesAreDecided, RowOf
  <2>3. prior[q].etag \in Nat /\ rows[arg[q].device].etag \in Nat
    BY <1>11 DEF Inv, TypeOK, Row
  <2>4. CASE arg[q].device = d
    BY <2>2, <2>3, <2>4, <1>8
  <2>5. CASE arg[q].device # d
    BY <2>2, <2>5, <1>8, <1>11
  <2> QED BY <2>4, <2>5
<1>13. CommitsAreApplied'
  BY <1>8, <1>10 DEF Inv, CommitsAreApplied
<1>14. LatestEpoch(acc, a) >= acc.latestEpoch /\ LatestEpoch(acc, a) \in Epochs
       /\ a.epoch >= LatestEpoch(acc, a) - 1
  BY <1>1, <1>2, LatestEpochGrows, AcceptedMeans
<1>15. RowsCountCharges'
  <2> SUFFICES ASSUME NEW x \in Devices, NEW e \in Epochs,
                      e >= rows'[x].account.latestEpoch - 1
               PROVE  rows'[x].account.quota[e] = charged'[x][e]
    BY DEF RowsCountCharges
  <2>1. CASE x # d
    BY <2>1, <1>8, <1>9 DEF Inv, RowsCountCharges
  <2>2. CASE x = d
    <3>1. new.latestEpoch = LatestEpoch(acc, a) /\ new.quota = NextCounts(acc, a)
      BY <1>1, ChargeMeans
    <3>2. acc.latestEpoch \in Int /\ e \in Int /\ a.epoch \in Int /\ LatestEpoch(acc, a) \in Int
      <4>1. acc.latestEpoch \in Int
        BY <1>1, MaxEpochAssumption DEF Account, Epochs
      <4>2. Epochs \subseteq Int
        BY MaxEpochAssumption DEF Epochs
      <4> QED BY <4>1, <4>2, <1>1, <1>14
    <3>3. e >= acc.latestEpoch - 1 /\ e >= LatestEpoch(acc, a) - 1
      BY <2>2, <3>1, <3>2, <1>8, <1>14
    <3>4. acc.quota[e] = charged[d][e]
      BY <3>3, <2>2 DEF Inv, RowsCountCharges
    <3>5. CASE e = a.epoch
      BY <3>1, <3>4, <3>5, <2>2, <1>8, <1>9 DEF NextCounts
    <3>6. CASE e # a.epoch /\ e \in KeptEpochs(LatestEpoch(acc, a))
      BY <3>1, <3>4, <3>6, <2>2, <1>8, <1>9 DEF NextCounts
    <3>7. CASE e # a.epoch /\ e \notin KeptEpochs(LatestEpoch(acc, a))
      <4>1. e > LatestEpoch(acc, a)
        BY <3>2, <3>3, <3>7 DEF KeptEpochs
      <4>2. e \notin KeptEpochs(acc.latestEpoch)
        BY <4>1, <3>2, <1>14 DEF KeptEpochs
      <4>3. acc.quota[e] = 0
        BY <4>2, <1>1 DEF Inv, RowsStayReadable, Readable, Account
      <4> QED BY <4>3, <3>1, <3>4, <3>7, <2>2, <1>8, <1>9 DEF NextCounts
    <3> QED BY <3>5, <3>6, <3>7
  <2> QED BY <2>1, <2>2
<1>16. RowsStayReadable'
  BY <1>1, <1>2, <1>8, ChargeReadable DEF Inv, RowsStayReadable
<1>17. new.signCount >= acc.signCount /\ new.signCount >= a.signCount
       /\ new.signCount \in Nat /\ acc.signCount \in Nat /\ a.signCount \in Nat
  BY <1>1, <1>3, ChargeMeans DEF Account, Argument
<1>18. RowsBoundCounters'
  <2> SUFFICES ASSUME NEW q \in Requests, commits'[q] > 0, arg[q].mode = "assertion"
               PROVE  rows'[arg[q].device].account.signCount >= arg[q].signCount
    BY DEF RowsBoundCounters, RowOf
  <2>1. CASE q = r
    BY <2>1, <1>8, <1>17
  <2>2. CASE q # r
    <3>1. rows[arg[q].device].account.signCount >= arg[q].signCount
      BY <2>2, <1>10 DEF Inv, RowsBoundCounters, RowOf
    <3>2. rows[arg[q].device].account.signCount \in Nat /\ arg[q].signCount \in Nat
      BY <1>11 DEF Inv, TypeOK, Row, Account, Argument
    <3>3. CASE arg[q].device = d
      BY <3>1, <3>2, <3>3, <1>8, <1>17
    <3>4. CASE arg[q].device # d
      BY <3>1, <3>4, <1>8, <1>11
    <3> QED BY <3>3, <3>4
  <2> QED BY <2>1, <2>2
<1>19. CounterUsedOnce'
  <2>1. ASSUME NEW q \in Requests, q # r, commits[q] > 0, arg[q].mode = "assertion",
               a.mode = "assertion", arg[q].device = d
        PROVE  arg[q].signCount # a.signCount
    <3>1. acc.signCount >= arg[q].signCount /\ arg[q].signCount \in Nat
      BY <2>1 DEF Inv, TypeOK, RowsBoundCounters, RowOf, Argument
    <3>2. a.signCount > acc.signCount
      BY <2>1, <1>1, <1>2, AcceptedMeans
    <3> QED BY <3>1, <3>2, <1>17
  <2> QED BY <2>1, <1>10 DEF Inv, CounterUsedOnce
<1>20. QuotaHolds'
  <2> SUFFICES ASSUME Quota > 0, NEW x \in Devices, NEW e \in Epochs
               PROVE  charged'[x][e] <= Quota
    BY DEF QuotaHolds
  <2>1. acc.quota[a.epoch] + a.count <= Quota
    BY <1>1, <1>2, AcceptedMeans
  <2>2. acc.latestEpoch \in Int /\ a.epoch \in Int /\ LatestEpoch(acc, a) \in Int
    BY <1>1, <1>14, MaxEpochAssumption DEF Account, Epochs
  <2>3. acc.quota[a.epoch] = charged[d][a.epoch]
    BY <2>2, <1>1, <1>14 DEF Inv, RowsCountCharges
  <2> QED BY <2>1, <2>3, <1>9 DEF Inv, QuotaHolds
<1>21. ConflictsMeanProgress'
  <2> SUFFICES ASSUME NEW q \in Requests
               PROVE  lost[q] <= rows'[arg[q].device].etag - began[q] - commits'[q]
    BY DEF ConflictsMeanProgress, RowOf
  <2>1. /\ lost[q] <= rows[arg[q].device].etag - began[q] - commits[q]
        /\ lost[q] \in Nat /\ began[q] \in Nat /\ commits[q] \in Nat
        /\ rows[arg[q].device].etag \in Nat
    BY <1>11 DEF Inv, TypeOK, ConflictsMeanProgress, RowOf, Row
  <2>2. CASE q = r
    BY <2>1, <2>2, <1>8, <1>10
  <2>3. CASE q # r
    BY <2>1, <2>3, <1>8, <1>10, <1>11
  <2> QED BY <2>2, <2>3
<1> QED
  BY <1>6, <1>7, <1>8, <1>12, <1>13, <1>15, <1>16, <1>18, <1>19, <1>20, <1>21

\* Steps that leave the table and the history alone preserve the parts of the
\* invariant that only speak of them and of the arguments.
LEMMA TableUnchanged ==
  ASSUME Inv, UNCHANGED <<rows, arg, commits, charged>>
  PROVE  RowsCountCharges' /\ RowsBoundCounters' /\ QuotaHolds' /\ CounterUsedOnce'
         /\ RowsStayReadable'
  BY DEF Inv, RowsCountCharges, RowsBoundCounters, QuotaHolds, CounterUsedOnce,
         RowsStayReadable, RowOf

\* Every step of a call, of the backend and every crash preserves Inv.
LEMMA NextInv == Inv /\ [Next]_vars => Inv'
<1> SUFFICES ASSUME Inv, [Next]_vars PROVE Inv'
  OBVIOUS
<1> USE DEF Active, Answers
<1>t. \A r \in Requests : RowOf(r) \in Row /\ RowOf(r).etag \in Nat /\ prior[r].etag \in Nat
                         /\ began[r] \in Nat /\ lost[r] \in Nat /\ commits[r] \in Nat
  BY DEF Inv, TypeOK, RowOf, Argument, Row
<1>u. \A r \in Requests : wire[r] # "committed" => commits[r] = 0
  BY DEF Inv, CommitsAreApplied
<1>0. ASSUME NEW r \in Requests, Reserve(r) PROVE Inv'
  <2>1. /\ UNCHANGED <<rows, wire, backend, arg, lost, prior, conflict, commits, charged>>
        /\ pc[r] = "idle" /\ pc' = [pc EXCEPT ![r] = "get"]
        /\ began' = [began EXCEPT ![r] = RowOf(r).etag]
    BY <1>0 DEF Reserve
  <2>2. TypeOK'
    BY <1>0, <1>t DEF Inv, TypeOK, Reserve
  <2>3. CallsKnowTheirWrites'
    BY <2>1 DEF Inv, TypeOK, CallsKnowTheirWrites, Refusals
  <2>4. wire[r] \in {"none", "conflict"} /\ lost[r] = 0 /\ commits[r] = 0
    BY <2>1, <1>u DEF Inv, CallsKnowTheirWrites, AttemptsArePaid
  <2>5. /\ began'[r] = RowOf(r).etag /\ pc'[r] = "get"
        /\ \A q \in Requests \ {r} : began'[q] = began[q] /\ pc'[q] = pc[q]
        /\ \A q \in Requests : RowOf(q)' = RowOf(q)
    BY <2>1 DEF Inv, TypeOK, RowOf
  <2>6. AttemptsArePaid'
    BY <2>1, <2>4, <2>5 DEF Inv, AttemptsArePaid
  <2>7. ConflictsMeanProgress'
    BY <2>1, <2>4, <2>5, <1>t DEF Inv, ConflictsMeanProgress
  <2> QED
    BY <2>1, <2>2, <2>3, <2>6, <2>7, TableUnchanged
       DEF Inv, WritesAreDecided, CommitsAreApplied, RowOf
<1>1. ASSUME NEW r \in Requests,
             GetFailed(r) \/ PutAmbiguous(r) \/ ReadBackUnknown(r) \/ Crash(r)
                \/ MemoryFull(r)
      PROVE  Inv'
  <2>1. UNCHANGED <<rows, wire, arg, attempt, began, lost, prior, commits, charged>>
    BY <1>1 DEF loop, GetFailed, PutAmbiguous, ReadBackUnknown, Crash, MemoryFull
  <2>2. TypeOK'
    BY <1>1 DEF loop, Inv, TypeOK, GetFailed, PutAmbiguous, ReadBackUnknown, Crash, MemoryFull
  <2>3. CallsKnowTheirWrites'
    BY <1>1 DEF loop, Inv, TypeOK, CallsKnowTheirWrites, GetFailed, PutAmbiguous,
                ReadBackUnknown, Crash, MemoryFull, Refusals
  <2>4. AttemptsArePaid'
    BY <1>1 DEF loop, Inv, TypeOK, AttemptsArePaid, RowOf, GetFailed, PutAmbiguous,
                ReadBackUnknown, Crash, MemoryFull
  <2> QED
    BY <2>1, <2>2, <2>3, <2>4, TableUnchanged
       DEF loop, Inv, WritesAreDecided, CommitsAreApplied, ConflictsMeanProgress, RowOf
<1>2. ASSUME NEW r \in Requests, GetRefused(r) PROVE Inv'
  <2>1. UNCHANGED <<rows, wire, arg, attempt, began, lost, prior, conflict, commits, charged>>
    BY <1>2 DEF loop, GetRefused
  <2>2. Refusal(RowOf(r).account, arg[r]) \in Refusals
    BY <1>2 DEF loop, GetRefused, Accepted, Refusal, Refusals
  <2>3. TypeOK'
    BY <1>2, <2>2 DEF loop, Inv, TypeOK, GetRefused
  <2>4. CallsKnowTheirWrites' /\ AttemptsArePaid'
    BY <1>2, <2>2 DEF loop, Inv, TypeOK, CallsKnowTheirWrites, AttemptsArePaid, RowOf, GetRefused,
                      Refusals
  <2> QED
    BY <2>1, <2>3, <2>4, TableUnchanged
       DEF loop, Inv, WritesAreDecided, CommitsAreApplied, ConflictsMeanProgress, RowOf
<1>3. ASSUME NEW r \in Requests, GetAccepted(r) PROVE Inv'
  <2>1. UNCHANGED <<rows, arg, attempt, began, lost, commits, charged>>
    BY <1>3 DEF loop, GetAccepted
  <2>2. TypeOK'
    BY <1>3, <1>t DEF loop, Inv, TypeOK, GetAccepted
  <2>3. CallsKnowTheirWrites'
    BY <1>3 DEF loop, Inv, TypeOK, CallsKnowTheirWrites, GetAccepted, Refusals
  <2>4. WritesAreDecided'
    BY <1>3, <1>t DEF loop, Inv, TypeOK, WritesAreDecided, RowOf, GetAccepted
  <2>5. CommitsAreApplied'
    BY <1>3 DEF loop, Inv, TypeOK, CommitsAreApplied, CallsKnowTheirWrites, GetAccepted
  <2>6. AttemptsArePaid' /\ ConflictsMeanProgress'
    BY <1>3, <1>t, <1>u DEF loop, Inv, TypeOK, CallsKnowTheirWrites,
                      AttemptsArePaid, ConflictsMeanProgress, RowOf, GetAccepted
  <2> QED BY <2>1, <2>2, <2>3, <2>4, <2>5, <2>6, TableUnchanged DEF loop, Inv
<1>4. ASSUME NEW r \in Requests, PutAcked(r) \/ ReadBackOwn(r) \/ PutConflict(r) PROVE Inv'
  <2>1. UNCHANGED <<rows, wire, arg, attempt, began, lost, prior, commits, charged>>
    BY <1>4 DEF loop, PutAcked, ReadBackOwn, PutConflict
  <2>2. TypeOK'
    BY <1>4 DEF loop, Inv, TypeOK, PutAcked, ReadBackOwn, PutConflict
  <2>3. ReadBackOwn(r) => wire[r] = "committed"
    BY DEF loop, ReadBackOwn, OwnCommit, RowOf, Inv, TypeOK, Argument, CommitsAreApplied
  <2>4. CallsKnowTheirWrites'
    BY <1>4, <2>3 DEF loop, Inv, TypeOK, CallsKnowTheirWrites, PutAcked, ReadBackOwn, PutConflict,
                      Refusals
  <2>5. AttemptsArePaid'
    BY <1>4 DEF loop, Inv, TypeOK, AttemptsArePaid, RowOf, PutAcked, ReadBackOwn, PutConflict
  <2> QED
    BY <2>1, <2>2, <2>4, <2>5, TableUnchanged
       DEF loop, Inv, WritesAreDecided, CommitsAreApplied, ConflictsMeanProgress, RowOf
<1>5. ASSUME NEW r \in Requests, ReadBackRetry(r) PROVE Inv'
  <2>1. UNCHANGED <<backend, rows, wire, arg, prior, commits, charged>>
    BY <1>5 DEF ReadBackRetry
  <2>2. /\ pc[r] = "readback" /\ conflict[r] /\ conflict' = conflict
        /\ lost' = [lost EXCEPT ![r] = @ + 1] /\ began' = began
        /\ \/ attempt[r] < MaxAttempts /\ attempt' = [attempt EXCEPT ![r] = @ + 1]
              /\ pc' = [pc EXCEPT ![r] = "get"]
           \/ attempt' = attempt /\ pc' = [pc EXCEPT ![r] = "unavailable"]
    BY <1>5 DEF ReadBackRetry, MayRetry, NextAttempt
  <2>3. wire[r] = "conflict" /\ began[r] + lost[r] + 1 <= RowOf(r).etag /\ commits[r] = 0
    BY <2>2, <1>u DEF Inv, CallsKnowTheirWrites, AttemptsArePaid
  <2>4. TypeOK'
    BY <2>1, <2>2, AttemptsAssumption DEF Inv, TypeOK
  <2>5. CallsKnowTheirWrites'
    BY <2>1, <2>2, <2>3 DEF Inv, TypeOK, CallsKnowTheirWrites, Refusals
  <2>6. AttemptsArePaid' /\ ConflictsMeanProgress'
    <3>1. /\ \A q \in Requests \ {r} : lost'[q] = lost[q] /\ pc'[q] = pc[q]
          /\ pc'[r] \in {"get", "unavailable"}
          /\ lost'[r] <= RowOf(r).etag - began[r] - commits[r]
      BY <2>2, <2>3, <1>t DEF Inv, TypeOK
    <3>2. \A q \in Requests : RowOf(q)' = RowOf(q)
      BY <2>1 DEF RowOf
    <3> QED BY <2>1, <2>2, <2>3, <3>1, <3>2 DEF Inv, AttemptsArePaid, ConflictsMeanProgress
  <2> QED
    BY <2>1, <2>4, <2>5, <2>6, TableUnchanged
       DEF Inv, WritesAreDecided, CommitsAreApplied, RowOf
<1>6. ASSUME NEW r \in Requests, Conflict(r) \/ MemoryConflict(r) PROVE Inv'
  <2>1. UNCHANGED <<rows, arg, prior, conflict, commits, charged>>
        /\ wire' = [wire EXCEPT ![r] = "conflict"]
    BY <1>6 DEF Conflict, MemoryConflict, client
  <2>2. TypeOK'
    BY <1>6, AttemptsAssumption DEF Inv, TypeOK, Conflict, MemoryConflict, NextAttempt, client,
                                    loop
  <2>3. wire[r] = "sent"
    BY <1>6 DEF Conflict, MemoryConflict, Inv, CallsKnowTheirWrites
  <2>4. began[r] + lost[r] + 1 <= RowOf(r).etag /\ commits[r] = 0
    <3>1. prior[r].etag # RowOf(r).etag
      BY <1>6 DEF Conflict, MemoryConflict, Matches
    <3>2. prior[r].etag <= RowOf(r).etag /\ began[r] + lost[r] <= prior[r].etag
      BY <2>3 DEF Inv, WritesAreDecided, AttemptsArePaid
    <3> QED BY <3>1, <3>2, <2>3, <1>t, <1>u
  <2>5. CallsKnowTheirWrites'
    BY <1>6, <2>3 DEF Inv, TypeOK, CallsKnowTheirWrites, Conflict, MemoryConflict, NextAttempt,
                      client, Refusals
  <2>6. AttemptsArePaid' /\ ConflictsMeanProgress'
    <3>1. /\ began' = began
          /\ \A q \in Requests \ {r} : lost'[q] = lost[q] /\ pc'[q] = pc[q]
          /\ \/ lost'[r] = lost[r] /\ pc'[r] = pc[r]
             \/ lost'[r] = lost[r] + 1 /\ pc'[r] \in {"get", "unavailable"}
      BY <1>6 DEF Conflict, MemoryConflict, NextAttempt, client, loop, Inv, TypeOK
    <3>2. \A q \in Requests : RowOf(q)' = RowOf(q)
      BY <2>1 DEF RowOf
    <3>3. wire'[r] = "conflict" /\ \A q \in Requests \ {r} : wire'[q] = wire[q]
      BY <2>1 DEF Inv, TypeOK
    <3>4. ConflictsMeanProgress'
      BY <3>1, <3>2, <2>1, <2>4, <1>t DEF Inv, ConflictsMeanProgress
    <3>5. AttemptsArePaid'
      BY <3>1, <3>2, <3>3, <2>1, <2>4, <1>t DEF Inv, AttemptsArePaid
    <3> QED BY <3>4, <3>5
  <2>7. WritesAreDecided' /\ CommitsAreApplied'
    BY <2>1, <2>3 DEF Inv, TypeOK, WritesAreDecided, CommitsAreApplied, RowOf
  <2> QED BY <2>1, <2>2, <2>5, <2>6, <2>7, TableUnchanged DEF Inv
<1>7. ASSUME NEW r \in Requests, Commit(r) \/ MemoryPut(r) PROVE Inv'
  <2>1. wire[r] = "sent" /\ Matches(r) /\ Apply(r) /\ UNCHANGED <<arg, attempt, began, lost, prior, conflict>>
    BY <1>7 DEF Commit, MemoryPut, client, loop, Inv, CallsKnowTheirWrites
  <2>2. TypeOK'
    BY <1>7, <2>1, ApplyInv DEF Inv, TypeOK, Commit, MemoryPut, client, loop
  <2>3. CallsKnowTheirWrites'
    BY <1>7, <2>1 DEF Inv, TypeOK, CallsKnowTheirWrites, Commit, MemoryPut, Apply, client, Refusals
  <2>4. AttemptsArePaid'
    <3>1. /\ \A q \in Requests : RowOf(q).etag <= rows'[arg[q].device].etag
      BY <2>1, <1>t, ApplyInv DEF Apply, RowOf, Inv, TypeOK, Argument
    <3>2. \A q \in Requests : rows'[arg[q].device].etag \in Nat
      BY <2>1, ApplyInv DEF Inv, TypeOK, Argument, Row
    <3> QED
      BY <1>7, <2>1, <3>1, <3>2, <1>t
         DEF Inv, TypeOK, AttemptsArePaid, Commit, MemoryPut, Apply, client, RowOf
  <2> QED BY <2>1, <2>2, <2>3, <2>4, ApplyInv DEF Inv
<1>8. CASE UNCHANGED vars
  BY <1>8 DEF vars, client, loop, Inv, TypeOK, WritesAreDecided, CommitsAreApplied,
     CallsKnowTheirWrites, RowsCountCharges, RowsBoundCounters, AttemptsArePaid, QuotaHolds,
     CounterUsedOnce, RowsStayReadable, ConflictsMeanProgress, RowOf
<1> QED
  BY <1>0, <1>1, <1>2, <1>3, <1>4, <1>5, <1>6, <1>7, <1>8 DEF Next, CallStep

\* Inv holds in every reachable state, for either backend.
THEOREM InvHolds == Spec => []Inv
  BY InitInv, NextInv, PTL DEF Spec

\* Type correctness of the issuer's state store.
THEOREM TypeCorrect == Spec => []TypeOK
<1>1. Inv => TypeOK BY DEF Inv
<1> QED BY <1>1, InvHolds, PTL

\* No device is charged more than the quota in any epoch, for any number of
\* replicas, clocks and failures.
THEOREM QuotaTheorem == Spec => []QuotaHolds
<1>1. Inv => QuotaHolds BY DEF Inv
<1> QED BY <1>1, InvHolds, PTL

\* One assertion counter pays for at most one reservation.
THEOREM CounterTheorem == Spec => []CounterUsedOnce
<1>1. Inv => CounterUsedOnce BY DEF Inv
<1> QED BY <1>1, InvHolds, PTL

\* A call is charged at most once, granted only if charged, refused only if not.
THEOREM ChargeTheorem == Spec => []ChargesAreTrue
<1>1. Inv => ChargesAreTrue
  BY DEF Inv, CommitsAreApplied, CallsKnowTheirWrites, ChargesAreTrue,
         ChargedAtMostOnce, AnswersAreTrue
<1> QED BY <1>1, InvHolds, PTL

\* reserve never writes a row that `checked` refuses to read.
THEOREM ReadableTheorem == Spec => []RowsStayReadable
<1>1. Inv => RowsStayReadable BY DEF Inv
<1> QED BY <1>1, InvHolds, PTL

\* Since a call began, each attempt it lost, the last one included, was paid
\* for by another call's reservation: a call gives up for conflicts only when
\* MaxAttempts others of its device went through (state-store.js 123, 141-143).
THEOREM ProgressTheorem == Spec => []ConflictsMeanProgress
<1>1. Inv => ConflictsMeanProgress BY DEF Inv
<1> QED BY <1>1, InvHolds, PTL

\* A write that is applied charges the account it replaces, so the counter
\* and the epoch move forward and the key stays.
LEMMA ApplyCharges ==
  ASSUME Inv, NEW r \in Requests, wire[r] = "sent", Matches(r), Apply(r)
  PROVE  LET d == arg[r].device
             acc == rows[d].account
         IN  /\ d \in Devices /\ acc \in Account /\ arg[r] \in Argument
             /\ Accepted(acc, arg[r])
             /\ rows'[d].account = Charge(acc, arg[r])
             /\ \A x \in Devices : x # d => rows'[x] = rows[x]
             /\ commits[r] = 0 /\ commits'[r] = 1
             /\ \A q \in Requests : q # r => commits'[q] = commits[q]
<1> DEFINE d == arg[r].device
           acc == rows[d].account
<1>1. d \in Devices /\ acc \in Account /\ arg[r] \in Argument
  BY DEF Inv, TypeOK, Row, Argument
<1>2. prior[r] = rows[d] /\ Accepted(acc, arg[r])
  BY DEF Inv, WritesAreDecided, Matches, RowOf
<1>3. rows' = [rows EXCEPT ![d] = [etag |-> rows[d].etag + 1, commitID |-> r,
                                   account |-> Charge(acc, arg[r])]]
  BY <1>2 DEF Apply
<1>4. commits[r] = 0 /\ commits' = [commits EXCEPT ![r] = @ + 1]
  BY DEF Inv, CommitsAreApplied, Apply
<1>5. rows'[d].account = Charge(acc, arg[r]) /\ \A x \in Devices : x # d => rows'[x] = rows[x]
  BY <1>1, <1>3 DEF Inv, TypeOK
<1>6. commits'[r] = 1 /\ \A q \in Requests : q # r => commits'[q] = commits[q]
  BY <1>4 DEF Inv, TypeOK
<1> QED BY <1>1, <1>2, <1>4, <1>5, <1>6

\* Only an applied write changes the table.
LEMMA OnlyApplyWrites ==
  ASSUME Inv, [Next]_vars
  PROVE  \/ UNCHANGED rows
         \/ \E r \in Requests : wire[r] = "sent" /\ Matches(r) /\ Apply(r)
<1>1. ASSUME NEW r \in Requests, MemoryPut(r) PROVE wire[r] = "sent"
  BY <1>1 DEF MemoryPut, Inv, CallsKnowTheirWrites
<1> QED
  BY <1>1 DEF Next, CallStep, Reserve, GetRefused, GetAccepted, GetFailed, PutAcked,
     PutConflict, PutAmbiguous, ReadBackOwn, ReadBackRetry, ReadBackUnknown, Crash, Commit,
     Conflict, MemoryPut, MemoryConflict, MemoryFull, vars

\* Counters and epochs of a device never go back, its key never changes.
THEOREM ForwardTheorem == Spec => AccountsMoveForward
<1> DEFINE Forward == \A d \in Devices : Exists(rows[d].account) =>
          /\ rows'[d].account.publicKeyPem = rows[d].account.publicKeyPem
          /\ rows'[d].account.signCount >= rows[d].account.signCount
          /\ rows'[d].account.latestEpoch >= rows[d].account.latestEpoch
<1>1. ASSUME Inv, [Next]_vars PROVE Forward
  <2>0. \A d \in Devices : /\ rows[d].account.signCount \in Nat
                            /\ rows[d].account.latestEpoch \in Int
    BY <1>1, MaxEpochAssumption DEF Inv, TypeOK, Row, Account, Epochs
  <2>1. CASE UNCHANGED rows
    BY <2>0, <2>1
  <2>2. ASSUME NEW r \in Requests, wire[r] = "sent", Matches(r), Apply(r)
        PROVE  Forward
    <3> DEFINE d == arg[r].device
               acc == rows[d].account
    <3>1. /\ d \in Devices /\ acc \in Account /\ arg[r] \in Argument
          /\ Accepted(acc, arg[r])
          /\ rows'[d].account = Charge(acc, arg[r])
          /\ \A x \in Devices : x # d => rows'[x] = rows[x]
      BY <1>1, <2>2, ApplyCharges
    <3>2. /\ Charge(acc, arg[r]).publicKeyPem = arg[r].publicKeyPem
          /\ Charge(acc, arg[r]).signCount >= acc.signCount
          /\ Charge(acc, arg[r]).latestEpoch >= acc.latestEpoch
      BY <3>1, ChargeMeans, LatestEpochGrows
    <3>3. Exists(acc) => acc.publicKeyPem = arg[r].publicKeyPem
      BY <3>1, AcceptedMeans
    <3> QED BY <2>0, <3>1, <3>2, <3>3
  <2> QED BY <1>1, <2>1, <2>2, OnlyApplyWrites
<1>2. Inv /\ [Next]_vars => [Forward]_vars
  BY <1>1
<1> QED BY <1>2, InvHolds, PTL DEF Spec, AccountsMoveForward
-----------------------------------------------------------------------------
(* Refinement: the loop implements the atomic ledger.                      *)

\* The empty store maps to the empty ledger.
LEMMA InitRefines == Init => Ledger!Init
<1> SUFFICES ASSUME Init PROVE Ledger!Init
  OBVIOUS
<1>1. Accounts = [d \in Devices |-> NoAccount]
  BY DEF Init, Accounts, NoRow
<1>2. ChargedCalls = {} /\ Answer = [r \in Requests |-> "none"]
  BY DEF Init, ChargedCalls, Answer, Answers, Refusals
<1>3. arg \in [Requests -> Argument]
  BY InputsAssumption DEF Init
<1>4. Ledger!NoAccount = NoAccount /\ Ledger!Argument = Argument
  BY DEF Ledger!NoAccount, NoAccount, Ledger!Argument, Argument, Ledger!Epochs, Epochs
<1> QED BY <1>1, <1>2, <1>3, <1>4 DEF Ledger!Init

\* The ledger decides and charges by the same operators.
LEMMA SameDecision ==
  ASSUME NEW acc, NEW a
  PROVE  /\ Ledger!Refusal(acc, a) = Refusal(acc, a)
         /\ Ledger!Accepted(acc, a) <=> Accepted(acc, a)
         /\ Ledger!Charge(acc, a) = Charge(acc, a)
<1>1. Ledger!LatestEpoch(acc, a) = LatestEpoch(acc, a)
  BY DEF Ledger!LatestEpoch, LatestEpoch, Ledger!Larger, Larger
<1>2. Ledger!Refusal(acc, a) = Refusal(acc, a)
  BY <1>1 DEF Ledger!Refusal, Refusal, Ledger!Exists, Exists, Ledger!Replayed, Replayed
<1>3. Ledger!NextSignCount(acc, a) = NextSignCount(acc, a)
  BY DEF Ledger!NextSignCount, NextSignCount, Ledger!Larger, Larger
<1>4. \A l : Ledger!KeptEpochs(l) = KeptEpochs(l)
  BY DEF Ledger!KeptEpochs, KeptEpochs, Ledger!Epochs, Epochs
<1>5. Ledger!NextCounts(acc, a) = NextCounts(acc, a)
  BY <1>1, <1>4 DEF Ledger!NextCounts, NextCounts, Ledger!Epochs, Epochs
<1> QED
  BY <1>1, <1>2, <1>3, <1>5 DEF Ledger!Accepted, Accepted, Ledger!Charge, Charge

\* An applied write is the ledger's charge of the same account.
LEMMA ApplyIsReserve ==
  ASSUME Inv, NEW r \in Requests, wire[r] = "sent", Matches(r), Apply(r)
  PROVE  /\ r \notin ChargedCalls
         /\ arg[r].device \in Devices
         /\ Ledger!Accepted(Accounts[arg[r].device], arg[r])
         /\ Accounts' = [Accounts EXCEPT ![arg[r].device] = Ledger!Charge(@, arg[r])]
         /\ ChargedCalls' = ChargedCalls \cup {r}
<1> DEFINE d == arg[r].device
           acc == rows[d].account
<1>1. /\ d \in Devices /\ Accepted(acc, arg[r])
      /\ rows'[d].account = Charge(acc, arg[r])
      /\ \A x \in Devices : x # d => rows'[x] = rows[x]
      /\ commits[r] = 0 /\ commits'[r] = 1
      /\ \A q \in Requests : q # r => commits'[q] = commits[q]
  BY ApplyCharges
<1>2. Accounts[d] = acc
  BY <1>1 DEF Accounts
<1>3. Accounts' = [Accounts EXCEPT ![d] = Charge(acc, arg[r])]
  BY <1>1 DEF Accounts
<1>4. r \notin ChargedCalls /\ ChargedCalls' = ChargedCalls \cup {r}
  BY <1>1 DEF ChargedCalls
<1> QED BY <1>1, <1>2, <1>3, <1>4, SameDecision

\* Every step of the loop, the network and the backend is a step of the
\* ledger or leaves it unchanged.
LEMMA StepRefines == Inv /\ [Next]_vars => [Ledger!Next]_Ledger!vars
<1> SUFFICES ASSUME Inv, [Next]_vars
             PROVE  Ledger!Next \/ UNCHANGED <<Accounts, arg, ChargedCalls, Answer>>
  BY DEF Ledger!vars
<1> DEFINE Same == UNCHANGED <<Accounts, arg, ChargedCalls, Answer>>
           SameTable == UNCHANGED <<Accounts, arg, ChargedCalls>>
<1>0. ASSUME UNCHANGED <<rows, arg, commits>> PROVE SameTable
  BY <1>0 DEF Accounts, ChargedCalls
<1>1. ASSUME NEW r \in Requests, pc[r] \notin Answers, NEW v,
             pc' = [pc EXCEPT ![r] = v]
      PROVE  Answer' = [Answer EXCEPT ![r] = IF v \in Answers THEN v ELSE "none"]
             /\ Answer[r] = "none" /\ (v \notin Answers => Answer' = Answer)
  BY <1>1 DEF Answer, Inv, TypeOK
<1>2. "idle" \notin Answers /\ "get" \notin Answers /\ "put" \notin Answers
      /\ "readback" \notin Answers /\ "ok" \in Answers /\ "unavailable" \in Answers
  BY DEF Answers, Refusals
<1>3. ASSUME NEW r \in Requests, Reserve(r) \/ GetAccepted(r) \/ PutConflict(r) \/ PutAmbiguous(r)
      PROVE  Same
  <2>1. UNCHANGED <<rows, arg, commits>>
    BY <1>3 DEF Reserve, GetAccepted, PutConflict, PutAmbiguous
  <2>2. Answer' = Answer
    BY <1>1, <1>2, <1>3 DEF Reserve, GetAccepted, PutConflict, PutAmbiguous
  <2> QED BY <2>1, <2>2, <1>0
<1>4. ASSUME NEW r \in Requests,
             \/ GetFailed(r) \/ ReadBackUnknown(r) \/ Crash(r) \/ MemoryFull(r)
             \/ (ReadBackRetry(r) \/ MemoryConflict(r)) /\ pc'[r] = "unavailable"
      PROVE  Ledger!GiveUp(r)
  <2>1. UNCHANGED <<rows, arg, commits>>
    BY <1>4 DEF GetFailed, ReadBackUnknown, Crash, MemoryFull, ReadBackRetry, MemoryConflict
  <2>2. pc[r] \notin Answers /\ pc' = [pc EXCEPT ![r] = "unavailable"]
    BY <1>4, <1>2 DEF GetFailed, ReadBackUnknown, Crash, MemoryFull, ReadBackRetry,
                      MemoryConflict, NextAttempt, Active, Inv, TypeOK
  <2>3. Answer[r] = "none" /\ Answer' = [Answer EXCEPT ![r] = "unavailable"]
    BY <1>1, <1>2, <2>2
  <2> QED BY <2>1, <2>3, <1>0 DEF Ledger!GiveUp
<1>5. ASSUME NEW r \in Requests, ReadBackRetry(r) \/ MemoryConflict(r), pc'[r] # "unavailable"
      PROVE  Same
  <2>1. UNCHANGED <<rows, arg, commits>>
    BY <1>5 DEF ReadBackRetry, MemoryConflict
  <2>2. pc[r] \notin Answers /\ pc' = [pc EXCEPT ![r] = "get"]
    BY <1>5, <1>2 DEF ReadBackRetry, MemoryConflict, NextAttempt, Inv, TypeOK
  <2>3. Answer' = Answer
    BY <1>1, <1>2, <2>2
  <2> QED BY <2>1, <2>3, <1>0
<1>6. ASSUME NEW r \in Requests, GetRefused(r) PROVE Ledger!Refuse(r)
  <2>1. UNCHANGED <<rows, arg, commits>> /\ pc[r] = "get"
        /\ pc' = [pc EXCEPT ![r] = Refusal(RowOf(r).account, arg[r])]
        /\ ~Accepted(RowOf(r).account, arg[r])
    BY <1>6 DEF GetRefused
  <2>2. Refusal(RowOf(r).account, arg[r]) \in Answers
    BY <2>1 DEF Accepted, Refusal, Refusals, Answers
  <2>3. Answer[r] = "none"
        /\ Answer' = [Answer EXCEPT ![r] = Refusal(RowOf(r).account, arg[r])]
    BY <1>1, <1>2, <2>1, <2>2
  <2>4. r \notin ChargedCalls
    BY <2>1 DEF ChargedCalls, Inv, CommitsAreApplied, CallsKnowTheirWrites
  <2>5. Accounts[arg[r].device] = RowOf(r).account
    BY DEF Accounts, RowOf, Inv, TypeOK, Argument
  <2> QED BY <2>1, <2>3, <2>4, <2>5, <1>0, SameDecision DEF Ledger!Refuse
<1>7. ASSUME NEW r \in Requests, PutAcked(r) \/ ReadBackOwn(r) PROVE Ledger!Grant(r)
  <2>1. UNCHANGED <<rows, arg, commits>> /\ pc[r] \in {"put", "readback"}
        /\ pc' = [pc EXCEPT ![r] = "ok"]
    BY <1>7 DEF PutAcked, ReadBackOwn
  <2>2. wire[r] = "committed"
    BY <1>7 DEF PutAcked, ReadBackOwn, OwnCommit, RowOf, Inv, TypeOK, Argument, CommitsAreApplied
  <2>3. r \in ChargedCalls
    BY <2>2 DEF ChargedCalls, Inv, CommitsAreApplied
  <2>4. Answer[r] = "none" /\ Answer' = [Answer EXCEPT ![r] = "ok"]
    BY <1>1, <1>2, <2>1
  <2> QED BY <2>1, <2>3, <2>4, <1>0 DEF Ledger!Grant
<1>8. ASSUME NEW r \in Requests, Commit(r) PROVE Ledger!Reserve(r)
  <2>1. wire[r] = "sent" /\ Matches(r) /\ Apply(r) /\ arg' = arg /\ pc' = pc
    BY <1>8 DEF Commit, client
  <2>2. Answer' = Answer
    BY <2>1 DEF Answer
  <2> QED BY <2>1, <2>2, ApplyIsReserve DEF Ledger!Reserve
<1>9. ASSUME NEW r \in Requests, MemoryPut(r) PROVE Ledger!ReserveAndGrant(r)
  <2>1. Matches(r) /\ Apply(r) /\ arg' = arg /\ pc[r] = "put" /\ pc' = [pc EXCEPT ![r] = "ok"]
    BY <1>9 DEF MemoryPut
  <2>2. wire[r] = "sent"
    BY <1>9 DEF MemoryPut, Inv, CallsKnowTheirWrites
  <2>3. Answer[r] = "none" /\ Answer' = [Answer EXCEPT ![r] = "ok"]
    BY <1>1, <1>2, <2>1
  <2> QED BY <2>1, <2>2, <2>3, ApplyIsReserve DEF Ledger!ReserveAndGrant
<1>10. ASSUME NEW r \in Requests, Conflict(r) PROVE Same
  BY <1>10, <1>0 DEF Conflict, client, Answer
<1>11. CASE UNCHANGED vars
  BY <1>11, <1>0 DEF vars, client, Answer
<1> QED
  BY <1>3, <1>4, <1>5, <1>6, <1>7, <1>8, <1>9, <1>10, <1>11 DEF Next, CallStep, Ledger!Next

\* The compare-and-swap loop implements the atomic ledger.
THEOREM Refinement == Spec => ImplementsLedger
  BY InvHolds, InitRefines, StepRefines, PTL
     DEF Spec, ImplementsLedger, Ledger!Spec

(* -------------------- Replicas under one stored salt -------------------- *)

SaltShape ==
    /\ salt \in [Replicas -> Salts]
    /\ ready = [p \in Replicas |-> ready[p]]
    /\ entity = [p \in Replicas |-> entity[p]]
    /\ gate = [r \in Requests |-> gate[r]]
    /\ config \in Salts \cup {NoSalt}
    /\ late \subseteq Salts

\* An acknowledgment of the config row, an initialized replica and a call that
\* has passed all mean that the replica's salt is the stored one.
SaltInv ==
    /\ \A p \in Replicas : entity[p] = "created" \/ ready[p] = "ok" => salt[p] = config
    /\ \A r \in Requests : gate[r] = "in" => salt[Host[r]] = config
    /\ rowSalts \subseteq {config} \cap Salts

SInv == SaltShape /\ SaltInv

LEMMA HostIsReplica == \A r \in Requests : Host[r] \in Replicas
BY HostOfCall

LEMMA InitSInv == ReplicasInit => SInv
BY HostIsReplica DEF ReplicasInit, Boot!Init, SInv, SaltShape, SaltInv

\* The config row is written once: what agreed with it goes on to do so.
LEMMA ConfigWritten ==
    ASSUME SInv, UNCHANGED <<salt, ready, gate, rowSalts>>,
           NEW s \in Salts, config' = IF config = NoSalt THEN s ELSE config,
           late' \subseteq late,
           entity' = [p \in Replicas |-> entity'[p]],
           \A p \in Replicas : entity'[p] = "created" => salt[p] = config'
    PROVE  SInv'
<1>1. config # NoSalt => config' = config
  OBVIOUS
<1>2. (\A p \in Replicas : salt[p] # NoSalt) /\ config' \in Salts
  BY SaltIsNoSalt DEF SInv, SaltShape
<1>3. SaltShape'
  BY <1>2 DEF SInv, SaltShape
<1>4. \A p \in Replicas : ready[p] = "ok" => salt[p] = config'
  BY <1>1, <1>2 DEF SInv, SaltInv
<1>5. \A r \in Requests : gate[r] = "in" => salt[Host[r]] = config'
  BY <1>1, <1>2, HostIsReplica DEF SInv, SaltInv
<1>6. rowSalts \subseteq {config'} \cap Salts
  BY <1>1, SaltIsNoSalt DEF SInv, SaltInv
<1> QED BY <1>3, <1>4, <1>5, <1>6 DEF SInv, SaltInv

LEMMA NextSInv == SInv /\ [ReplicasNext]_allVars => SInv'
<1> SUFFICES ASSUME SInv, [ReplicasNext]_allVars PROVE SInv'
  OBVIOUS
<1> USE HostIsReplica
<1>1. ASSUME NEW r \in Requests, Call(r) PROVE SInv'
  BY <1>1 DEF Call, Boot!Enter, SInv, SaltShape, SaltInv
<1>2. ASSUME NEW r \in Requests, Loop(r) PROVE SInv'
  <2>1. salt[Host[r]] = config /\ salt[Host[r]] \in Salts
    BY <1>2 DEF Loop, SInv, SaltShape, SaltInv
  <2> QED BY <1>2, <2>1 DEF Loop, bootstrap, SInv, SaltShape, SaltInv
<1>3. ASSUME NEW r \in Requests, Thrown(r) \/ RowWrite(r) PROVE SInv'
  BY <1>3 DEF Thrown, RowWrite, bootstrap, SInv, SaltShape, SaltInv
<1>4. ASSUME NEW p \in Replicas, ReplicaInitializes(p) PROVE SInv'
  <2> USE DEF SInv, SaltShape, SaltInv, Boot!store, Boot!Settle, Boot!WaitingAt
  <2>1. UNCHANGED rowSalts /\ Boot!InitializeStep(p)
    BY <1>4 DEF ReplicaInitializes
  <2>2. CASE Boot!TableThere(p)
    BY <2>1, <2>2 DEF Boot!TableThere
  <2>3. CASE Boot!TableFails(p)
    BY <2>1, <2>3 DEF Boot!TableFails, Boot!Reject
  <2>4. CASE Boot!ConfigAcked(p)
    BY <2>1, <2>4 DEF Boot!ConfigAcked, Boot!Resolve
  <2>5. CASE Boot!ConfigFails(p)
    BY <2>1, <2>5 DEF Boot!ConfigFails, Boot!Abandon
  <2>6. CASE Boot!ReadBackMatches(p)
    BY <2>1, <2>6 DEF Boot!ReadBackMatches, Boot!SameSalt, Boot!Resolve
  <2>7. CASE Boot!ReadBackFails(p)
    BY <2>1, <2>7 DEF Boot!ReadBackFails, Boot!Reject
  <2> QED BY <2>1, <2>2, <2>3, <2>4, <2>5, <2>6, <2>7 DEF Boot!InitializeStep
<1>5. ASSUME NEW p \in Replicas, ReplicaDies(p) PROVE SInv'
  BY <1>5 DEF ReplicaDies, Boot!Crash, Boot!Abandon, Boot!store, SInv, SaltShape, SaltInv
<1>6. CASE StoreAnswers
  <2>1. CASE Boot!CreateTable
    BY <1>6, <2>1 DEF StoreAnswers, Boot!CreateTable, SInv, SaltShape, SaltInv
  <2>2. ASSUME NEW p \in Replicas, Boot!CreateConfig(p) PROVE SInv'
    <3>1. /\ UNCHANGED <<salt, ready, gate, rowSalts, late>>
          /\ config' = IF config = NoSalt THEN salt[p] ELSE config
          /\ entity' = [entity EXCEPT ![p] = IF config = NoSalt THEN "created" ELSE "conflict"]
      BY <1>6, <2>2 DEF StoreAnswers, Boot!CreateConfig
    <3>2. salt[p] \in Salts
      BY DEF SInv, SaltShape
    <3>3. entity' = [x \in Replicas |-> entity'[x]]
      BY <3>1 DEF SInv, SaltShape
    <3>4. \A x \in Replicas : entity'[x] = "created" => salt[x] = config'
      BY <3>1, SaltIsNoSalt DEF SInv, SaltShape, SaltInv
    <3>5. PICK s \in Salts : s = salt[p]
      BY <3>2
    <3> QED BY <3>1, <3>3, <3>4, <3>5, ConfigWritten
  <2> QED BY <1>6, <2>1, <2>2 DEF StoreAnswers, Boot!StoreStep
<1>7. CASE LateConfig
  <2>1. PICK s \in late : Boot!CreateLate(s) /\ UNCHANGED rowSalts
    BY <1>7 DEF LateConfig
  <2>2. /\ UNCHANGED <<salt, ready, gate, rowSalts, entity>>
        /\ config' = IF config = NoSalt THEN s ELSE config
        /\ late' \subseteq late /\ s \in Salts
    BY <2>1 DEF Boot!CreateLate, SInv, SaltShape
  <2>3. \A x \in Replicas : entity'[x] = "created" => salt[x] = config'
    BY <2>2, SaltIsNoSalt DEF SInv, SaltShape, SaltInv
  <2>4. entity' = [x \in Replicas |-> entity'[x]]
    BY <2>2 DEF SInv, SaltShape
  <2> QED BY <2>2, <2>3, <2>4, ConfigWritten
<1>8. CASE Calm
  BY <1>8 DEF Calm, Boot!Stabilise, Boot!store, SInv, SaltShape, SaltInv
<1>9. CASE UNCHANGED allVars
  BY <1>9 DEF allVars, bootstrap, SInv, SaltShape, SaltInv
<1> QED
  BY <1>1, <1>2, <1>3, <1>4, <1>5, <1>6, <1>7, <1>8, <1>9 DEF ReplicasNext

\* Over any number of replicas, crashes and restarts with other salts, late
\* config rows and lost acknowledgments, devices are looked up and charged
\* under the stored salt only (state-store.js 49-64).
THEOREM OneSaltTheorem == ReplicasSpec => []OneSalt
<1>1. SInv => OneSalt
  BY DEF SInv, SaltInv, OneSalt
<1> QED BY <1>1, InitSInv, NextSInv, PTL DEF ReplicasSpec

\* No rejected promise is kept: after a failure the next call starts anew.
Forgotten == \A p \in Replicas : ready[p] # "failed"

LEMMA NextForgotten == SInv /\ Forgotten /\ [ReplicasNext]_allVars => Forgotten'
<1> SUFFICES ASSUME SInv, Forgotten, [ReplicasNext]_allVars PROVE Forgotten'
  OBVIOUS
<1> USE HostIsReplica DEF Forgotten, SInv, SaltShape
<1>1. ASSUME NEW r \in Requests, Call(r) PROVE Forgotten'
  BY <1>1 DEF Call, Boot!Enter
<1>2. ASSUME NEW r \in Requests, Loop(r) \/ Thrown(r) \/ RowWrite(r) PROVE Forgotten'
  BY <1>2 DEF Loop, Thrown, RowWrite, bootstrap
<1>3. ASSUME NEW p \in Replicas, ReplicaInitializes(p) PROVE Forgotten'
  BY <1>3 DEF ReplicaInitializes, Boot!InitializeStep, Boot!TableThere, Boot!TableFails,
     Boot!ConfigAcked, Boot!ConfigFails, Boot!ReadBackMatches, Boot!ReadBackFails,
     Boot!Resolve, Boot!Reject, Boot!Settle
<1>4. ASSUME NEW p \in Replicas, ReplicaDies(p) PROVE Forgotten'
  BY <1>4 DEF ReplicaDies, Boot!Crash
<1>5. CASE StoreAnswers \/ LateConfig \/ Calm
  BY <1>5 DEF StoreAnswers, LateConfig, Calm, Boot!StoreStep, Boot!CreateTable,
     Boot!CreateConfig, Boot!CreateLate, Boot!Stabilise
<1>6. CASE UNCHANGED allVars
  BY <1>6 DEF allVars, bootstrap
<1> QED BY <1>1, <1>2, <1>3, <1>4, <1>5, <1>6 DEF ReplicasNext

\* Without faults only a salt that is not the stored one turns a call away.
LEMMA ThrownMeansOtherSalt ==
    ASSUME SInv, Forgotten, [ReplicasNext]_allVars, NEW r \in Requests,
           stable, gate[r] # "thrown", gate'[r] = "thrown"
    PROVE  salt[Host[r]] # config
<1> USE HostIsReplica DEF SInv, SaltShape
<1>1. ASSUME NEW q \in Requests, Call(q) PROVE FALSE
  BY <1>1 DEF Call, Boot!Enter, Forgotten
<1>2. ASSUME NEW q \in Requests, Loop(q) \/ Thrown(q) \/ RowWrite(q) PROVE FALSE
  BY <1>2 DEF Loop, Thrown, RowWrite, bootstrap
<1>3. ASSUME NEW p \in Replicas, ReplicaInitializes(p) PROVE salt[Host[r]] # config
  <2>1. CASE Boot!TableThere(p) \/ Boot!TableFails(p) \/ Boot!ConfigFails(p)
    BY <2>1 DEF Boot!TableThere, Boot!TableFails, Boot!ConfigFails
  <2>2. CASE Boot!ConfigAcked(p) \/ Boot!ReadBackMatches(p)
    BY <2>2 DEF Boot!ConfigAcked, Boot!ReadBackMatches, Boot!Resolve, Boot!Settle
  <2>3. CASE Boot!ReadBackFails(p)
    BY <2>3 DEF Boot!ReadBackFails, Boot!SameSalt, Boot!Reject, Boot!Settle, Boot!WaitingAt
  <2> QED BY <1>3, <2>1, <2>2, <2>3 DEF ReplicaInitializes, Boot!InitializeStep
<1>4. ASSUME NEW p \in Replicas, ReplicaDies(p) PROVE FALSE
  BY <1>4 DEF ReplicaDies, Boot!Crash
<1>5. CASE StoreAnswers \/ LateConfig \/ Calm
  BY <1>5 DEF StoreAnswers, LateConfig, Calm, Boot!StoreStep, Boot!CreateTable,
     Boot!CreateConfig, Boot!CreateLate, Boot!Stabilise
<1>6. CASE UNCHANGED allVars
  BY <1>6 DEF allVars, bootstrap
<1> QED BY <1>1, <1>2, <1>3, <1>4, <1>5, <1>6 DEF ReplicasNext

\* Once the faults are over no earlier failure turns a call away, only a salt
\* that is not the stored one: no replica stays poisoned (state-store.js 62).
THEOREM RecoveryTheorem == ReplicasSpec => RecoversFromFailure
<1>1. ReplicasInit => Forgotten
  BY DEF ReplicasInit, Boot!Init, Forgotten
<1>2. ASSUME SInv, Forgotten, [ReplicasNext]_allVars
      PROVE  [\A r \in Requests : stable /\ gate[r] # "thrown" /\ gate'[r] = "thrown"
                                 => salt[Host[r]] # config]_allVars
  BY <1>2, ThrownMeansOtherSalt
<1> QED
  BY <1>1, <1>2, InitSInv, NextSInv, NextForgotten, PTL DEF ReplicasSpec, RecoversFromFailure
=============================================================================
