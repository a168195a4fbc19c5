----------------------------- MODULE IssuerState -----------------------------
(***************************************************************************)
(* The issuer's state store, token-issuer/state-store.js: the compare-and- *)
(* swap loop of createIssuerState.reserve over azureDeviceBackend, shared  *)
(* by all issuer replicas, or over memoryDeviceBackend in one process.     *)
(*                                                                         *)
(* A call of reserve is identified with its commit ID.  Each attempt reads *)
(* the device's row, decides, and writes the new row conditionally on the  *)
(* ETag it read.  After any error the row is read back: the call's own     *)
(* commit ID means the write took place, a definite conflict (409, 412)    *)
(* means it did not and another attempt follows, anything else is          *)
(* unavailable.  A deadline only ends the waiting: a write may be applied  *)
(* after its call has given up or its process has died.                    *)
(***************************************************************************)
EXTENDS DeviceAccount, FiniteSets

CONSTANTS
    Requests,       \* calls of reserve, each with a commit ID of its own
    NoCommit,       \* the commit ID of a row that does not exist
    Inputs,         \* the arguments the calls may have
    Backends,       \* the backends to consider: "azure", "memory"
    MaxAttempts,    \* iterations of the loop in reserve; 4 in the code
    MaxKeys         \* rows the memory backend accepts

ASSUME NoCommitAssumption == NoCommit \notin Requests
ASSUME InputsAssumption == Inputs \subseteq Argument
ASSUME BackendsAssumption == Backends \subseteq {"azure", "memory"}
ASSUME AttemptsAssumption == MaxAttempts \in Nat \ {0}

VARIABLES
    backend,    \* the backend of this deployment
    rows,       \* the table: ETag (0: no row), commit ID and account
    wire,       \* what became of the conditional write of a call
    pc,         \* where a call of reserve stands
    arg,        \* its arguments
    attempt,    \* its iteration of the loop
    began,      \* history: the ETag of the row when the call began
    lost,       \* history: how many attempts the call has lost to a conflict
    prior,      \* the row it read in this iteration
    conflict,   \* the write reported 409 or 412
    commits,    \* history: how often a write of a call was applied
    charged     \* history: tokens charged to a device in an epoch

loop == <<attempt, began, lost>>
client == <<backend, pc, arg, loop, prior, conflict>>
vars == <<rows, wire, client, commits, charged>>

Row == [etag : Nat, commitID : Requests \cup {NoCommit}, account : Account]
NoRow == [etag |-> 0, commitID |-> NoCommit, account |-> NoAccount]

Active == {"get", "put", "readback"}
Answers == {"ok", "unavailable"} \cup Refusals

\* Type correctness of the rows and of the calls of reserve (state-store.js
\* 118-144).
TypeOK ==
    /\ backend  \in Backends
    /\ rows     \in [Devices -> Row]
    /\ wire     \in [Requests -> {"none", "sent", "committed", "conflict"}]
    /\ pc       \in [Requests -> {"idle"} \cup Active \cup Answers]
    /\ arg      \in [Requests -> Argument]
    /\ attempt  \in [Requests -> 1 .. MaxAttempts]
    /\ began    \in [Requests -> Nat]
    /\ lost     \in [Requests -> Nat]
    /\ prior    \in [Requests -> Row]
    /\ conflict \in [Requests -> BOOLEAN]
    /\ commits  \in [Requests -> Nat]
    /\ charged  \in [Devices -> [Epochs -> Nat]]

Init ==
    /\ backend  \in Backends
    /\ rows     = [d \in Devices |-> NoRow]
    /\ wire     = [r \in Requests |-> "none"]
    /\ pc       = [r \in Requests |-> "idle"]
    /\ arg      \in [Requests -> Inputs]
    /\ attempt  = [r \in Requests |-> 1]
    /\ began    = [r \in Requests |-> 0]
    /\ lost     = [r \in Requests |-> 0]
    /\ prior    = [r \in Requests |-> NoRow]
    /\ conflict = [r \in Requests |-> FALSE]
    /\ commits  = [r \in Requests |-> 0]
    /\ charged  = [d \in Devices |-> [e \in Epochs |-> 0]]

RowOf(r) == rows[arg[r].device]

-----------------------------------------------------------------------------
(* reserve, between two awaits at a time.                                  *)

Reserve(r) ==
    /\ pc[r] = "idle"
    /\ pc' = [pc EXCEPT ![r] = "get"]
    /\ began' = [began EXCEPT ![r] = RowOf(r).etag]
    /\ UNCHANGED <<rows, wire, backend, arg, attempt, lost, prior, conflict, commits, charged>>

\* backend.get answers with a readable row, or none, and the account refuses.
GetRefused(r) ==
    /\ pc[r] = "get"
    /\ Readable(RowOf(r).account)
    /\ ~Accepted(RowOf(r).account, arg[r])
    /\ pc' = [pc EXCEPT ![r] = Refusal(RowOf(r).account, arg[r])]
    /\ UNCHANGED <<rows, wire, backend, arg, loop, prior, conflict, commits, charged>>

\* backend.get answers and the account accepts: send the conditional write.
GetAccepted(r) ==
    /\ pc[r] = "get"
    /\ Readable(RowOf(r).account)
    /\ Accepted(RowOf(r).account, arg[r])
    /\ pc' = [pc EXCEPT ![r] = "put"]
    /\ prior' = [prior EXCEPT ![r] = RowOf(r)]
    /\ wire' = [wire EXCEPT ![r] = "sent"]
    /\ UNCHANGED <<rows, backend, arg, loop, conflict, commits, charged>>

\* backend.get fails (initialize, the read, the deadline), or `checked` finds
\* the row corrupt.
GetFailed(r) ==
    /\ pc[r] = "get"
    /\ backend = "azure" \/ ~Readable(RowOf(r).account)
    /\ pc' = [pc EXCEPT ![r] = "unavailable"]
    /\ UNCHANGED <<rows, wire, backend, arg, loop, prior, conflict, commits, charged>>

\* The conditional write is acknowledged.
PutAcked(r) ==
    /\ backend = "azure" /\ pc[r] = "put"
    /\ wire[r] = "committed"
    /\ pc' = [pc EXCEPT ![r] = "ok"]
    /\ UNCHANGED <<rows, wire, backend, arg, loop, prior, conflict, commits, charged>>

\* The write reports a definite conflict: createEntity 409, updateEntity 412.
PutConflict(r) ==
    /\ backend = "azure" /\ pc[r] = "put"
    /\ wire[r] = "conflict"
    /\ pc' = [pc EXCEPT ![r] = "readback"]
    /\ conflict' = [conflict EXCEPT ![r] = TRUE]
    /\ UNCHANGED <<rows, wire, backend, arg, loop, prior, commits, charged>>

\* Mutant: the wait for an answer of the write has no deadline.
MutantPutAmbiguous(r) ==
    /\ backend = "azure" /\ pc[r] = "put" /\ wire[r] # "sent"
    /\ pc' = [pc EXCEPT ![r] = "readback"]
    /\ conflict' = [conflict EXCEPT ![r] = FALSE]
    /\ UNCHANGED <<rows, wire, backend, arg, loop, prior, commits, charged>>

\* The write reports any other error or none within the deadline, whatever
\* has become or will become of it.
PutAmbiguous(r) ==
    /\ backend = "azure" /\ pc[r] = "put"
    /\ pc' = [pc EXCEPT ![r] = "readback"]
    /\ conflict' = [conflict EXCEPT ![r] = FALSE]
    /\ UNCHANGED <<rows, wire, backend, arg, loop, prior, commits, charged>>

\* Mutant: any row after the error is taken for this call's.
MutantOwnCommit(r) == RowOf(r).commitID # NoCommit

\* The row carries the commit ID of this call.
OwnCommit(r) == RowOf(r).commitID = r

\* The read-back finds this call's commit ID: the write took place.
ReadBackOwn(r) ==
    /\ pc[r] = "readback"
    /\ OwnCommit(r)
    /\ pc' = [pc EXCEPT ![r] = "ok"]
    /\ UNCHANGED <<rows, wire, backend, arg, loop, prior, conflict, commits, charged>>

\* This attempt is lost: the next iteration of the loop, or its end.
NextAttempt(r) ==
    /\ lost' = [lost EXCEPT ![r] = @ + 1]
    /\ UNCHANGED began
    /\ IF attempt[r] < MaxAttempts
       THEN /\ attempt' = [attempt EXCEPT ![r] = @ + 1]
            /\ pc' = [pc EXCEPT ![r] = "get"]
       ELSE /\ pc' = [pc EXCEPT ![r] = "unavailable"]
            /\ UNCHANGED attempt

\* Mutant: any failed write is tried again, as a retrying SDK would.
MutantMayRetry(r) == TRUE

\* Only a definite conflict proves that the write did not take place.
MayRetry(r) == conflict[r]

\* Another commit ID after a definite conflict: put returns false.
ReadBackRetry(r) ==
    /\ pc[r] = "readback"
    /\ ~OwnCommit(r)
    /\ MayRetry(r)
    /\ NextAttempt(r)
    /\ UNCHANGED <<rows, wire, backend, arg, prior, conflict, commits, charged>>

\* Another commit ID after an ambiguous error, or the read-back fails.
ReadBackUnknown(r) ==
    /\ pc[r] = "readback"
    /\ pc' = [pc EXCEPT ![r] = "unavailable"]
    /\ UNCHANGED <<rows, wire, backend, arg, loop, prior, conflict, commits, charged>>

\* The replica dies: the call never answers, which its client cannot tell from
\* unavailable state; what the call has sent stays on the wire.
Crash(r) ==
    /\ backend = "azure" /\ pc[r] \in Active
    /\ pc' = [pc EXCEPT ![r] = "unavailable"]
    /\ UNCHANGED <<rows, wire, backend, arg, loop, prior, conflict, commits, charged>>

-----------------------------------------------------------------------------
(* A write with a matching ETag replaces the row and changes its ETag.     *)

\* Mutant: the write is not conditional on the ETag.
MutantMatches(r) == TRUE

Matches(r) == RowOf(r).etag = prior[r].etag

Apply(r) ==
    LET d == arg[r].device IN
    /\ rows' = [rows EXCEPT ![d] =
                  [etag     |-> rows[d].etag + 1,
                   commitID |-> r,
                   account  |-> Charge(prior[r].account, arg[r])]]
    /\ wire' = [wire EXCEPT ![r] = "committed"]
    /\ commits' = [commits EXCEPT ![r] = @ + 1]
    /\ charged' = [charged EXCEPT ![d][arg[r].epoch] = @ + arg[r].count]

\* External: Azure applies or refuses a conditional write, at any time after
\* it was sent, or never.
Commit(r) ==
    /\ backend = "azure" /\ wire[r] = "sent"
    /\ Matches(r)
    /\ Apply(r)
    /\ UNCHANGED client

Conflict(r) ==
    /\ backend = "azure" /\ wire[r] = "sent"
    /\ ~Matches(r)
    /\ wire' = [wire EXCEPT ![r] = "conflict"]
    /\ UNCHANGED <<rows, client, commits, charged>>

\* memoryDeviceBackend.put compares, writes and answers in one step.
HasRoom(r) ==
    RowOf(r).etag # 0 \/ Cardinality({d \in Devices : rows[d].etag # 0}) < MaxKeys

MemoryPut(r) ==
    /\ backend = "memory" /\ pc[r] = "put"
    /\ Matches(r) /\ HasRoom(r)
    /\ Apply(r)
    /\ pc' = [pc EXCEPT ![r] = "ok"]
    /\ UNCHANGED <<backend, arg, loop, prior, conflict>>

\* The ETag has changed: put returns false.
MemoryConflict(r) ==
    /\ backend = "memory" /\ pc[r] = "put"
    /\ ~Matches(r)
    /\ wire' = [wire EXCEPT ![r] = "conflict"]
    /\ NextAttempt(r)
    /\ UNCHANGED <<rows, backend, arg, prior, conflict, commits, charged>>

\* A new device and no room: put throws.
MemoryFull(r) ==
    /\ backend = "memory" /\ pc[r] = "put"
    /\ Matches(r) /\ ~HasRoom(r)
    /\ pc' = [pc EXCEPT ![r] = "unavailable"]
    /\ UNCHANGED <<rows, wire, backend, arg, loop, prior, conflict, commits, charged>>

-----------------------------------------------------------------------------

CallStep(r) ==
    \/ GetRefused(r) \/ GetAccepted(r) \/ GetFailed(r)
    \/ PutAcked(r) \/ PutConflict(r) \/ PutAmbiguous(r)
    \/ ReadBackOwn(r) \/ ReadBackRetry(r) \/ ReadBackUnknown(r)
    \/ MemoryPut(r) \/ MemoryConflict(r) \/ MemoryFull(r)

Next ==
    \E r \in Requests :
        Reserve(r) \/ CallStep(r) \/ Crash(r) \/ Commit(r) \/ Conflict(r)

\* Every await of reserve is raced against the deadline (bounded), so a call
\* that can continue does; nothing forces Azure, a new call or a crash.
Fairness == \A r \in Requests : WF_vars(CallStep(r))

Spec == Init /\ [][Next]_vars /\ Fairness

-----------------------------------------------------------------------------
(* The atomic ledger this implements.  A call is charged when its write is *)
(* applied, whenever that happens.                                         *)

Accounts == [d \in Devices |-> rows[d].account]
ChargedCalls == {r \in Requests : commits[r] > 0}
Answer == [r \in Requests |-> IF pc[r] \in Answers THEN pc[r] ELSE "none"]

Ledger == INSTANCE DeviceLedger WITH
            accounts <- Accounts, charged <- ChargedCalls, answer <- Answer

\* The store implements the atomic ledger: the row a conditional write
\* replaces is the row the decision was made on, and every answer agrees
\* with what was charged (state-store.js 76-91, 118-144).
ImplementsLedger == Ledger!Spec

-----------------------------------------------------------------------------
(* Properties.                                                             *)

\* However often an attempt conflicts, loses its acknowledgment or is applied
\* late, a call is charged at most once (state-store.js 85-88).
ChargedAtMostOnce == \A r \in Requests : commits[r] <= 1

\* The issuer signs only what was charged, and a refused call was not charged:
\* 200 means the tokens count against the quota, 401 and 429 that they do not
\* (state-store.js 125-141).
AnswersAreTrue ==
    \A r \in Requests :
        /\ pc[r] = "ok" => commits[r] = 1
        /\ pc[r] \in Refusals => commits[r] = 0

\* A call is charged once, never, or not known to be: the answer says which.
ChargesAreTrue == ChargedAtMostOnce /\ AnswersAreTrue

\* No device is ever charged more than the quota in an epoch, although a row
\* forgets an epoch when replicas with differing clocks move on (129-139).
QuotaHolds ==
    Quota > 0 => \A d \in Devices, e \in Epochs : charged[d][e] <= Quota

\* One assertion counter of a device pays for at most one reservation, over
\* all replicas and re-attestations (127, 140).
CounterUsedOnce ==
    \A r1, r2 \in Requests :
        /\ commits[r1] > 0 /\ commits[r2] > 0
        /\ arg[r1].mode = "assertion" /\ arg[r2].mode = "assertion"
        /\ arg[r1].device = arg[r2].device
        /\ arg[r1].signCount = arg[r2].signCount
        => r1 = r2

\* reserve never writes a row that `checked` would later refuse to read, which
\* would lock the device out for good (99-109, 135-140).
RowsStayReadable == \A d \in Devices : Readable(rows[d].account)

\* A call loses an attempt only to another call's reservation: since it began,
\* the row has changed at least once for each attempt it lost, the last one
\* included, its own write not counted.  So giving up means that MaxAttempts
\* other reservations of this device went through meanwhile (123, 141-143).
ConflictsMeanProgress ==
    \A r \in Requests : lost[r] <= RowOf(r).etag - began[r] - commits[r]

\* The counter and the latest epoch of a device never go back and its key
\* never changes, whichever replica writes last (126-130, 140).
AccountsMoveForward ==
    [][\A d \in Devices : Exists(rows[d].account) =>
          /\ rows'[d].account.publicKeyPem = rows[d].account.publicKeyPem
          /\ rows'[d].account.signCount >= rows[d].account.signCount
          /\ rows'[d].account.latestEpoch >= rows[d].account.latestEpoch]_vars

\* Every call ends, answered or dead with its replica (12-25, 122-143).
EveryCallReturns ==
    \A r \in Requests : pc[r] \in Active ~> pc[r] \in Answers
=============================================================================
