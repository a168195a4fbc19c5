--------------------------- MODULE RedemptionStore ---------------------------
(***************************************************************************)
(* The relay's durable spend-once store, ohttp-relay/redemption-store.js:  *)
(* azureRedemptionStore.  Several relay processes redeem tokens against    *)
(* one Azure table.  A redemption is a create-only insert of a row that    *)
(* carries the random claim ID of this very call; whatever error the       *)
(* insert reports, the row is read back and the claim ID found there       *)
(* decides.  The network may lose the request, lose the acknowledgment,    *)
(* or deliver the request after the caller's deadline has passed.          *)
(*                                                                         *)
(* A call of redeem is identified with its claim ID (crypto.randomUUID),   *)
(* a token with its pair (public-key fingerprint, nullifier).              *)
(***************************************************************************)
EXTENDS FiniteSets

CONSTANTS
    Claims,     \* calls of redeem, each with a claim ID of its own
    Tokens,     \* (fingerprint, nullifier) pairs
    Relays,     \* relay processes sharing the table
    NoClaim     \* the row does not exist

ASSUME NoClaimAssumption == NoClaim \notin Claims

VARIABLES
    table,      \* Azure: the claim ID stored in the row of a token
    wire,       \* Azure: what became of the createEntity of a call
    ready,      \* the createTable promise of a relay process
    pc,         \* where a call of redeem stands
    token,      \* the token a call redeems
    relay       \* the process a call runs in

storeVars == <<table, wire, ready, pc, token, relay>>

Waiting  == {"init", "create", "readback"}
Verdicts == {"admitted", "spent", "unavailable"}

\* Type correctness of the table and of the calls of redeem
\* (redemption-store.js 31-47).
StoreTypeOK ==
    /\ table \in [Tokens -> Claims \cup {NoClaim}]
    /\ wire  \in [Claims -> {"none", "sent", "created", "conflict"}]
    /\ ready \in [Relays -> {"unset", "pending", "ok"}]
    /\ pc    \in [Claims -> {"idle", "crashed"} \cup Waiting \cup Verdicts]
    /\ token \in [Claims -> Tokens]
    /\ relay \in [Claims -> Relays]

StoreInit ==
    /\ table = [t \in Tokens |-> NoClaim]
    /\ wire  = [c \in Claims |-> "none"]
    /\ ready = [r \in Relays |-> "unset"]
    /\ pc    = [c \in Claims |-> "idle"]
    /\ token \in [Claims -> Tokens]
    /\ relay \in [Claims -> Relays]

-----------------------------------------------------------------------------
(* The client side: the code of redeem, between two awaits at a time.      *)

\* redeem is called, with a fingerprint and a nullifier in hexadecimal as
\* verifyAccessToken makes them.  The first call of a process starts createTable;
\* a call that finds the promise there only awaits it.
Redeem(c) ==
    /\ pc[c] = "idle"
    /\ pc' = [pc EXCEPT ![c] = "init"]
    /\ ready' = [ready EXCEPT ![relay[c]] = IF @ = "unset" THEN "pending" ELSE @]
    /\ UNCHANGED <<table, wire, token, relay>>

\* createTable succeeds, or answers 409 because the table is there.
TableReady(r) ==
    /\ ready[r] = "pending"
    /\ ready' = [ready EXCEPT ![r] = "ok"]
    /\ UNCHANGED <<table, wire, pc, token, relay>>

\* createTable fails or runs into the deadline of the call that started it:
\* the promise is dropped and every call awaiting it throws.
TableFailed(r) ==
    /\ ready[r] = "pending"
    /\ ready' = [ready EXCEPT ![r] = "unset"]
    /\ pc' = [c \in Claims |-> IF pc[c] = "init" /\ relay[c] = r
                               THEN "unavailable" ELSE pc[c]]
    /\ UNCHANGED <<table, wire, token, relay>>

\* The table is there: send the insert.
SendCreate(c) ==
    /\ pc[c] = "init"
    /\ ready[relay[c]] = "ok"
    /\ pc' = [pc EXCEPT ![c] = "create"]
    /\ wire' = [wire EXCEPT ![c] = "sent"]
    /\ UNCHANGED <<table, ready, token, relay>>

\* The table is there but the deadline has passed: neither the insert nor the
\* read-back is tried.
DeadlineBeforeCreate(c) ==
    /\ pc[c] = "init"
    /\ ready[relay[c]] = "ok"
    /\ pc' = [pc EXCEPT ![c] = "unavailable"]
    /\ UNCHANGED <<table, wire, ready, token, relay>>

\* The insert is acknowledged.
CreateAcked(c) ==
    /\ pc[c] = "create"
    /\ wire[c] = "created"
    /\ pc' = [pc EXCEPT ![c] = "admitted"]
    /\ UNCHANGED <<table, wire, ready, token, relay>>

\* Mutant: any error of the insert counts as a duplicate.
MutantErrorIsDuplicate(c) ==
    /\ pc[c] = "create"
    /\ pc' = [pc EXCEPT ![c] = "spent"]
    /\ UNCHANGED <<table, wire, ready, token, relay>>

\* Mutant: no deadline, the call waits for the answer of the insert.
MutantNoDeadline(c) ==
    /\ pc[c] = "create"
    /\ wire[c] # "sent"
    /\ pc' = [pc EXCEPT ![c] = "readback"]
    /\ UNCHANGED <<table, wire, ready, token, relay>>

\* The insert reports an error, whatever happened to it: 409, a lost
\* acknowledgment, or no answer within the deadline.
CreateFailed(c) ==
    /\ pc[c] = "create"
    /\ pc' = [pc EXCEPT ![c] = "readback"]
    /\ UNCHANGED <<table, wire, ready, token, relay>>

\* Mutant: a row is taken for this claim's own without comparing claim IDs.
MutantVerdictAnyRow(c) == IF table[token[c]] # NoClaim THEN "admitted" ELSE "spent"

\* getEntity finds a row: this claim's own row admits, any other rejects.
Verdict(c) == IF table[token[c]] = c THEN "admitted" ELSE "spent"

ReadBack(c) ==
    /\ pc[c] = "readback"
    /\ table[token[c]] # NoClaim
    /\ pc' = [pc EXCEPT ![c] = Verdict(c)]
    /\ UNCHANGED <<table, wire, ready, token, relay>>

\* getEntity fails, finds no row (404), or the deadline has passed.
ReadBackFailed(c) ==
    /\ pc[c] = "readback"
    /\ pc' = [pc EXCEPT ![c] = "unavailable"]
    /\ UNCHANGED <<table, wire, ready, token, relay>>

\* A relay process dies: its calls never answer, its promise is gone; what it
\* has sent stays on the wire.
Crash(r) ==
    /\ \E c \in Claims : pc[c] \in Waiting /\ relay[c] = r
    /\ ready' = [ready EXCEPT ![r] = "unset"]
    /\ pc' = [c \in Claims |-> IF pc[c] \in Waiting /\ relay[c] = r
                               THEN "crashed" ELSE pc[c]]
    /\ UNCHANGED <<table, wire, token, relay>>

-----------------------------------------------------------------------------
(* External: the Azure table.  createEntity is create-only.  The insert    *)
(* may be applied at any time after it was sent, or never.                 *)

CreateEntity(c) ==
    /\ wire[c] = "sent"
    /\ IF table[token[c]] = NoClaim
       THEN /\ table' = [table EXCEPT ![token[c]] = c]
            /\ wire' = [wire EXCEPT ![c] = "created"]
       ELSE /\ wire' = [wire EXCEPT ![c] = "conflict"]
            /\ UNCHANGED table
    /\ UNCHANGED <<ready, pc, token, relay>>

-----------------------------------------------------------------------------

CallStep(c) ==
    \/ SendCreate(c) \/ DeadlineBeforeCreate(c)
    \/ CreateAcked(c) \/ CreateFailed(c)
    \/ ReadBack(c) \/ ReadBackFailed(c)

StoreNext ==
    \/ \E c \in Claims : Redeem(c) \/ CallStep(c) \/ CreateEntity(c)
    \/ \E r \in Relays : TableReady(r) \/ TableFailed(r) \/ Crash(r)

\* Every await of redeem is raced against its deadline (bounded), so a call
\* that can continue does; nothing forces the store, a new call or a crash.
StoreFairness ==
    /\ \A c \in Claims : WF_storeVars(CallStep(c))
    /\ \A r \in Relays : WF_storeVars(TableReady(r) \/ TableFailed(r))

StoreSpec == StoreInit /\ [][StoreNext]_storeVars /\ StoreFairness

-----------------------------------------------------------------------------
(* What the store promises, and how this state shows it: the row owns the  *)
(* token from the moment Azure applies the insert.                         *)

Answer == [c \in Claims |-> IF pc[c] \in Verdicts THEN pc[c] ELSE "none"]

Abstract == INSTANCE SpendOnce WITH owner <- table, verdict <- Answer

\* The store implements SpendOnce: every step of the insert and read-back
\* protocol is one atomic decision about a token or an answer that agrees
\* with the decision (redemption-store.js 31-47).
ImplementsSpendOnce == Abstract!Spec

-----------------------------------------------------------------------------
(* Properties.                                                             *)

\* A token admits at most one request, over all relay processes, lost
\* acknowledgments, late inserts and crashes (redemption-store.js 37-46).
SpentAtMostOnce ==
    \A c1, c2 \in Claims :
        pc[c1] = "admitted" /\ pc[c2] = "admitted" /\ token[c1] = token[c2]
            => c1 = c2

\* A token is refused as spent (401) only because another claim owns it; a
\* call whose own insert is lost or late answers unavailable (503) or is
\* admitted, so the client is never told its fresh token was spent (39-45).
RefusedOnlyIfTaken ==
    \A c \in Claims : pc[c] = "spent" => table[token[c]] \notin {NoClaim, c}

\* Every call of redeem is answered or dies with its process: the deadline
\* covers createTable, the insert and the read-back (8-17, 33-45).
EveryCallReturns ==
    \A c \in Claims : pc[c] \in Waiting ~> pc[c] \in Verdicts \cup {"crashed"}
=============================================================================
