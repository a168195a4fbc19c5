--------------------------- MODULE StateBootstrap ----------------------------
(***************************************************************************)
(* initialize of azureDeviceBackend, token-issuer/state-store.js: before   *)
(* its first row every replica creates the table and the config row that   *)
(* holds the fingerprint of the salt, or reads that row back and compares. *)
(* The rows of devices are named by an HMAC with the salt, so a replica    *)
(* with another salt would find every device unknown and every quota       *)
(* unused.  All calls in a replica share one promise; a failed one is      *)
(* forgotten, so that the next call starts anew.                           *)
(*                                                                         *)
(* Until the environment is stable any call of the store may fail or time  *)
(* out, its effect taken, lost or yet to come, and replicas may die and    *)
(* come back with another salt.  The fingerprint is the salt itself        *)
(* (SHA-256).                                                              *)
(***************************************************************************)
CONSTANTS
    Replicas,   \* issuer processes
    Salts,      \* values of ISSUER_STATE_SALT
    NoSalt,     \* no config row
    Calls,      \* calls of get or put
    Host        \* the replica a call runs in

VARIABLES
    stable,     \* no more faults
    table,      \* external: the table: absent, asked for, or there
    config,     \* external: saltFingerprint of the config row
    late,       \* salts in config rows that were sent and abandoned
    salt,       \* the salt a replica was started with
    ready,      \* the promise of a replica, and what it waits for
    entity,     \* what became of the config row its promise has sent
    gate        \* a call at `await initialize`

store == <<table, config>>
vars == <<stable, table, config, late, salt, ready, entity, gate>>

Init ==
    /\ stable = FALSE
    /\ table = "absent"
    /\ config = NoSalt
    /\ late = {}
    /\ salt \in [Replicas -> Salts]
    /\ ready = [p \in Replicas |-> "unset"]
    /\ entity = [p \in Replicas |-> "none"]
    /\ gate = [c \in Calls |-> "out"]

WaitingAt(p) == {c \in Calls : Host[c] = p /\ gate[c] = "waiting"}

\* The promise settles: everyone who awaits it goes on or throws.
Settle(p, as, outcome) ==
    /\ ready' = [ready EXCEPT ![p] = as]
    /\ gate' = [c \in Calls |-> IF c \in WaitingAt(p) THEN outcome ELSE gate[c]]

Resolve(p) == Settle(p, "ok", "in")

\* Mutant: the rejected promise is kept.
MutantReject(p) == Settle(p, "failed", "thrown")

\* The promise is forgotten: `ready = undefined`.
Reject(p) == Settle(p, "unset", "thrown")

\* A call awaits the promise, starting it if there is none; to await one that
\* was rejected would throw.
Enter(c) ==
    LET p == Host[c] IN
    /\ gate[c] = "out"
    /\ gate' = [gate EXCEPT ![c] = CASE ready[p] = "ok"     -> "in"
                                     [] ready[p] = "failed" -> "thrown"
                                     [] OTHER               -> "waiting"]
    /\ ready' = [ready EXCEPT ![p] = IF @ = "unset" THEN "table" ELSE @]
    /\ table' = IF ready[p] = "unset" /\ table = "absent" THEN "asked" ELSE table
    /\ UNCHANGED <<stable, config, late, salt, entity>>

\* createTable succeeds or reports 409: send the config row.
TableThere(p) ==
    /\ ready[p] = "table" /\ table = "there"
    /\ ready' = [ready EXCEPT ![p] = "config"]
    /\ entity' = [entity EXCEPT ![p] = "sent"]
    /\ UNCHANGED <<stable, store, late, salt, gate>>

\* createTable fails in any other way, its deadline included.
TableFails(p) ==
    /\ ready[p] = "table" /\ ~stable
    /\ Reject(p)
    /\ UNCHANGED <<stable, store, late, salt, entity>>

\* createEntity is acknowledged.
ConfigAcked(p) ==
    /\ ready[p] = "config" /\ entity[p] = "created"
    /\ Resolve(p)
    /\ entity' = [entity EXCEPT ![p] = "none"]
    /\ UNCHANGED <<stable, store, late, salt>>

\* A config row that is still on its way when nobody waits for it any more.
Abandon(p) ==
    /\ late' = IF entity[p] = "sent" THEN late \cup {salt[p]} ELSE late
    /\ entity' = [entity EXCEPT ![p] = "none"]

\* createEntity reports that there is such a row, or fails in any other way
\* with an unknown effect: read the row back.
ConfigFails(p) ==
    /\ ready[p] = "config" /\ (entity[p] = "conflict" \/ ~stable)
    /\ ready' = [ready EXCEPT ![p] = "readback"]
    /\ Abandon(p)
    /\ UNCHANGED <<stable, store, salt, gate>>

\* Mutant: any config row will do.
MutantSameSalt(p) == config # NoSalt

SameSalt(p) == config = salt[p]

ReadBackMatches(p) ==
    /\ ready[p] = "readback" /\ SameSalt(p)
    /\ Resolve(p)
    /\ UNCHANGED <<stable, store, late, salt, entity>>

\* Another fingerprint, no such row, or a failed read.
ReadBackFails(p) ==
    /\ ready[p] = "readback" /\ (~SameSalt(p) \/ ~stable)
    /\ Reject(p)
    /\ UNCHANGED <<stable, store, late, salt, entity>>

\* The replica dies with its calls and is started again, with the salt that
\* the operator then gives it.
Crash(p) ==
    /\ ~stable
    /\ salt' \in {[salt EXCEPT ![p] = s] : s \in Salts}
    /\ ready' = [ready EXCEPT ![p] = "unset"]
    /\ Abandon(p)
    /\ gate' = [c \in Calls |-> IF Host[c] = p /\ gate[c] # "out" THEN "dead" ELSE gate[c]]
    /\ UNCHANGED <<stable, store>>

-----------------------------------------------------------------------------
(* External: the store applies what it was sent, now or later, and rejects *)
(* a second config row.                                                    *)

CreateTable ==
    /\ table = "asked"
    /\ table' = "there"
    /\ UNCHANGED <<stable, config, late, salt, ready, entity, gate>>

CreateConfig(p) ==
    /\ entity[p] = "sent"
    /\ config' = IF config = NoSalt THEN salt[p] ELSE config
    /\ entity' = [entity EXCEPT ![p] = IF config = NoSalt THEN "created" ELSE "conflict"]
    /\ UNCHANGED <<stable, table, late, salt, ready, gate>>

CreateLate(s) ==
    /\ s \in late
    /\ late' = late \ {s}
    /\ config' = IF config = NoSalt THEN s ELSE config
    /\ UNCHANGED <<stable, table, salt, ready, entity, gate>>

Stabilise ==
    /\ ~stable
    /\ stable' = TRUE
    /\ UNCHANGED <<store, late, salt, ready, entity, gate>>

-----------------------------------------------------------------------------

InitializeStep(p) ==
    \/ TableThere(p) \/ TableFails(p)
    \/ ConfigAcked(p) \/ ConfigFails(p)
    \/ ReadBackMatches(p) \/ ReadBackFails(p)

StoreStep == CreateTable \/ \E p \in Replicas : CreateConfig(p)
=============================================================================
