--------------------------- MODULE IssuerReplicas ----------------------------
(***************************************************************************)
(* The replicas of the issuer over one table: every call of reserve first  *)
(* awaits the initialization of its replica (StateBootstrap) and then runs *)
(* the loop of IssuerState, whose rows are those under the stored salt.  A *)
(* replica that dies takes its calls along and comes back uninitialized,   *)
(* perhaps with another salt.                                              *)
(***************************************************************************)
EXTENDS IssuerState

CONSTANTS Replicas, Salts, NoSalt, Host

ASSUME SaltIsNoSalt == NoSalt \notin Salts
ASSUME HostOfCall == Host \in [Requests -> Replicas]

VARIABLES
    stable, table, config, late, salt, ready, entity, gate,  \* StateBootstrap
    rowSalts    \* history: salts under which the row of a device was sent

issuer == <<rows, wire, client, commits, charged>>
bootstrap == <<stable, table, config, late, salt, ready, entity, gate>>
allVars == <<issuer, bootstrap, rowSalts>>

Boot == INSTANCE StateBootstrap WITH Calls <- Requests

\* The memory backend has nothing to initialize and one replica.
ReplicasInit == Init /\ backend = "azure" /\ Boot!Init /\ rowSalts = {}

\* backend.get, up to the await of initialize.
Call(r) == Reserve(r) /\ Boot!Enter(r) /\ UNCHANGED rowSalts

\* The loop of a call that has passed initialize.
Loop(r) ==
    /\ gate[r] = "in"
    /\ CallStep(r)
    /\ rowSalts' = IF wire'[r] = "sent" /\ wire[r] # "sent"
                   THEN rowSalts \cup {salt[Host[r]]} ELSE rowSalts
    /\ UNCHANGED bootstrap

\* initialize has thrown StateUnavailable.
Thrown(r) ==
    /\ gate[r] = "thrown"
    /\ GetFailed(r)
    /\ UNCHANGED <<bootstrap, rowSalts>>

ReplicaInitializes(p) == Boot!InitializeStep(p) /\ UNCHANGED <<issuer, rowSalts>>

\* All calls of the replica end without an answer; what they sent stays on the
\* wire.
ReplicaDies(p) ==
    /\ Boot!Crash(p)
    /\ pc' = [r \in Requests |-> IF Host[r] = p /\ pc[r] \in Active THEN "unavailable" ELSE pc[r]]
    /\ UNCHANGED <<rows, wire, backend, arg, loop, prior, conflict, commits, charged, rowSalts>>

\* External: the store.
RowWrite(r) == (Commit(r) \/ Conflict(r)) /\ UNCHANGED <<bootstrap, rowSalts>>
StoreAnswers == Boot!StoreStep /\ UNCHANGED <<issuer, rowSalts>>
LateConfig == (\E s \in late : Boot!CreateLate(s)) /\ UNCHANGED <<issuer, rowSalts>>
Calm == Boot!Stabilise /\ UNCHANGED <<issuer, rowSalts>>

ReplicasNext ==
    \/ \E r \in Requests : Call(r) \/ Loop(r) \/ Thrown(r) \/ RowWrite(r)
    \/ \E p \in Replicas : ReplicaInitializes(p) \/ ReplicaDies(p)
    \/ StoreAnswers \/ LateConfig \/ Calm

\* Every await has a deadline, which counts as a failure while there are
\* faults; without faults the store answers.
ReplicasFairness ==
    /\ \A r \in Requests : WF_allVars(Loop(r) \/ Thrown(r))
    /\ \A p \in Replicas : WF_allVars(ReplicaInitializes(p))
    /\ WF_allVars(stable /\ StoreAnswers)

ReplicasSpec == ReplicasInit /\ [][ReplicasNext]_allVars /\ ReplicasFairness

-----------------------------------------------------------------------------
(* Properties.                                                             *)

\* Devices are looked up and charged under one salt only, the stored one, for
\* all replicas, crashes and restarts: no device is ever given a second,
\* empty account (state-store.js 53-61, 98, server.js 168-171).
OneSalt ==
    /\ rowSalts \subseteq {config}
    /\ \A r \in Requests : gate[r] = "in" => salt[Host[r]] = config

\* Once the faults are over, a call in a replica with the stored salt is not
\* turned away, whatever failed there before it came (state-store.js 62).
RecoversFromFailure ==
    [][\A r \in Requests :
          stable /\ gate[r] # "thrown" /\ gate'[r] = "thrown"
          => salt[Host[r]] # config]_allVars
=============================================================================
