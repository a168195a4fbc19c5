------------------------------- MODULE MCRelay -------------------------------
(***************************************************************************)
(* Small instance of the relay: the slots of /relay, the shared fetch of   *)
(* /ohttp-configs and the redemption store.  They have no variable in      *)
(* common, so that a behaviour of the relay is, for each of them, a        *)
(* behaviour of that part alone: one part moves and the others stay.       *)
(*                                                                         *)
(* Three requests of two clients against two slots, one per client.  Three *)
(* callers of the config, enough for one that starts a flight, one that    *)
(* joins it and one that comes when it is over.  Three calls of redeem,    *)
(* two tokens and two relay processes, so that two calls race for one      *)
(* token while a third spends another, in one process and across           *)
(* processes.                                                              *)
(***************************************************************************)
EXTENDS RelayAdmission, ConfigFlight, RedemptionStore

VARIABLE part   \* the part that moves

\* What is drawn at the start (who a request comes from, whether the gateway is
\* configured, which call redeems what and where) is drawn for the part that
\* moves.
RelayInit ==
    /\ part \in {"slots", "config", "store"}
    /\ Init /\ ConfigInit /\ StoreInit
    /\ part # "slots" => ip \in [Requests -> {CHOOSE c \in Clients : TRUE}]
    /\ part # "config" => cfgGw
    /\ part # "store" => /\ token \in [Claims -> {CHOOSE t \in Tokens : TRUE}]
                         /\ relay \in [Claims -> {CHOOSE r \in Relays : TRUE}]

RelayNext ==
    \/ part = "slots" /\ Next /\ UNCHANGED <<part, configVars, storeVars>>
    \/ part = "config" /\ ConfigNext /\ UNCHANGED <<part, vars, storeVars>>
    \/ part = "store" /\ StoreNext /\ UNCHANGED <<part, vars, configVars>>

\* Of a part that stays as it began, nothing that fairness asks for is enabled.
RelaySpec ==
    /\ RelayInit /\ [][RelayNext]_<<part, vars, configVars, storeVars>>
    /\ Fairness /\ ConfigFairness /\ StoreFairness
=============================================================================
