------------------------------ MODULE MCLimits -------------------------------
(***************************************************************************)
(* Small instance of the two limiters: the relay's, which counts requests  *)
(* per client in windows, and the gateway's, a token bucket for what it    *)
(* sends for all of them.  They are in two processes and have no variable  *)
(* in common: one moves and the other stays.                               *)
(*                                                                         *)
(* Three clients share a table of two keys, so that one may push another   *)
(* out, with a budget of two in a window of three ticks.  Two tokens per   *)
(* minute of three ticks, so that a token takes a tick and a half, one     *)
(* allowed target of two, and redirects.                                   *)
(***************************************************************************)
EXTENDS RateLimiter, GatewayForwarding

VARIABLE part   \* the limiter that moves

\* What is drawn at the start (how many proxies there are; the targets, and the
\* moment the properties speak of) is drawn for the limiter that moves.
LimitsInit ==
    /\ part \in {"relay", "gateway"}
    /\ LimiterInit /\ OutboundInit
    /\ part # "relay" => ~twoHops
    /\ part # "gateway" => mark = 0 /\ \A r \in Forwards : host[r] \in Allowed

LimitsNext ==
    \/ part = "relay" /\ LimiterNext /\ UNCHANGED <<part, outboundVars>>
    \/ part = "gateway" /\ OutboundNext /\ UNCHANGED <<part, limiterVars>>

LimitsSpec == LimitsInit /\ [][LimitsNext]_<<part, limiterVars, outboundVars>>

\* Clients are interchangeable, and so are requests (no liveness is checked).
ClientSymmetry == Permutations(Addresses) \cup Permutations(Forwards)
=============================================================================
