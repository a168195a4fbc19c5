------------------------------ MODULE SpendOnce ------------------------------
(***************************************************************************)
(* What the relay is promised of a redemption store, whatever implements   *)
(* it: a token has at most one owner, taken in one atomic step and kept    *)
(* for ever; only the owner is admitted, a call is refused only when       *)
(* another call owns the token, and a call may always be left without an   *)
(* answer about the token (verifyAccessToken then answers 503).  A call    *)
(* may become the owner after it gave up: the store promises no rollback.  *)
(***************************************************************************)
CONSTANTS Claims, Tokens, NoClaim

VARIABLES
    owner,      \* the claim that owns a token
    token,      \* the token a claim is for
    verdict     \* the answer a claim was given

vars == <<owner, token, verdict>>

Init ==
    /\ owner = [t \in Tokens |-> NoClaim]
    /\ token \in [Claims -> Tokens]
    /\ verdict = [c \in Claims |-> "none"]

\* The one atomic decision about a token.
Take(c) ==
    /\ owner[token[c]] = NoClaim
    /\ owner' = [owner EXCEPT ![token[c]] = c]
    /\ UNCHANGED <<token, verdict>>

Admit(c) ==
    /\ verdict[c] = "none"
    /\ owner[token[c]] = c
    /\ verdict' = [verdict EXCEPT ![c] = "admitted"]
    /\ UNCHANGED <<owner, token>>

Refuse(c) ==
    /\ verdict[c] = "none"
    /\ owner[token[c]] \notin {NoClaim, c}
    /\ verdict' = [verdict EXCEPT ![c] = "spent"]
    /\ UNCHANGED <<owner, token>>

\* Calls that share one failed step give up together.
GiveUp(S) ==
    /\ \A c \in S : verdict[c] = "none"
    /\ verdict' = [c \in Claims |-> IF c \in S THEN "unavailable" ELSE verdict[c]]
    /\ UNCHANGED <<owner, token>>

Next ==
    \/ \E c \in Claims : Take(c) \/ Admit(c) \/ Refuse(c)
    \/ \E S \in SUBSET Claims : GiveUp(S)

Spec == Init /\ [][Next]_vars
=============================================================================
