---------------------------- MODULE DeviceLedger -----------------------------
(***************************************************************************)
(* What the issuer is promised of its state store, whatever implements it: *)
(* a reservation is decided and charged in one atomic step, at most once;  *)
(* it is granted only if it was charged, refused only if the account       *)
(* refuses it and it was not charged, and a call may always be left        *)
(* without an answer (503), charged or not: nothing is ever rolled back.   *)
(***************************************************************************)
EXTENDS DeviceAccount

CONSTANT Requests

VARIABLES
    accounts,   \* account of a device
    arg,        \* arguments of a call of reserve
    charged,    \* calls that have been charged
    answer      \* what a call was told

vars == <<accounts, arg, charged, answer>>

Init ==
    /\ accounts = [d \in Devices |-> NoAccount]
    /\ arg \in [Requests -> Argument]
    /\ charged = {}
    /\ answer = [r \in Requests |-> "none"]

\* The one atomic decision.
Reserve(r) ==
    /\ r \notin charged
    /\ Accepted(accounts[arg[r].device], arg[r])
    /\ accounts' = [accounts EXCEPT ![arg[r].device] = Charge(@, arg[r])]
    /\ charged' = charged \cup {r}
    /\ UNCHANGED <<arg, answer>>

Grant(r) ==
    /\ answer[r] = "none" /\ r \in charged
    /\ answer' = [answer EXCEPT ![r] = "ok"]
    /\ UNCHANGED <<accounts, arg, charged>>

\* The memory adapter decides and answers in one step.
ReserveAndGrant(r) ==
    /\ r \notin charged /\ answer[r] = "none"
    /\ Accepted(accounts[arg[r].device], arg[r])
    /\ accounts' = [accounts EXCEPT ![arg[r].device] = Charge(@, arg[r])]
    /\ charged' = charged \cup {r}
    /\ answer' = [answer EXCEPT ![r] = "ok"]
    /\ UNCHANGED arg

Refuse(r) ==
    /\ answer[r] = "none" /\ r \notin charged
    /\ ~Accepted(accounts[arg[r].device], arg[r])
    /\ answer' = [answer EXCEPT ![r] = Refusal(accounts[arg[r].device], arg[r])]
    /\ UNCHANGED <<accounts, arg, charged>>

GiveUp(r) ==
    /\ answer[r] = "none"
    /\ answer' = [answer EXCEPT ![r] = "unavailable"]
    /\ UNCHANGED <<accounts, arg, charged>>

Next ==
    \E r \in Requests :
        Reserve(r) \/ Grant(r) \/ ReserveAndGrant(r) \/ Refuse(r) \/ GiveUp(r)

Spec == Init /\ [][Next]_vars
=============================================================================
