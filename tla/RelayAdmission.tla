--------------------------- MODULE RelayAdmission ----------------------------
(***************************************************************************)
(* Admission, ownership of capacity and shutdown of the relay,             *)
(* ohttp-relay/server.js: the handler of POST /relay from the capacity     *)
(* check to the release of its slot, against a client that may disconnect  *)
(* at any moment, an authorization that answers late, a gateway that       *)
(* answers, fails or times out, and a SIGTERM at any moment.               *)
(*                                                                         *)
(* The per-client window budget is the module RateLimiter; here its        *)
(* verdict is an input.                                                    *)
(***************************************************************************)
EXTENDS Integers, FiniteSets

CONSTANTS
    Requests,           \* POST /relay requests
    Clients,            \* values of clientIpKey
    MaxInflight,        \* MAX_INFLIGHT
    MaxClientInflight   \* MAX_CLIENT_INFLIGHT

ASSUME RequestsFinite == IsFiniteSet(Requests)
ASSUME CapacityAssumption == MaxInflight \in Nat /\ MaxClientInflight \in Nat

VARIABLES
    stage,              \* where the handler of a request stands
    ip,                 \* the client a request comes from
    connected,          \* the client's connection is up (res is not destroyed)
    replied,            \* res.end was called
    holds,              \* acquired a slot and slotReleased is false
    releaseRequested,   \* releaseSlot was called while authPending
    inflight,           \* counter
    clientInflight,     \* counter per client
    draining, httpClosed,
    exit                \* "running", or how the process ended

request == <<stage, ip, connected, replied>>
slots == <<holds, releaseRequested, inflight, clientInflight>>
process == <<draining, httpClosed, exit>>
vars == <<request, slots, process>>

Working == {"auth", "body", "forward"}

\* Type correctness; neither inflight nor a client's count falls below zero
\* (server.js 442-449).
TypeOK ==
    /\ stage            \in [Requests -> {"new", "done"} \cup Working]
    /\ ip               \in [Requests -> Clients]
    /\ connected        \in [Requests -> BOOLEAN]
    /\ replied          \in [Requests -> BOOLEAN]
    /\ holds            \in [Requests -> BOOLEAN]
    /\ releaseRequested \in [Requests -> BOOLEAN]
    /\ inflight         \in Nat
    /\ clientInflight   \in [Clients -> Nat]
    /\ draining \in BOOLEAN /\ httpClosed \in BOOLEAN
    /\ exit \in {"running", "clean", "forced"}

Init ==
    /\ stage            = [r \in Requests |-> "new"]
    /\ ip               \in [Requests -> Clients]
    /\ connected        = [r \in Requests |-> FALSE]
    /\ replied          = [r \in Requests |-> FALSE]
    /\ holds            = [r \in Requests |-> FALSE]
    /\ releaseRequested = [r \in Requests |-> FALSE]
    /\ inflight         = 0
    /\ clientInflight   = [c \in Clients |-> 0]
    /\ draining = FALSE /\ httpClosed = FALSE
    /\ exit = "running"

-----------------------------------------------------------------------------
(* Slots and the end of a drain.                                           *)

\* Mutant: the drain ends with the listener, work in flight or not.
MutantFinishDrain(closed, n) ==
    exit' = IF draining /\ closed THEN "clean" ELSE exit

\* finishDrain, with the values its caller has just assigned.
FinishDrain(closed, n) ==
    exit' = IF draining /\ closed /\ n = 0 THEN "clean" ELSE exit

\* Mutant: the last release does not end the drain.
MutantSilentRelease(r) ==
    IF holds[r]
    THEN /\ holds' = [holds EXCEPT ![r] = FALSE]
         /\ inflight' = inflight - 1
         /\ clientInflight' = [clientInflight EXCEPT ![ip[r]] = @ - 1]
         /\ UNCHANGED exit
    ELSE UNCHANGED <<holds, inflight, clientInflight, exit>>

\* Mutant: only the global counter is given back.
MutantGlobalRelease(r) ==
    IF holds[r]
    THEN /\ holds' = [holds EXCEPT ![r] = FALSE]
         /\ inflight' = inflight - 1
         /\ UNCHANGED clientInflight
         /\ FinishDrain(httpClosed, inflight - 1)
    ELSE UNCHANGED <<holds, inflight, clientInflight, exit>>

\* The slot of r is given back, once, and the drain may be over.
GiveBack(r) ==
    IF holds[r]
    THEN /\ holds' = [holds EXCEPT ![r] = FALSE]
         /\ inflight' = inflight - 1
         /\ clientInflight' = [clientInflight EXCEPT ![ip[r]] = @ - 1]
         /\ FinishDrain(httpClosed, inflight - 1)
    ELSE UNCHANGED <<holds, inflight, clientInflight, exit>>

\* releaseSlot outside the wait for authorization.
ReleaseSlot(r) ==
    /\ GiveBack(r)
    /\ UNCHANGED <<releaseRequested, draining, httpClosed>>

\* Mutant: a disconnect gives the slot back although authorization goes on.
MutantEarlyRelease(r) ==
    /\ GiveBack(r)
    /\ UNCHANGED <<releaseRequested, draining, httpClosed>>

\* releaseSlot while authPending: only remembered.
DeferRelease(r) ==
    /\ releaseRequested' = [releaseRequested EXCEPT ![r] = TRUE]
    /\ UNCHANGED <<holds, inflight, clientInflight, process>>

-----------------------------------------------------------------------------
(* The handler.                                                            *)

\* Room under both concurrency caps.
HasCapacity(r) ==
    inflight < MaxInflight /\ clientInflight[ip[r]] < MaxClientInflight

\* Answered before any slot is taken: 503 while draining, 403, 404 or 415, or
\* 429 over the window budget or over either concurrency cap.
RefuseEarly(r) ==
    /\ exit = "running" /\ ~httpClosed /\ stage[r] = "new"
    /\ stage' = [stage EXCEPT ![r] = "done"]
    /\ connected' = [connected EXCEPT ![r] = TRUE]
    /\ replied' = [replied EXCEPT ![r] = TRUE]
    /\ UNCHANGED <<ip, slots, process>>

\* A slot is taken before authorization starts.
Admit(r) ==
    /\ exit = "running" /\ stage[r] = "new"
    /\ ~draining
    /\ HasCapacity(r)
    /\ stage' = [stage EXCEPT ![r] = "auth"]
    /\ connected' = [connected EXCEPT ![r] = TRUE]
    /\ holds' = [holds EXCEPT ![r] = TRUE]
    /\ inflight' = inflight + 1
    /\ clientInflight' = [clientInflight EXCEPT ![ip[r]] = @ + 1]
    /\ UNCHANGED <<ip, replied, releaseRequested, process>>

\* `finally`: authPending is false, and a release that was asked for while it
\* was true, or a connection that is gone, gives the slot back now.
AuthFinally(r) ==
    /\ IF releaseRequested[r] \/ ~connected[r]
       THEN GiveBack(r)
       ELSE UNCHANGED <<holds, inflight, clientInflight, exit>>
    /\ UNCHANGED <<releaseRequested, draining, httpClosed>>

\* clientAuthorized answers false (401) or throws (503).
AuthRejects(r) ==
    /\ exit = "running" /\ stage[r] = "auth"
    /\ stage' = [stage EXCEPT ![r] = "done"]
    /\ replied' = [replied EXCEPT ![r] = connected[r]]
    /\ AuthFinally(r)
    /\ UNCHANGED <<ip, connected>>

\* clientAuthorized answers true; a client that left meanwhile gets no further.
AuthAccepts(r) ==
    /\ exit = "running" /\ stage[r] = "auth"
    /\ stage' = [stage EXCEPT ![r] = IF connected[r] THEN "body" ELSE "done"]
    /\ AuthFinally(r)
    /\ UNCHANGED <<ip, connected, replied>>

\* The body is complete: one request goes out to the gateway.
BodyEnds(r) ==
    /\ exit = "running" /\ stage[r] = "body"
    /\ stage' = [stage EXCEPT ![r] = "forward"]
    /\ UNCHANGED <<ip, connected, replied, slots, process>>

\* The body exceeds MAX_BODY: 413, release, and the connection is torn down.
BodyTooLarge(r) ==
    /\ exit = "running" /\ stage[r] = "body"
    /\ stage' = [stage EXCEPT ![r] = "done"]
    /\ replied' = [replied EXCEPT ![r] = TRUE]
    /\ connected' = [connected EXCEPT ![r] = FALSE]
    /\ ReleaseSlot(r)
    /\ UNCHANGED ip

\* The gateway's answer is complete, or the gateway request failed, timed out
\* or sent too much (502): the answer is handed to the connection.
GatewayDone(r) ==
    /\ exit = "running" /\ stage[r] = "forward"
    /\ stage' = [stage EXCEPT ![r] = "done"]
    /\ replied' = [replied EXCEPT ![r] = TRUE]
    /\ UNCHANGED <<ip, connected, slots, process>>

\* res 'finish': the buffered answer is flushed, the slot is given back.
Flush(r) ==
    /\ exit = "running" /\ stage[r] = "done" /\ replied[r] /\ connected[r]
    /\ connected' = [connected EXCEPT ![r] = FALSE]
    /\ ReleaseSlot(r)
    /\ UNCHANGED <<stage, ip, replied>>

\* The connection goes away (client, or requestTimeout): req 'aborted' and res
\* 'close'.  In the forward stage the gateway request is destroyed first.
Disconnect(r) ==
    /\ exit = "running" /\ stage[r] # "new" /\ connected[r]
    /\ connected' = [connected EXCEPT ![r] = FALSE]
    /\ IF stage[r] = "auth"
       THEN DeferRelease(r) /\ UNCHANGED stage
       ELSE ReleaseSlot(r) /\ stage' = [stage EXCEPT ![r] = "done"]
    /\ UNCHANGED <<ip, replied>>

-----------------------------------------------------------------------------
(* Shutdown.                                                               *)

\* SIGTERM or SIGINT: beginShutdown.
BeginShutdown ==
    /\ exit = "running" /\ ~draining
    /\ draining' = TRUE
    /\ UNCHANGED <<request, slots, httpClosed, exit>>

\* The callback of server.close: no connection is left.
HttpClosed ==
    /\ exit = "running" /\ draining /\ ~httpClosed
    /\ \A r \in Requests : ~connected[r]
    /\ httpClosed' = TRUE
    /\ FinishDrain(TRUE, inflight)
    /\ UNCHANGED <<request, slots, draining>>

\* The 25 second timer.
ForceExit ==
    /\ exit = "running" /\ draining
    /\ exit' = "forced"
    /\ UNCHANGED <<request, slots, draining, httpClosed>>

-----------------------------------------------------------------------------

Handle(r) ==
    \/ AuthRejects(r) \/ AuthAccepts(r)
    \/ BodyEnds(r) \/ BodyTooLarge(r) \/ GatewayDone(r)
    \/ Flush(r) \/ Disconnect(r)

Next ==
    \/ \E r \in Requests : RefuseEarly(r) \/ Admit(r) \/ Handle(r)
    \/ BeginShutdown \/ HttpClosed \/ ForceExit

\* A pending authorization ends within the deadlines of the stores, a slow
\* body within requestTimeout, a gateway request within its timeout, and a
\* connection that is written to is flushed or breaks.
Fairness ==
    /\ \A r \in Requests : WF_vars(Handle(r))
    /\ WF_vars(HttpClosed)

Spec == Init /\ [][Next]_vars /\ Fairness

-----------------------------------------------------------------------------
(* Properties.                                                             *)

Held == {r \in Requests : holds[r]}
HeldBy(c) == {r \in Held : ip[r] = c}

\* Both counters are exactly the slots in use, and within their caps: no path
\* leaks a slot or gives one back twice, whatever the order of finish, close,
\* aborted and the end of authorization (server.js 431-470).
SlotsAccounted ==
    /\ inflight = Cardinality(Held)
    /\ inflight <= MaxInflight
    /\ \A c \in Clients :
        /\ clientInflight[c] = Cardinality(HeldBy(c))
        /\ clientInflight[c] <= MaxClientInflight

\* Work in progress holds its slot: a client that disconnects cannot free
\* capacity while its authorization, and the spend inside it, or its gateway
\* request is still going on (440-441, 466-470, 558).
WorkHoldsSlot == \A r \in Requests : stage[r] \in Working => holds[r]

\* A clean exit abandons nothing: no authorization is pending, no body is
\* being read, no gateway request is out, no connection is up (161-169).
CleanExitIsIdle ==
    exit = "clean" => \A r \in Requests : stage[r] \notin Working /\ ~connected[r]

\* A drain ends although nobody forces it: once the clients' requests are
\* over the process leaves by itself (161-169, 448).
DrainEnds == draining ~> exit # "running"
=============================================================================
