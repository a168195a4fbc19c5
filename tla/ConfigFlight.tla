---------------------------- MODULE ConfigFlight -----------------------------
(***************************************************************************)
(* GET /ohttp-configs of the relay, ohttp-relay/server.js: serveConfig and *)
(* the shared gateway request it makes, proxyGatewayRequest.  Concurrent   *)
(* callers join one flight to the gateway; a caller may disconnect at any  *)
(* moment, the last one to leave cancels the flight, and every caller is   *)
(* logged with one terminal outcome.                                       *)
(*                                                                         *)
(* Node marks a response destroyed first and emits 'close' later, so that  *)
(* a flight can finish in between; both steps are modelled.  A flight is   *)
(* identified with the caller that started it.                             *)
(***************************************************************************)
EXTENDS FiniteSets, Naturals

CONSTANTS
    Callers,    \* GET /ohttp-configs requests
    NoFlight    \* configFlight is null

ASSUME NoFlightAssumption == NoFlight \notin Callers

VARIABLES
    cfgGw,          \* the gateway's config URL is usable
    configCache,    \* "empty", "fresh" or "expired" (older than CONFIG_TTL_MS)
    configFlight,   \* the flight a new caller tries to join
    upstream,       \* greq of a flight: "none", "open", "failed" or "closed"
    completed,      \* the flight is over
    callers,        \* the callers waiting on a flight
    callerStage,    \* "new", "waiting" or "done"
    destroyed,      \* the caller's connection is gone
    closePending,   \* its 'close' event is still to come
    reply,          \* the status the caller was sent, or "none"
    outcomes        \* how many terminal outcomes were logged for the caller

shared == <<cfgGw, configCache, configFlight>>
flight == <<upstream, completed, callers>>
caller == <<callerStage, destroyed, closePending, reply, outcomes>>
configVars == <<shared, flight, caller>>

\* Type correctness of the shared flight, its callers and their replies: a
\* caller is told a status proxyGatewayRequest can send (server.js 525-600).
ConfigTypeOK ==
    /\ cfgGw \in BOOLEAN
    /\ configCache \in {"empty", "fresh", "expired"}
    /\ configFlight \in Callers \cup {NoFlight}
    /\ upstream \in [Callers -> {"none", "open", "failed", "closed"}]
    /\ completed \in [Callers -> BOOLEAN]
    /\ callers \in [Callers -> SUBSET Callers]
    /\ callerStage \in [Callers -> {"new", "waiting", "done"}]
    /\ destroyed \in [Callers -> BOOLEAN]
    /\ closePending \in [Callers -> BOOLEAN]
    /\ reply \in [Callers -> {"none", "200", "other", "499", "502"}]
    /\ outcomes \in [Callers -> Nat]

ConfigInit ==
    /\ cfgGw \in BOOLEAN
    /\ configCache = "empty"
    /\ configFlight = NoFlight
    /\ upstream = [f \in Callers |-> "none"]
    /\ completed = [f \in Callers |-> FALSE]
    /\ callers = [f \in Callers |-> {}]
    /\ callerStage = [c \in Callers |-> "new"]
    /\ destroyed = [c \in Callers |-> FALSE]
    /\ closePending = [c \in Callers |-> FALSE]
    /\ reply = [c \in Callers |-> "none"]
    /\ outcomes = [c \in Callers |-> 0]

\* A flight that was started and has not finished.
Open(f) == upstream[f] # "none" /\ ~completed[f]

-----------------------------------------------------------------------------
(* The pieces of proxyGatewayRequest.                                      *)

\* Mutant: a caller whose connection is gone is not logged.
MutantOutcome(S, status) ==
    /\ callerStage' = [c \in Callers |-> IF c \in S THEN "done" ELSE callerStage[c]]
    /\ reply' = [c \in Callers |->
                   IF c \in S /\ ~destroyed[c] THEN status ELSE reply[c]]
    /\ outcomes' = [c \in Callers |->
                   IF c \in S /\ ~destroyed[c] THEN outcomes[c] + 1 ELSE outcomes[c]]
    /\ closePending' = [c \in Callers |-> c \notin S /\ closePending[c]]

\* The callers S are logged with their terminal outcome and, unless their
\* connection is gone, answered; their close listeners are removed.
Outcome(S, status) ==
    /\ callerStage' = [c \in Callers |-> IF c \in S THEN "done" ELSE callerStage[c]]
    /\ reply' = [c \in Callers |->
                   IF c \in S /\ ~destroyed[c] THEN status ELSE reply[c]]
    /\ outcomes' = [c \in Callers |->
                   IF c \in S THEN outcomes[c] + 1 ELSE outcomes[c]]
    /\ closePending' = [c \in Callers |-> c \notin S /\ closePending[c]]

\* finish, once per flight: onFinish forgets configFlight, whichever it is.
Finish(f) ==
    /\ upstream' = [upstream EXCEPT ![f] = "closed"]
    /\ completed' = [completed EXCEPT ![f] = TRUE]
    /\ callers' = [callers EXCEPT ![f] = {}]
    /\ configFlight' = NoFlight

-----------------------------------------------------------------------------
(* serveConfig.                                                            *)

\* Answered at once: 200 from the cache, or 502 without a gateway URL.
ServeDirectly(c) ==
    /\ callerStage[c] = "new"
    /\ configCache = "fresh" \/ ~cfgGw
    /\ Outcome({c}, IF configCache = "fresh" THEN "200" ELSE "502")
    /\ UNCHANGED <<shared, flight, destroyed>>

\* Mutant: a finished flight still takes callers.
MutantJoinable == configFlight # NoFlight

\* configFlight.add accepts callers until its flight has completed.
Joinable == configFlight # NoFlight /\ ~completed[configFlight]

\* A caller that is already gone when it is added is logged as 499 at once.
Join(c) ==
    /\ callerStage[c] = "new" /\ configCache # "fresh" /\ cfgGw
    /\ Joinable
    /\ IF destroyed[c]
       THEN Outcome({c}, "499") /\ UNCHANGED callers
       ELSE /\ callerStage' = [callerStage EXCEPT ![c] = "waiting"]
            /\ callers' = [callers EXCEPT ![configFlight] = @ \cup {c}]
            /\ UNCHANGED <<closePending, reply, outcomes>>
    /\ UNCHANGED <<shared, upstream, completed, destroyed>>

\* A new flight.  If its caller is already gone the flight completes while it
\* is being made, greq is never sent, and configFlight is set to the completed
\* flight all the same.
Depart(c) ==
    /\ callerStage[c] = "new" /\ configCache # "fresh" /\ cfgGw
    /\ ~Joinable
    /\ configFlight' = c
    /\ IF destroyed[c]
       THEN /\ Outcome({c}, "499")
            /\ upstream' = [upstream EXCEPT ![c] = "closed"]
            /\ completed' = [completed EXCEPT ![c] = TRUE]
            /\ UNCHANGED callers
       ELSE /\ callerStage' = [callerStage EXCEPT ![c] = "waiting"]
            /\ upstream' = [upstream EXCEPT ![c] = "open"]
            /\ callers' = [callers EXCEPT ![c] = {c}]
            /\ UNCHANGED <<completed, closePending, reply, outcomes>>
    /\ UNCHANGED <<cfgGw, configCache, destroyed>>

-----------------------------------------------------------------------------
(* The gateway and the clients.                                            *)

\* gres 'end': a 200 is cached before the callers are answered, any other
\* status is passed on only.
GatewayAnswers(f) ==
    /\ Open(f) /\ upstream[f] = "open"
    /\ \/ configCache' = "fresh" /\ Outcome(callers[f], "200")
       \/ UNCHANGED configCache /\ Outcome(callers[f], "other")
    /\ Finish(f)
    /\ UNCHANGED <<cfgGw, destroyed>>

\* greq 'timeout': the request is destroyed, its 'error' follows.
GatewayTimeout(f) ==
    /\ Open(f) /\ upstream[f] = "open"
    /\ upstream' = [upstream EXCEPT ![f] = "failed"]
    /\ UNCHANGED <<shared, completed, callers, caller>>

\* Mutant: only a response error finishes the flight, a timeout does not.
MutantGatewayFails(f) ==
    /\ Open(f) /\ upstream[f] = "open"
    /\ Outcome(callers[f], "502")
    /\ Finish(f)
    /\ UNCHANGED <<cfgGw, configCache, destroyed>>

\* greq 'error', gres 'error', or a response over MAX_RESP_BYTES: 502.
GatewayFails(f) ==
    /\ Open(f)
    /\ Outcome(callers[f], "502")
    /\ Finish(f)
    /\ UNCHANGED <<cfgGw, configCache, destroyed>>

\* The client of c goes away.
CallerDisconnects(c) ==
    /\ ~destroyed[c] /\ reply[c] = "none"
    /\ destroyed' = [destroyed EXCEPT ![c] = TRUE]
    /\ closePending' = [closePending EXCEPT ![c] = callerStage[c] = "waiting"]
    /\ UNCHANGED <<shared, flight, callerStage, reply, outcomes>>

\* Mutant: whoever leaves cancels the flight.
MutantLastCaller(c, f) == TRUE

\* callers.size is 0 once c is deleted.
LastCaller(c, f) == callers[f] \ {c} = {}

\* 'close' reaches the listener of a waiting caller: it leaves, logged as 499;
\* the last one to leave finishes the flight with 499 for whoever is left and
\* destroys the gateway request.
Closed(c, f) ==
    /\ closePending[c] /\ c \in callers[f] /\ ~completed[f]
    /\ IF LastCaller(c, f)
       THEN Outcome(callers[f], "499") /\ Finish(f)
       ELSE /\ Outcome({c}, "499")
            /\ callers' = [callers EXCEPT ![f] = @ \ {c}]
            /\ UNCHANGED <<completed, upstream, configFlight>>
    /\ UNCHANGED <<cfgGw, configCache, destroyed>>

\* The cached config passes CONFIG_TTL_MS.
CacheExpires ==
    /\ configCache = "fresh"
    /\ configCache' = "expired"
    /\ UNCHANGED <<cfgGw, configFlight, flight, caller>>

-----------------------------------------------------------------------------

ConfigNext ==
    \/ \E c \in Callers :
        \/ ServeDirectly(c) \/ Join(c) \/ Depart(c) \/ CallerDisconnects(c)
        \/ GatewayAnswers(c) \/ GatewayTimeout(c) \/ GatewayFails(c)
        \/ \E f \in Callers : Closed(c, f)
    \/ CacheExpires

\* A gateway request ends: it is answered, breaks, exceeds MAX_RESP_BYTES or
\* stays silent for GW_TIMEOUT_MS.  Nothing forces a client to leave.
ConfigFairness == \A f \in Callers : WF_configVars(GatewayAnswers(f) \/ GatewayFails(f))

ConfigSpec == ConfigInit /\ [][ConfigNext]_configVars /\ ConfigFairness

-----------------------------------------------------------------------------
(* Properties.                                                             *)

\* At most one flight is open, and it is the one new callers join: finish of
\* one flight never hides another, and the gateway sees one config request at
\* a time (server.js 350, 358-362, 532).
OneOpenFlight == \A f \in Callers : Open(f) => configFlight = f

\* The gateway works for somebody: an open flight has a caller waiting, and a
\* completed one has no gateway request left (552-556).
NoIdleUpstream ==
    \A f \in Callers : upstream[f] \in {"open", "failed"} => callers[f] # {}

\* Nobody waits on a flight that is over, or on two.
EveryWaiterHasFlight ==
    \A c \in Callers : callerStage[c] = "waiting" =>
        Cardinality({f \in Callers : Open(f) /\ c \in callers[f]}) = 1

\* Concurrent callers share one gateway request, and it is there for as long as
\* somebody waits for it and no longer.
FlightsAreShared == OneOpenFlight /\ NoIdleUpstream /\ EveryWaiterHasFlight

\* Each caller logs one terminal outcome (ohttp-relay/README.md, Observability):
\* none while it waits and exactly one when it is done, however 'close', the
\* end of the flight and the caller's own arrival interleave (529-562).
OneOutcome == \A c \in Callers : outcomes[c] = IF callerStage[c] = "done" THEN 1 ELSE 0

\* A caller that stays gets what the gateway made of its flight: another
\* caller that leaves never ends its wait (548-556).
OthersNeverCancel ==
    [][\A c \in Callers :
          callerStage[c] = "waiting" /\ callerStage'[c] = "done" =>
              reply'[c] \in {"200", "other", "502"} \/ destroyed[c]]_configVars

\* Every waiting caller is answered or gone (563-598).
EveryCallerReleased ==
    \A c \in Callers : callerStage[c] = "waiting" ~> callerStage[c] = "done"
=============================================================================
