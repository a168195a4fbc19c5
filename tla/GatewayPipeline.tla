--------------------------- MODULE GatewayPipeline ---------------------------
(***************************************************************************)
(* The requests of the gateway from the HTTP handler to the encapsulated   *)
(* response, gateway.go and handler.go, and the interval summary they are  *)
(* counted in, summary_metrics.go.  Requests run in goroutines of their    *)
(* own; every record takes the mutex of the summary, and so does the       *)
(* drain of each minute, which may come between any two records.           *)
(*                                                                         *)
(* What the outbound limiter decides is the module GatewayForwarding; here *)
(* its verdict is an input, as are the outcomes of HPKE and of the codecs. *)
(***************************************************************************)
EXTENDS Naturals, Sequences, FiniteSets, Bags

CONSTANTS
    Requests,           \* HTTP requests to the gateway
    Methods,            \* their methods: any word a client may make up
    TargetStatuses      \* statuses the targets answer with

ASSUME StatusesAssumption ==
    TargetStatuses \cap {"none", "asked", "failed"} = {}
ASSUME RequestsFinite == IsFiniteSet(Requests)

VARIABLES
    codec,      \* the deployment's content handler: "binary" or "proto"
    method, path,
    at,         \* where the goroutine of a request stands
    todo,       \* the records it makes before it goes on
    status,     \* the HTTP status it answers with, between its last records
    inner,      \* the status inside the encapsulated response
    origin,     \* who made that response: the target, the limiter, the gateway
    target,     \* what the target said: nothing yet, a status, or a failure
    rows,       \* SummaryMetricsFactory.rows
    logged      \* what was drained and written as operational_summary

input == <<codec, method, path>>
response == <<status, inner, origin, target>>
summary == <<rows, logged>>
vars == <<input, at, todo, response, summary>>

None == "none"

Paths == {"target", "echo", "metadata", "configs", "below"}
Places == {"new", "app", "sent", "encode", "encapsulate", "done", "turned away"}
Stages == {"outer", "payload", "upstream", "result"}
Events == {"gateway_request", "configs_request"}

\* The results Fire knows; the handlers fire no other one.
Results ==
    {"config_mismatch", "decapsulation_failed", "encapsulation_failed",
     "content_decode_failed", "content_encode_failed", "request_translate_failed",
     "response_translate_failed", "request_forbidden", "request_failed", "rate_limited",
     "success", "invalid_method", "invalid_content_type", "invalid_content"}

Outcomes == Results \cup TargetStatuses \cup {"200", "400", "401", "403", "500"}

\* Type correctness; a request is answered exactly once its handler is over
\* (gateway.go 52-104).
TypeOK ==
    /\ codec \in {"binary", "proto"}
    /\ method \in [Requests -> Methods] /\ path \in [Requests -> Paths]
    /\ at \in [Requests -> Places]
    /\ todo \in [Requests -> Seq([event : Events, stage : Stages, outcome : Outcomes])]
    /\ status \in [Requests -> {"200", "400", "401", None}]
    /\ inner \in [Requests -> TargetStatuses \cup {"400", "403", "429", "500", None}]
    /\ origin \in [Requests -> {"target", "limiter", "gateway", None}]
    /\ target \in [Requests -> TargetStatuses \cup {"asked", "failed", None}]
    /\ IsABag(rows) /\ IsABag(logged)
    /\ \A r \in Requests : status[r] # None <=> at[r] \in {"done", "turned away"}

Init ==
    /\ codec \in {"binary", "proto"}
    /\ method \in [Requests -> Methods] /\ path \in [Requests -> Paths]
    /\ at = [r \in Requests |-> "new"]
    /\ todo = [r \in Requests |-> <<>>]
    /\ status = [r \in Requests |-> None]
    /\ inner = [r \in Requests |-> None]
    /\ origin = [r \in Requests |-> None]
    /\ target = [r \in Requests |-> None]
    /\ rows = EmptyBag /\ logged = EmptyBag

-----------------------------------------------------------------------------
(* The summary.                                                            *)

Event(r) == IF path[r] = "configs" THEN "configs_request" ELSE "gateway_request"

\* Fire of a result that is not a payload status.
Fire(r, result) == [event |-> Event(r), stage |-> "result", outcome |-> result]

\* The stage ResponseStatus files a prefix under: a fixed word, or a method,
\* which the client of a request may have spelled like one of these words.
StageOf(prefix) ==
    IF prefix = "gateway_payload" THEN "payload"
    ELSE IF prefix = "upstream" THEN "upstream"
    ELSE "outer"

ResponseStatus(r, prefix, s) ==
    [event |-> Event(r), stage |-> StageOf(prefix), outcome |-> s]

\* record: one more in the row of the first key a request has to record.
Record(r) ==
    /\ todo[r] # <<>>
    /\ rows' = rows (+) SetToBag({Head(todo[r])})
    /\ todo' = [todo EXCEPT ![r] = Tail(@)]
    /\ UNCHANGED <<input, at, response, logged>>

\* Mutant: the rows are not replaced.
MutantDrained == rows

\* The rows drainWindow leaves behind.
Drained == EmptyBag

\* Run: the rows of the last minute are taken and logged, if there are any.
DrainWindow ==
    /\ rows # EmptyBag
    /\ logged' = logged (+) rows
    /\ rows' = Drained
    /\ UNCHANGED <<input, at, todo, response>>

-----------------------------------------------------------------------------
(* The goroutine of a request.  A step is taken when the records of the    *)
(* step before it are made.                                                *)

Goes(r, from, to, records) ==
    /\ at[r] = from /\ todo[r] = <<>>
    /\ at' = [at EXCEPT ![r] = to]
    /\ todo' = [todo EXCEPT ![r] = records]
    /\ UNCHANGED <<input, summary>>

\* The handler writes its HTTP response and then counts it.
Answer(r, from, results, s) ==
    /\ Goes(r, from, "done", results \o <<ResponseStatus(r, method[r], s)>>)
    /\ status' = [status EXCEPT ![r] = s]
    /\ UNCHANGED <<inner, origin, target>>

\* requireRelaySecret, on the main endpoint only: no handler, no metrics.
TurnAway(r) ==
    /\ path[r] = "target"
    /\ Goes(r, "new", "turned away", <<>>)
    /\ status' = [status EXCEPT ![r] = "401"]
    /\ UNCHANGED <<inner, origin, target>>

\* configHandler and legacyConfigHandler.
ServeConfig(r) == path[r] = "configs" /\ Answer(r, "new", <<>>, "200")

InvalidMethod(r) ==
    /\ path[r] # "configs" /\ method[r] # "POST"
    /\ Answer(r, "new", <<Fire(r, "invalid_method")>>, "400")

\* The handler's checks in turn: content type, a handler for the path, the body.
InvalidRequest(r) ==
    /\ path[r] # "configs" /\ method[r] = "POST"
    /\ \/ Answer(r, "new", <<Fire(r, "invalid_content_type")>>, "400")
       \/ path[r] = "below" /\ Answer(r, "new", <<>>, "400")
       \/ path[r] # "below" /\ Answer(r, "new", <<Fire(r, "invalid_content")>>, "400")

\* MatchesConfig and DecapsulateRequest.
DecapsulationFails(r) ==
    /\ path[r] \notin {"configs", "below"} /\ method[r] = "POST"
    /\ \/ Answer(r, "new", <<Fire(r, "config_mismatch")>>, "401")
       \/ Answer(r, "new", <<Fire(r, "decapsulation_failed")>>, "400")

Decapsulate(r) ==
    /\ path[r] \notin {"configs", "below"} /\ method[r] = "POST"
    /\ Goes(r, "new", "app", <<>>)
    /\ UNCHANGED response

\* EchoAppHandler counts a success, the metadata handler only after it has
\* encapsulated.
Reflect(r) ==
    /\ path[r] \in {"echo", "metadata"}
    /\ Goes(r, "app", "encapsulate",
            IF path[r] = "echo" THEN <<Fire(r, "success")>> ELSE <<>>)
    /\ UNCHANGED response

\* wrappedError: the gateway's own response, to be encapsulated.
WrappedError(r, from, result, s) ==
    /\ Goes(r, from, "encapsulate",
            <<Fire(r, result), ResponseStatus(r, "gateway_payload", s)>>)
    /\ inner' = [inner EXCEPT ![r] = s]
    /\ origin' = [origin EXCEPT ![r] = "gateway"]
    /\ UNCHANGED status

DecodeFails(r) ==
    /\ path[r] = "target"
    /\ \E why \in {"content_decode_failed"} \cup
                  (IF codec = "proto" THEN {"request_translate_failed"} ELSE {}) :
          WrappedError(r, "app", why, "400")
    /\ UNCHANGED target

Forbidden(r) ==
    /\ path[r] = "target"
    /\ WrappedError(r, "app", "request_forbidden", "403")
    /\ UNCHANGED target

\* 429 is a response like the target's.
RateLimited(r) ==
    /\ path[r] = "target"
    /\ Goes(r, "app", "encode", <<Fire(r, "rate_limited")>>)
    /\ inner' = [inner EXCEPT ![r] = "429"]
    /\ origin' = [origin EXCEPT ![r] = "limiter"]
    /\ UNCHANGED <<status, target>>

Send(r) ==
    /\ path[r] = "target"
    /\ Goes(r, "app", "sent", <<>>)
    /\ target' = [target EXCEPT ![r] = "asked"]
    /\ UNCHANGED <<status, inner, origin>>

TargetAnswers(r, s) ==
    /\ Goes(r, "sent", "encode",
            <<ResponseStatus(r, "upstream", s), Fire(r, "success")>>)
    /\ inner' = [inner EXCEPT ![r] = s]
    /\ origin' = [origin EXCEPT ![r] = "target"]
    /\ target' = [target EXCEPT ![r] = s]
    /\ UNCHANGED status

\* Mutant: http.Client without a Timeout.
MutantTargetFails(r) == FALSE

\* client.Do fails, by the Timeout of http.Client at the latest.
TargetFails(r) ==
    /\ WrappedError(r, "sent", "request_failed", "500")
    /\ target' = [target EXCEPT ![r] = "failed"]

\* Mutant: a response that cannot be encoded is a marshalling error.
MutantEncodeFailure == "400"

\* GatewayInternalServerError.
EncodeFailure == "500"

\* The target's body breaks off, or its headers cannot be encoded.
EncodeFails(r) ==
    /\ origin[r] = "target"
    /\ \E why \in {"content_encode_failed"} \cup
                  (IF codec = "proto" THEN {"response_translate_failed"} ELSE {}) :
          WrappedError(r, "encode", why, EncodeFailure)
    /\ UNCHANGED target

Encode(r) ==
    /\ Goes(r, "encode", "encapsulate", <<ResponseStatus(r, "gateway_payload", "200")>>)
    /\ UNCHANGED response

EncapsulationFails(r) ==
    Answer(r, "encapsulate", <<Fire(r, "encapsulation_failed")>>, "400")

Encapsulate(r) ==
    Answer(r, "encapsulate",
           IF path[r] = "metadata" THEN <<Fire(r, "success")>> ELSE <<>>, "200")

-----------------------------------------------------------------------------

\* What a goroutine does without waiting for a client or a target.
Proceed(r) ==
    \/ Reflect(r) \/ DecodeFails(r) \/ Forbidden(r) \/ RateLimited(r) \/ Send(r)
    \/ TargetFails(r)
    \/ EncodeFails(r) \/ Encode(r) \/ EncapsulationFails(r) \/ Encapsulate(r)

Accept(r) ==
    \/ TurnAway(r) \/ ServeConfig(r) \/ InvalidMethod(r) \/ InvalidRequest(r)
    \/ DecapsulationFails(r) \/ Decapsulate(r)

Next ==
    \/ \E r \in Requests : Record(r) \/ Accept(r) \/ Proceed(r)
    \/ \E r \in Requests, s \in TargetStatuses : TargetAnswers(r, s)
    \/ DrainWindow

\* Goroutines run, and the ticker of Run fires; nobody forces a request or a
\* target.
Fairness ==
    /\ \A r \in Requests : WF_vars(Record(r)) /\ WF_vars(Proceed(r))
    /\ WF_vars(DrainWindow)

Spec == Init /\ [][Next]_vars /\ Fairness

-----------------------------------------------------------------------------
(* Properties.                                                             *)

\* How often an outcome was counted in a stage, over all windows.
Counted(stage, outcome) ==
    LET all == rows (+) logged
        key(event) == [event |-> event, stage |-> stage, outcome |-> outcome]
        n(event) == IF BagIn(key(event), all) THEN all[key(event)] ELSE 0
    IN  n("gateway_request") + n("configs_request")

Quiet == \A r \in Requests : todo[r] = <<>>

Number(P(_)) == Cardinality({r \in Requests : P(r)})

\* The final response of a handler, which is filed under the stage its method
\* spells: `outer`, but for the methods "upstream" and "gateway_payload".
Final(r, stage, s) == at[r] = "done" /\ status[r] = s /\ StageOf(method[r]) = stage

\* Stage `outer` counts the final responses of the handlers to other methods,
\* each once; a 401 of requireRelaySecret is in no stage (gateway.go 49, 103,
\* 125, 139, main.go 33-53).
OuterCountsResponses ==
    Quiet => \A s \in {"200", "400", "401"} :
        Counted("outer", s) = Number(LAMBDA r : Final(r, "outer", s))

\* Stage `upstream` counts what targets answered, each once, and the final
\* responses to requests of that method (handler.go 384, gateway.go 49, 125, 139).
UpstreamCountsTargetsAndNamesakes ==
    Quiet => \A s \in TargetStatuses \cup {"200", "400"} :
        Counted("upstream", s) = Number(LAMBDA r : target[r] = s \/ Final(r, "upstream", s))

\* What is encapsulated: 200 for the response of the target or of the limiter,
\* else the error of the gateway.
Translated(r, s) ==
    /\ at[r] \in {"encapsulate", "done"}
    /\ IF s = "200" THEN origin[r] \in {"target", "limiter"}
       ELSE origin[r] = "gateway" /\ inner[r] = s

\* Stage `payload` counts what is encapsulated, a response that fails to encode
\* not as both, and the final responses to requests of the method
\* "gateway_payload" (handler.go 188-297).
PayloadCountsTranslations ==
    Quiet => \A s \in {"200", "400", "403", "500"} :
        Counted("payload", s) = Number(LAMBDA r : Translated(r, s) \/ Final(r, "payload", s))

\* Nothing is lost or counted twice, whenever the minute ends and whatever
\* method a client makes up (summary_metrics.go 43-81, 132-158).
SummaryIsTrue ==
    OuterCountsResponses /\ UpstreamCountsTargetsAndNamesakes /\ PayloadCountsTranslations

\* What the documentation says of a stage: "`upstream` counts target HTTP
\* statuses", and nothing else (ARCHITECTURE.md 124).
UpstreamCountsTargets ==
    Quiet => \A s \in TargetStatuses \cup {"200", "400"} :
        Counted("upstream", s) = Number(LAMBDA r : target[r] = s)

\* A client fails open on a 5xx and takes a 4xx for the target's answer: the
\* gateway says 500 exactly when the target was asked and its response could not
\* be had or passed on, and nothing but the target's own status otherwise
\* (handler.go 219-241, 275-292).
FailuresAreAttributed ==
    \A r \in Requests :
        /\ origin[r] = "gateway" => (inner[r] = "500" <=> target[r] # None)
        /\ origin[r] = "target" => inner[r] = target[r]

\* Every request whose body has been read is answered, although targets stall
\* for ever (main.go 298), and what it recorded is logged.
EveryRequestAnswered ==
    \A r \in Requests :
        at[r] = "app" ~> at[r] = "done" /\ todo[r] = <<>> /\ rows = EmptyBag
=============================================================================
