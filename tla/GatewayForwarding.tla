------------------------- MODULE GatewayForwarding --------------------------
(***************************************************************************)
(* The gateway's outbound side, FilteredHttpRequestHandler.Handle of       *)
(* ohttp-gateway/handler.go with the token bucket of ratelimit.go that all *)
(* requests of a process share.                                            *)
(*                                                                         *)
(* A minute is Minute ticks of the clock and a token Minute units, so that *)
(* the refill is Qpm units in a tick and every quantity an integer; what   *)
(* the float64 arithmetic rounds is left out.  A token lets http.Client go *)
(* to the target once; the redirects it follows from there are requests    *)
(* too, and neither the bucket nor the list of targets is asked about them.*)
(* Where a request goes is left out, the rewrite of req.URL and the hosts  *)
(* of redirects with it: the list of targets is asked about req.Host only. *)
(***************************************************************************)
EXTENDS Integers, FiniteSets

CONSTANTS
    Forwards,   \* decapsulated requests for a target
    Targets,    \* hosts
    Allowed,    \* allowedOrigins (all of Targets when it is nil)
    Qpm,        \* GATEWAY_MAX_QPM, 0 for no limiter
    Minute,     \* ticks of a minute
    Timeout,    \* http.Client.Timeout, of a request with all its redirects
    MaxHops,    \* the requests net/http makes for one call of Do, at most 10
    MaxClock    \* bound on the clock of the model

ASSUME TargetsAssumption == Allowed \subseteq Targets
ASSUME QpmAssumption == Qpm \in Nat
ASSUME MinuteAssumption == Minute \in Nat \ {0}
ASSUME ClientAssumption == Timeout \in Nat /\ MaxHops \in Nat \ {0}
ASSUME MaxClockAssumption == MaxClock \in Nat

VARIABLES
    clock,
    tokens, last,   \* the bucket and when it was last looked at
    sending,        \* a request: "new", "sent" to the client, or its outcome
    host,           \* req.Host, the target the client asked for
    sentAt, hops,   \* of a call of Do: when it began, its requests so far
    mark,           \* any moment: the properties speak of what follows it
    granted,        \* history: requests that were let through from mark on
    asked,          \* history: what was sent from mark + Timeout on, by hop
    refusedAt       \* the first refusal since a request was sent, or -1

bucket == <<tokens, last>>
exchange == <<sentAt, hops>>
outboundVars ==
    <<clock, bucket, sending, host, exchange, mark, granted, asked, refusedAt>>

\* maxTokens, in units.
Cap == Qpm * Minute

HandleOutcomes == {"forbidden", "limited", "returned"}

\* Type correctness; the bucket holds between none and its capacity of tokens
\* and last is never in the future (ratelimit.go 56-66).
OutboundTypeOK ==
    /\ clock \in Nat /\ mark \in Nat
    /\ last \in 0 .. clock
    /\ tokens \in 0 .. Cap
    /\ sending \in [Forwards -> {"new", "sent"} \cup HandleOutcomes]
    /\ host \in [Forwards -> Targets]
    /\ sentAt \in [Forwards -> 0 .. clock]
    /\ hops \in [Forwards -> 0 .. MaxHops]
    /\ granted \subseteq Forwards
    /\ asked \subseteq Forwards \X (1 .. MaxHops)
    /\ refusedAt \in -1 .. clock

\* newGlobalRateLimiter: the bucket is full.
OutboundInit ==
    /\ clock = 0
    /\ tokens = Cap /\ last = 0
    /\ sending = [r \in Forwards |-> "new"]
    /\ host \in [Forwards -> Targets]
    /\ sentAt = [r \in Forwards |-> 0]
    /\ hops = [r \in Forwards |-> 0]
    /\ mark \in 0 .. MaxClock
    /\ granted = {} /\ asked = {}
    /\ refusedAt = -1

-----------------------------------------------------------------------------
(* The token bucket.                                                       *)

\* Mutant: the refill is not capped.
MutantRefilled == tokens + (clock - last) * Qpm

\* The tokens allow() finds: refilled for the time elapsed, up to the cap.
Refilled ==
    LET t == tokens + (clock - last) * Qpm
    IN  IF t > Cap THEN Cap ELSE t

Enough == Refilled >= Minute

\* allow() returns true; without a limiter it always does.
Take ==
    IF Qpm = 0
    THEN UNCHANGED bucket
    ELSE /\ Enough
         /\ last' = clock /\ tokens' = Refilled - Minute

\* Mutant: a refusal forgets the part of a token that has accrued.
MutantDeny ==
    /\ Qpm # 0 /\ ~Enough
    /\ last' = clock /\ tokens' = tokens

\* allow() returns false.
Deny ==
    /\ Qpm # 0 /\ ~Enough
    /\ last' = clock /\ tokens' = Refilled

\* retryAfterSeconds, in ticks: the time of one token, rounded up.
RetryAfter == (Minute + Qpm - 1) \div Qpm

-----------------------------------------------------------------------------
(* FilteredHttpRequestHandler.Handle.                                      *)

\* The target is not allowed: 403, and no token is spent.
Forbid(r) ==
    /\ sending[r] = "new" /\ host[r] \notin Allowed
    /\ sending' = [sending EXCEPT ![r] = "forbidden"]
    /\ UNCHANGED <<clock, bucket, host, exchange, mark, granted, asked, refusedAt>>

\* 429 with Retry-After.
Limit(r) ==
    /\ sending[r] = "new" /\ host[r] \in Allowed
    /\ Deny
    /\ sending' = [sending EXCEPT ![r] = "limited"]
    /\ refusedAt' = IF refusedAt < 0 THEN clock ELSE refusedAt
    /\ UNCHANGED <<clock, host, exchange, mark, granted, asked>>

\* The request of this hop is sent.
AskedNow(r, hop) == asked' = IF clock >= mark + Timeout THEN asked \cup {<<r, hop>>} ELSE asked

\* The request leaves for its target, or for what that is rewritten to.
SendToTarget(r) ==
    /\ sending[r] = "new" /\ host[r] \in Allowed
    /\ Take
    /\ sending' = [sending EXCEPT ![r] = "sent"]
    /\ sentAt' = [sentAt EXCEPT ![r] = clock]
    /\ hops' = [hops EXCEPT ![r] = 1]
    /\ granted' = IF clock >= mark THEN granted \cup {r} ELSE granted
    /\ AskedNow(r, 1)
    /\ refusedAt' = -1
    /\ UNCHANGED <<clock, host, mark>>

\* The client follows a redirect unless it was one too many or its time is up.
MayFollow(r) == hops[r] < MaxHops /\ clock <= sentAt[r] + Timeout

\* The target redirects and the client, which has no CheckRedirect, follows.
Redirect(r) ==
    /\ sending[r] = "sent"
    /\ MayFollow(r)
    /\ hops' = [hops EXCEPT ![r] = @ + 1]
    /\ AskedNow(r, hops[r] + 1)
    /\ UNCHANGED <<clock, bucket, sending, host, sentAt, mark, granted, refusedAt>>

\* client.Handle returns a response or an error; neither gives a token back.
Finish(r) ==
    /\ sending[r] = "sent"
    /\ sending' = [sending EXCEPT ![r] = "returned"]
    /\ sentAt' = [sentAt EXCEPT ![r] = 0]
    /\ hops' = [hops EXCEPT ![r] = 0]
    /\ UNCHANGED <<clock, bucket, host, mark, granted, asked, refusedAt>>

Elapse ==
    /\ clock < MaxClock
    /\ clock' = clock + 1
    /\ UNCHANGED <<bucket, sending, host, exchange, mark, granted, asked, refusedAt>>

Handle(r) == Forbid(r) \/ Limit(r) \/ SendToTarget(r) \/ Redirect(r) \/ Finish(r)

OutboundNext == Elapse \/ \E r \in Forwards : Handle(r)

OutboundSpec == OutboundInit /\ [][OutboundNext]_outboundVars

-----------------------------------------------------------------------------
(* Properties.                                                             *)

\* The requests the bucket allows in a stretch of d ticks, in units.
Worth(d) == Cap + d * Qpm

\* In any stretch of time at most one bucket more than the rate allows is let
\* through, however the requests of all clients bunch up, fail or are refused;
\* and what the gateway then asks of targets, redirects included, is at most
\* MaxHops times what it let through, those of the last Timeout before the
\* stretch included (ratelimit.go 49-68, handler.go 317-319, 356-375).
WindowBound ==
    Qpm > 0 /\ clock >= mark =>
        /\ Cardinality(granted) * Minute <= Worth(clock - mark)
        /\ Cardinality(asked) * Minute <= MaxHops * Worth(clock - mark)

\* The Retry-After of a refusal is enough: who waits that long, while no other
\* request is sent, finds a token, however many more are refused in between
\* (ratelimit.go 55-68, 70-82).
RetryHintSuffices ==
    refusedAt >= 0 /\ clock >= refusedAt + RetryAfter => Enough

\* What the documentation promises of GATEWAY_MAX_QPM: a cap on the requests
\* forwarded in a minute, across all clients (SELFHOSTING.md 78, 278).
PerMinuteCap ==
    Qpm > 0 /\ mark <= clock /\ clock < mark + Minute => Cardinality(granted) <= Qpm
=============================================================================
