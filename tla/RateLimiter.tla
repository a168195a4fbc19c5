----------------------------- MODULE RateLimiter -----------------------------
(***************************************************************************)
(* The per-client request budget of the relay, clientIpKey and rateLimited *)
(* in ohttp-relay/server.js: a fixed window per client, in a Map of        *)
(* bounded size that drops the key inserted first.  A Map keeps the place  *)
(* of a key that is set again, so a client that never pauses may well be   *)
(* the one that is dropped.                                                *)
(***************************************************************************)
EXTENDS Integers, Sequences, FiniteSets, SequencesExt

CONSTANTS
    Addresses,      \* the addresses of clients
    Proxy,          \* the address of the proxy behind a front proxy
    NoAddress,      \* an absent or empty header value
    Rpm,            \* RATE_LIMIT_RPM, 0 for no limit
    Window,         \* RATE_WINDOW_MS
    MaxKeys,        \* RATE_MAX_KEYS
    MaxTime,        \* bound on the clock of the model
    MaxRequests     \* bound on the requests of the model

ASSUME LimitsAssumption == Rpm \in Nat /\ Window \in Nat \ {0} /\ MaxKeys \in Nat
ASSUME AddressesAssumption == Proxy \notin Addresses /\ NoAddress \notin Addresses \cup {Proxy}
ASSUME BoundsAssumption == MaxTime \in Nat /\ MaxRequests \in Nat

VARIABLES
    now,
    twoHops,        \* TRUSTED_CLIENT_IP_HEADER is set: a front proxy fills it
    order,          \* the keys of rateBuckets in insertion order
    rateBuckets,    \* count and windowStart of the keys in the Map
    requests,       \* how many requests were looked at
    passed,         \* when the requests of a client were let through
    dropped         \* how often the bucket of a client was dropped

limiterVars == <<now, twoHops, order, rateBuckets, requests, passed, dropped>>

NoBucket == [count |-> 0, windowStart |-> 0]

\* Type correctness; rateBuckets lists a client once and holds at most
\* RATE_MAX_KEYS of them (server.js 203-208).
LimiterTypeOK ==
    /\ now \in Nat
    /\ twoHops \in BOOLEAN
    /\ order \in Seq(Addresses) /\ Len(order) <= MaxKeys /\ IsInjective(order)
    /\ rateBuckets \in [Addresses -> [count : Nat, windowStart : Nat]]
    /\ requests \in 0 .. MaxRequests
    /\ passed \in [Addresses -> Seq(Nat)]
    /\ dropped \in [Addresses -> Nat]

LimiterInit ==
    /\ now = 0
    /\ twoHops \in BOOLEAN
    /\ order = <<>>
    /\ rateBuckets = [c \in Addresses |-> NoBucket]
    /\ requests = 0
    /\ passed = [c \in Addresses |-> <<>>]
    /\ dropped = [c \in Addresses |-> 0]

-----------------------------------------------------------------------------
(* clientIpKey.                                                            *)

\* What a request of c may carry.  The client writes what it likes into either
\* header; the trusted ingress appends to X-Forwarded-For the address it was
\* called from, and a front proxy, where there is one, overwrites the other.
Carries(c) ==
    [trusted : IF twoHops THEN {c} ELSE Addresses \cup {NoAddress},
     xff : IF twoHops THEN {<<c, Proxy>>} ELSE {<<c>>} \cup {<<d, c>> : d \in Addresses}]

\* Mutant: the client's own entry, the first, is believed.
MutantClientIpKey(q) ==
    IF twoHops /\ q.trusted # NoAddress THEN q.trusted ELSE Head(q.xff)

\* The trusted header where it is configured and present, else the rightmost
\* entry, the one the ingress wrote; behind an ingress that is never missing, and
\* the fallback to the address of the socket is not reached.
ClientIpKey(q) ==
    IF twoHops /\ q.trusted # NoAddress THEN q.trusted ELSE Last(q.xff)

-----------------------------------------------------------------------------
(* rateLimited.                                                            *)

\* No bucket, or its window is over.
NewWindow(c) ==
    ~Contains(order, c) \/ now - rateBuckets[c].windowStart >= Window

\* The bucket b of c with this request.
Counted(c) ==
    IF NewWindow(c)
    THEN [count |-> 1, windowStart |-> now]
    ELSE [rateBuckets[c] EXCEPT !.count = @ + 1]

\* The keys after set and, beyond MaxKeys, the deletion of the first.
KeysAfter(c) ==
    LET keys == IF Contains(order, c) THEN order ELSE Append(order, c)
    IN  IF Len(keys) > MaxKeys THEN Tail(keys) ELSE keys

\* What a call leaves behind in the Map.
Touch(c) ==
    LET had(d) == d = c \/ Contains(order, d)
        has(d) == Contains(KeysAfter(c), d)
    IN  /\ order' = KeysAfter(c)
        /\ rateBuckets' = [d \in Addresses |->
                             IF ~has(d) THEN NoBucket
                             ELSE IF d = c THEN Counted(c) ELSE rateBuckets[d]]
        /\ dropped' = [d \in Addresses |-> IF had(d) /\ ~has(d) THEN dropped[d] + 1 ELSE dropped[d]]

\* Mutant: the count is compared before it is incremented.
MutantOver(c) == Counted(c).count > Rpm + 1

Over(c) == Counted(c).count > Rpm

\* The request of c is looked up under the key that its headers give.
KeyedBy(c) == {ClientIpKey(q) : q \in Carries(c)}

\* rateLimited returns false.
Pass(c) ==
    /\ requests < MaxRequests
    /\ requests' = requests + 1
    /\ passed' = [passed EXCEPT ![c] = Append(@, now)]
    /\ IF Rpm = 0
       THEN UNCHANGED <<order, rateBuckets, dropped>>
       ELSE \E k \in KeyedBy(c) : ~Over(k) /\ Touch(k)
    /\ UNCHANGED <<now, twoHops>>

\* rateLimited returns true: 429.
Refuse(c) ==
    /\ requests < MaxRequests
    /\ requests' = requests + 1
    /\ Rpm > 0
    /\ \E k \in KeyedBy(c) : Over(k) /\ Touch(k)
    /\ UNCHANGED <<now, twoHops, passed>>

Tick ==
    /\ now < MaxTime
    /\ now' = now + 1
    /\ UNCHANGED <<twoHops, order, rateBuckets, requests, passed, dropped>>

LimiterNext == Tick \/ \E c \in Addresses : Pass(c) \/ Refuse(c)

LimiterSpec == LimiterInit /\ [][LimiterNext]_limiterVars

-----------------------------------------------------------------------------
(* Properties.                                                             *)

PassedIn(c, from, to) == {i \in 1 .. Len(passed[c]) : passed[c][i] \in from .. to}

\* In any stretch as long as a window a client gets through at most twice its
\* budget, and one budget more for every time its bucket was dropped, whatever
\* headers it makes up, and the table stays within RATE_MAX_KEYS (177-209).
SlidingBound ==
    /\ LimiterTypeOK
    /\ Rpm > 0 => \A c \in Addresses, t \in 0 .. now :
          Cardinality(PassedIn(c, t, t + Window - 1)) <= (2 + dropped[c]) * Rpm

\* Nobody pays for others: a client is refused only when it had its whole
\* budget within the last window, whoever sends what headers (177-209).
RefusedOnlyOverBudget ==
    [][\A c \in Addresses : Refuse(c) =>
          Cardinality(PassedIn(c, now - Window + 1, now)) >= Rpm]_limiterVars
=============================================================================
