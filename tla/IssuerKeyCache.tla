--------------------------- MODULE IssuerKeyCache ----------------------------
(***************************************************************************)
(* The relay's cache of the issuer's public keys,                          *)
(* ohttp-relay/issuer-key-cache.js: get, refresh and parse, with its clock *)
(* as a variable.  Calls of get come from concurrent verifyAccessToken,    *)
(* which AccessTokens adds with the next-state relation of both; a         *)
(* refresh is shared by the calls that need one, starts at most once per   *)
(* back-off interval and may fail; an issuer may answer late, or with a    *)
(* clock that disagrees with the relay's.                                  *)
(*                                                                         *)
(* The issuer's signing keys are an input: keyOf maps an epoch to the key  *)
(* it signs with, injective for a key manifest, constant for the legacy    *)
(* single key.                                                             *)
(***************************************************************************)
EXTENDS Integers, FiniteSets, FiniteSetsExt

CONSTANTS
    Calls,          \* calls of get
    KeyIds,         \* key IDs, those no issuer publishes included
    KeyMaps,        \* the assignments of keys to epochs to consider
    EpochLen,       \* doc.epochSeconds
    TTL,            \* ttlMs
    Backoff,        \* backoffMs
    FetchTimeout,   \* the deadline of fetchDocument
    MaxTime         \* bound on the clock of the model

MaxEpoch == MaxTime \div EpochLen + 2
Epochs == 0 .. MaxEpoch

ASSUME TimesAssumption ==
    /\ EpochLen \in Nat \ {0} /\ TTL \in Nat \ {0} /\ Backoff \in Nat \ {0}
    /\ FetchTimeout \in Nat /\ MaxTime \in Nat
ASSUME KeyMapsAssumption == KeyMaps \subseteq [Epochs -> KeyIds]

VARIABLES
    now,            \* Date.now()
    keyOf,          \* the key the issuer signs with in an epoch
    url,            \* ISSUER_KEYS_URL is set
    keys,           \* expiresAt of a cached key, 0 if it is not cached
    refreshedAt, nextAttempt,
    pending,        \* the shared refresh promise is set
    fetching,       \* fetchDocument calls under way
    lastStart,      \* history: when the last of them started
    pc,             \* where a call of get stands, or what it was told
    keyId,          \* its argument
    began           \* history: when it was made

environment == <<keyOf, url, keyId>>
cached == <<keys, refreshedAt>>
refreshing == <<nextAttempt, pending, fetching, lastStart>>
vars == <<now, environment, cached, refreshing, pc, began>>

\* The answers of get: the entry; null (401); it throws (503).
Answers == {"key", "unknown", "unavailable"}

\* Type correctness; at most one fetchDocument is under way, and one is exactly
\* while the shared promise is set (issuer-key-cache.js 44-52).
TypeOK ==
    /\ now \in Nat
    /\ keyOf \in KeyMaps
    /\ url \in BOOLEAN
    /\ keys \in [KeyIds -> Nat]
    /\ refreshedAt \in Nat /\ nextAttempt \in Nat
    /\ pending \in BOOLEAN /\ fetching = (IF pending THEN 1 ELSE 0)
    /\ lastStart \in Int
    /\ pc \in [Calls -> {"idle", "awaiting"} \cup Answers]
    /\ keyId \in [Calls -> KeyIds]
    /\ began \in [Calls -> Nat]

Init ==
    /\ now = EpochLen
    /\ keyOf \in KeyMaps
    /\ url \in BOOLEAN
    /\ keys = [k \in KeyIds |-> 0]
    /\ refreshedAt = 0 /\ nextAttempt = 0
    /\ pending = FALSE /\ fetching = 0
    /\ lastStart = -Backoff
    /\ pc = [c \in Calls |-> "idle"]
    /\ keyId \in [Calls -> KeyIds]
    /\ began = [c \in Calls |-> 0]

Epoch(t) == t \div EpochLen

-----------------------------------------------------------------------------
(* parse.                                                                  *)

\* A key is accepted in its own epoch and in the next.
ExpiresAt(e) == (e + 2) * EpochLen

\* What the issuer may send: its epoch and the epochs whose keys it lists.
Documents ==
    [epoch : {e \in Epochs : e \in Epoch(now) - 1 .. Epoch(now) + 1},
     lists : {L \in SUBSET Epochs : Cardinality(L) \in 1 .. 2}]

Valid(doc) ==
    /\ doc.epoch = Epoch(now)
    /\ doc.lists \subseteq {doc.epoch, doc.epoch - 1}
    /\ doc.epoch \in doc.lists

\* A key listed for both epochs expires with the later one.
Parsed(doc) ==
    [k \in KeyIds |->
        LET E == {e \in doc.lists : keyOf[e] = k}
        IN  IF E = {} THEN 0 ELSE Max({ExpiresAt(e) : e \in E})]

-----------------------------------------------------------------------------
(* get and refresh.                                                        *)

\* What get answers from the cache ks.
Lookup(k, ks) ==
    IF now < ks[k] THEN "key"
    ELSE IF \E l \in KeyIds : now < ks[l] THEN "unknown"
    ELSE "unavailable"

\* Mutant: an unknown or expired key does not ask for a refresh.
MutantNeedsRefresh(k) == now - refreshedAt >= TTL

NeedsRefresh(k) == now >= keys[k] \/ now - refreshedAt >= TTL

MayStart == ~pending /\ url /\ now >= nextAttempt

RetryTime == now + Backoff

\* get answers from the cache: it is fresh, or a refresh may not start yet.
GetCached(c) ==
    /\ pc[c] = "idle"
    /\ NeedsRefresh(keyId[c]) => ~pending /\ ~MayStart
    /\ pc' = [pc EXCEPT ![c] = Lookup(keyId[c], keys)]
    /\ began' = [began EXCEPT ![c] = now]
    /\ UNCHANGED <<now, environment, cached, refreshing>>

\* get starts a refresh and awaits it.
GetStarts(c) ==
    /\ pc[c] = "idle" /\ NeedsRefresh(keyId[c])
    /\ MayStart
    /\ pc' = [pc EXCEPT ![c] = "awaiting"]
    /\ began' = [began EXCEPT ![c] = now]
    /\ nextAttempt' = RetryTime
    /\ pending' = TRUE
    /\ fetching' = fetching + 1
    /\ lastStart' = now
    /\ UNCHANGED <<now, environment, cached>>

\* get awaits the refresh that is under way.
GetJoins(c) ==
    /\ pc[c] = "idle" /\ NeedsRefresh(keyId[c])
    /\ pending
    /\ pc' = [pc EXCEPT ![c] = "awaiting"]
    /\ began' = [began EXCEPT ![c] = now]
    /\ UNCHANGED <<now, environment, cached, refreshing>>

\* Mutant: only the call that started the refresh is resumed.
MutantResume(ks) ==
    /\ pending' = FALSE
    /\ fetching' = fetching - 1
    /\ pc' = [c \in Calls |->
                IF pc[c] = "awaiting" /\ began[c] = lastStart
                THEN Lookup(keyId[c], ks) ELSE pc[c]]
    /\ UNCHANGED <<now, environment, nextAttempt, lastStart, began>>

\* The refresh is over and the calls that awaited it look again.
Resume(ks) ==
    /\ pending' = FALSE
    /\ fetching' = fetching - 1
    /\ pc' = [c \in Calls |->
                IF pc[c] = "awaiting" THEN Lookup(keyId[c], ks) ELSE pc[c]]
    /\ UNCHANGED <<now, environment, nextAttempt, lastStart, began>>

\* The document arrives and parses: the keys are replaced.
FetchSucceeds(doc) ==
    /\ fetching > 0
    /\ Valid(doc)
    /\ keys' = Parsed(doc)
    /\ refreshedAt' = now
    /\ Resume(Parsed(doc))

\* The fetch fails, times out, or the document is refused.
FetchFails ==
    /\ fetching > 0
    /\ UNCHANGED cached
    /\ Resume(keys)

\* Time passes; fetchDocument gives up at its deadline.
Tick ==
    /\ now < MaxTime
    /\ fetching > 0 => now < lastStart + FetchTimeout
    /\ now' = now + 1
    /\ UNCHANGED <<environment, cached, refreshing, pc, began>>

-----------------------------------------------------------------------------
(* Properties.                                                             *)

Told(c) == pc[c] \notin Answers /\ pc'[c] \in Answers

\* A key verifies tokens only in an epoch the issuer signs with it and in the
\* next one, however late a document came, whatever the issuer's clock said
\* and however often refreshing failed (issuer-key-cache.js 31, 39, 58).
KeyWithinWindow ==
    [][\A c \in Calls : Told(c) /\ pc'[c] = "key" =>
          \E e \in Epochs : keyOf[e] = keyId[c] /\ Epoch(now) \in {e, e + 1}]_vars

\* Fetches start at least backoffMs apart, whatever keys are asked for (46-47).
BackoffHolds == [][fetching' > fetching => now >= lastStart + Backoff]_vars

\* No answer is given in ignorance: it comes from keys younger than ttlMs, or
\* from a fetch the call awaited, which started within its deadline before the
\* call, or the issuer was asked less than backoffMs before it (45-47, 56).
AnswersAreInformed ==
    [][\A c \in Calls : Told(c) =>
          \/ pc'[c] = "key" /\ now - refreshedAt' < TTL
          \/ began'[c] <= lastStart + FetchTimeout
          \/ began'[c] < lastStart + Backoff
          \/ ~url]_vars

\* A live key is lost only to a newer valid document: failing refreshes and
\* refused documents take nothing away (48-49).
LiveKeysKept ==
    [][\A k \in KeyIds : now < keys[k] =>
          keys'[k] = keys[k] \/ refreshedAt' = now]_vars
=============================================================================
