---------------------------- MODULE CommonsCache -----------------------------
(***************************************************************************)
(* The shared cache of public items, commons-cache/server.js: the request  *)
(* handler, and getCachedFeed and getCachedImgur, which are the same       *)
(* algorithm over one Map, with cacheSet, fetchUpstream and                *)
(* fetchImgurJson.  An item is fresh for TTL, then served stale for SWR    *)
(* while one fetch revalidates it in the background, then fetched anew by  *)
(* a leader whose result the other callers share.                          *)
(*                                                                         *)
(* Time is a variable.  A body is known by the item it was fetched for and *)
(* by the time its fetch started: what the upstream sends is at least as   *)
(* recent.  A fetch is identified with the call that started it.           *)
(***************************************************************************)
EXTENDS Integers, Sequences, FiniteSets, SequencesExt

CONSTANTS
    Calls,          \* requests to the server
    Requests,       \* what they may be
    NoCall,
    TTL, SWR,       \* TTL_MS, SWR_MS, which the operator sets
    FetchTimeout,   \* the abort signal of a fetch, fixed at 10 s
    MaxEntries,     \* MAX_ENTRIES
    MaxTime         \* bound on the clock of the model

\* A request: whether it came through the front door (or no lock is set), its
\* route, and what its parameters are after sanitising: no id when nothing is
\* left of it, NoSort for a sort that SORT_RE refuses.  An album and an image
\* are the two forms of /v1/imgur, which have no sort.
NoId == ""
NoSort == "?"
Routes == {"unparsable", "health", "probe", "commons", "comments", "album", "image", "other"}

\* A sanitised id has letters, digits and underscores only.
ASSUME RequestsAssumption ==
    \A q \in Requests :
        /\ q.door \in BOOLEAN /\ q.route \in Routes
        /\ q.id # "imgur-image"
        /\ q.route \in {"album", "image"} => q.sort = ""
ASSUME NoCallAssumption == NoCall \notin Calls
ASSUME WindowAssumption ==
    /\ TTL \in Nat /\ SWR \in Nat /\ FetchTimeout \in Nat
    /\ MaxEntries \in Nat \ {0} /\ MaxTime \in Nat

VARIABLES
    now,
    order,      \* the keys of the cache Map in insertion order
    entry,      \* the entry of a key in the Map: body, fetchedAt and the call
                \* whose fetch is revalidating it
    inflight,   \* the leader of a key, in the inflight Map
    fetch,      \* the fetch of a call: "none", its purpose, or "over"
    started,    \* when it started, while it lasts
    req,        \* what a call asks for
    pc,         \* "idle", "waiting", or the answer: X-Cache or the status
    leader,     \* the leader a waiting call shares
    age,        \* how old the body was that a call was served
    got         \* the item that body was fetched for

vars == <<now, order, entry, inflight, fetch, started, req, pc, leader, age, got>>

-----------------------------------------------------------------------------
(* Requests.                                                               *)

Item(q) == <<q.route, q.id, q.sort>>
NoItem == <<>>

\* The answer of a request that needs neither cache nor upstream: the order of
\* the checks is that of the handler, and only /health is exempt from the lock.
ValidQuery(q) == q.id # NoId /\ q.sort # NoSort

AtOnce(q) ==
    IF q.route = "unparsable" THEN "400"
    ELSE IF ~q.door /\ q.route # "health" THEN "403"
    ELSE IF q.route = "health" THEN "200"
    ELSE IF q.route = "other" THEN "404"
    ELSE IF q.route # "probe" /\ ~ValidQuery(q) THEN "400"
    ELSE "none"

\* Mutant: threads are cached under the keys of feeds.
MutantKeyOf(q) ==
    IF q.route \in {"commons", "comments"} THEN <<q.id, q.sort>>
    ELSE IF q.route = "album" THEN <<"imgur", q.id>>
    ELSE <<"imgur-image", q.id>>

\* The cache key: the parts that a slash joins.  The prefixes of threads and
\* images hold a character that no sanitised id has; that of albums does not.
KeyOf(q) ==
    IF q.route = "commons" THEN <<q.id, q.sort>>
    ELSE IF q.route = "comments" THEN <<"comments:", q.id, q.sort>>
    ELSE IF q.route = "album" THEN <<"imgur", q.id>>
    ELSE <<"imgur-image", q.id>>

Keyed == {q \in Requests : AtOnce(q) = "none" /\ q.route # "probe"}
Keys == {KeyOf(q) : q \in Keyed}

key == [c \in Calls |-> KeyOf(req[c])]
UsesCache(c) == pc[c] = "idle" /\ req[c] \in Keyed

XCache == {"HIT", "STALE", "MISS", "COALESCED"}
Statuses == {"200", "400", "403", "404", "502"}
Body == [at : Nat, of : {Item(q) : q \in Keyed} \cup {NoItem}]
NoBody == [at |-> 0, of |-> NoItem]
Entry == [body : Body, fetchedAt : Nat, revalidating : Calls \cup {NoCall}]
NoEntry == [body |-> NoBody, fetchedAt |-> 0, revalidating |-> NoCall]

\* Type correctness; the Map lists a key once and holds at most maxEntries
\* (cacheSet, server.js 181-187).
TypeOK ==
    /\ now \in Nat
    /\ order \in Seq(Keys) /\ Len(order) <= MaxEntries /\ IsInjective(order)
    /\ entry \in [Keys -> Entry]
    /\ inflight \in [Keys -> Calls \cup {NoCall}]
    /\ fetch \in [Calls -> {"none", "probe", "revalidate", "lead", "over"}]
    /\ started \in [Calls -> Nat]
    /\ req \in [Calls -> Requests]
    /\ pc \in [Calls -> {"idle", "waiting"} \cup XCache \cup Statuses]
    /\ leader \in [Calls -> Calls \cup {NoCall}]
    /\ age \in [Calls -> Nat]
    /\ got \in [Calls -> {Item(q) : q \in Keyed} \cup {NoItem}]

Init ==
    /\ now = 0
    /\ order = <<>>
    /\ entry = [k \in Keys |-> NoEntry]
    /\ inflight = [k \in Keys |-> NoCall]
    /\ fetch = [c \in Calls |-> "none"]
    /\ started = [c \in Calls |-> 0]
    /\ req \in [Calls -> Requests]
    /\ pc = [c \in Calls |-> "idle"]
    /\ leader = [c \in Calls |-> NoCall]
    /\ age = [c \in Calls |-> 0]
    /\ got = [c \in Calls |-> NoItem]

AnswerAtOnce(c) ==
    /\ pc[c] = "idle" /\ AtOnce(req[c]) # "none"
    /\ pc' = [pc EXCEPT ![c] = AtOnce(req[c])]
    /\ UNCHANGED <<now, order, entry, inflight, fetch, started, req, leader, age, got>>

-----------------------------------------------------------------------------
(* The Map.                                                                *)

Cached(k) == Contains(order, k)
AgeOf(k) == now - entry[k].fetchedAt

\* Mutant: the two windows are taken for one.
MutantFresh(k) == Cached(k) /\ AgeOf(k) < TTL + SWR

Fresh(k) == Cached(k) /\ AgeOf(k) < TTL

Stale(k) == Cached(k) /\ ~Fresh(k) /\ AgeOf(k) < TTL + SWR

\* The order after cache.delete(k).
Without(s, k) ==
    IF Contains(s, k) THEN RemoveAt(s, CHOOSE i \in 1 .. Len(s) : s[i] = k) ELSE s

\* The order after cacheSet: k is deleted and comes last, and beyond MaxEntries
\* the oldest insertion is evicted.
Inserted(k) ==
    LET s == Append(Without(order, k), k)
    IN  IF Len(s) > MaxEntries THEN Tail(s) ELSE s

\* The entry is kept for keys of the Map only.
KeptEntry(s, es) == [k \in Keys |-> IF Contains(s, k) THEN es[k] ELSE NoEntry]

CacheSet(k, body) ==
    /\ order' = Inserted(k)
    /\ entry' = KeptEntry(Inserted(k),
                  [entry EXCEPT ![k] = [body |-> body, fetchedAt |-> now,
                                        revalidating |-> NoCall]])

-----------------------------------------------------------------------------
(* getCachedFeed and getCachedImgur.                                       *)

Serve(c, how, body) ==
    /\ pc' = [pc EXCEPT ![c] = how]
    /\ age' = [age EXCEPT ![c] = now - body.at]
    /\ got' = [got EXCEPT ![c] = body.of]

Hit(c) ==
    /\ UsesCache(c) /\ Fresh(key[c])
    /\ Serve(c, "HIT", entry[key[c]].body)
    /\ UNCHANGED <<now, order, entry, inflight, fetch, started, req, leader>>

\* Mutant: every stale answer revalidates.
MutantIdleEntry(k) == TRUE

\* !entry.revalidating
IdleEntry(k) == entry[k].revalidating = NoCall

\* Stale: served at once; the first such call starts a revalidation.
ServeStale(c) ==
    LET k == key[c] IN
    /\ UsesCache(c) /\ Stale(k)
    /\ Serve(c, "STALE", entry[k].body)
    /\ IF IdleEntry(k)
       THEN /\ entry' = [entry EXCEPT ![k].revalidating = c]
            /\ fetch' = [fetch EXCEPT ![c] = "revalidate"]
            /\ started' = [started EXCEPT ![c] = now]
       ELSE UNCHANGED <<entry, fetch, started>>
    /\ UNCHANGED <<now, order, inflight, req, leader>>

NoLeader(k) == inflight[k] = NoCall

\* Cold or rotten and nobody is fetching: this call leads.
Lead(c) ==
    LET k == key[c] IN
    /\ UsesCache(c) /\ ~Fresh(k) /\ ~Stale(k) /\ NoLeader(k)
    /\ pc' = [pc EXCEPT ![c] = "waiting"]
    /\ leader' = [leader EXCEPT ![c] = c]
    /\ inflight' = [inflight EXCEPT ![k] = c]
    /\ fetch' = [fetch EXCEPT ![c] = "lead"]
    /\ started' = [started EXCEPT ![c] = now]
    /\ UNCHANGED <<now, order, entry, req, age, got>>

\* Cold or rotten and somebody is: this call follows.
Follow(c) ==
    LET k == key[c] IN
    /\ UsesCache(c) /\ ~Fresh(k) /\ ~Stale(k) /\ ~NoLeader(k)
    /\ pc' = [pc EXCEPT ![c] = "waiting"]
    /\ leader' = [leader EXCEPT ![c] = inflight[k]]
    /\ UNCHANGED <<now, order, entry, inflight, fetch, started, req, age, got>>

-----------------------------------------------------------------------------
(* The end of a fetch, with the continuations that run on it.              *)

\* What an upstream may do: status 0 when it does not answer in time or breaks
\* off, a body within MAX_BODY_BYTES or not, and JSON of the expected shape or
\* not, which matters to imgur items only.
Replies == [status : {"200", "3xx", "4xx", "5xx", "0"}, bounded : BOOLEAN, shaped : BOOLEAN]

Usable(q, a) ==
    /\ a.status = "200" /\ a.bounded
    /\ q.route \in {"album", "image"} => a.shaped

Outcomes(c) == {Usable(req[c], a) : a \in Replies}

Fetched(c) == [at |-> started[c], of |-> Item(req[c])]

FetchOver(c) ==
    /\ fetch' = [fetch EXCEPT ![c] = "over"]
    /\ started' = [started EXCEPT ![c] = 0]

\* finally: the entry the revalidation was started on, if it is still there.
ResetRevalidating(c) ==
    entry' = [k \in Keys |-> IF entry[k].revalidating = c
                             THEN [entry[k] EXCEPT !.revalidating = NoCall]
                             ELSE entry[k]]

\* A revalidation replaces the entry, or inserts one if it was evicted.
RevalidateEnds(c) ==
    /\ fetch[c] = "revalidate" /\ TRUE \in Outcomes(c)
    /\ FetchOver(c)
    /\ CacheSet(key[c], Fetched(c))
    /\ UNCHANGED <<now, inflight, req, pc, leader, age, got>>

RevalidateFails(c) ==
    /\ fetch[c] = "revalidate" /\ FALSE \in Outcomes(c)
    /\ FetchOver(c)
    /\ ResetRevalidating(c)
    /\ UNCHANGED <<now, order, inflight, req, pc, leader, age, got>>

\* The calls that await the promise of c.
Followers(c) == {d \in Calls : pc[d] = "waiting" /\ leader[d] = c}

LeadOver(c) ==
    /\ FetchOver(c)
    /\ inflight' = [inflight EXCEPT ![key[c]] = NoCall]

\* The leader caches the result and answers MISS, its followers COALESCED.
LeadEnds(c) ==
    /\ fetch[c] = "lead" /\ TRUE \in Outcomes(c)
    /\ LeadOver(c)
    /\ CacheSet(key[c], Fetched(c))
    /\ pc' = [d \in Calls |-> IF d = c THEN "MISS"
                              ELSE IF d \in Followers(c) THEN "COALESCED" ELSE pc[d]]
    /\ age' = [d \in Calls |-> IF d \in Followers(c) THEN now - started[c] ELSE age[d]]
    /\ got' = [d \in Calls |-> IF d \in Followers(c) THEN Item(req[c]) ELSE got[d]]
    /\ UNCHANGED <<now, req, leader>>

\* 502 for all of them, nothing is cached.
LeadFails(c) ==
    /\ fetch[c] = "lead" /\ FALSE \in Outcomes(c)
    /\ LeadOver(c)
    /\ pc' = [d \in Calls |-> IF d \in Followers(c) THEN "502" ELSE pc[d]]
    /\ UNCHANGED <<now, order, entry, req, leader, age, got>>

\* /v1/probe: a fetch of its own, past the cache, reported whatever it brings.
Probe(c) ==
    /\ pc[c] = "idle" /\ req[c].route = "probe" /\ AtOnce(req[c]) = "none"
    /\ pc' = [pc EXCEPT ![c] = "waiting"]
    /\ fetch' = [fetch EXCEPT ![c] = "probe"]
    /\ started' = [started EXCEPT ![c] = now]
    /\ UNCHANGED <<now, order, entry, inflight, req, leader, age, got>>

ProbeEnds(c) ==
    /\ fetch[c] = "probe"
    /\ FetchOver(c)
    /\ pc' = [pc EXCEPT ![c] = "200"]
    /\ UNCHANGED <<now, order, entry, inflight, req, leader, age, got>>

\* Time passes; no fetch lasts longer than its abort signal allows.
Fetching(c) == fetch[c] \in {"probe", "revalidate", "lead"}

Tick ==
    /\ now < MaxTime
    /\ \A c \in Calls : Fetching(c) => now < started[c] + FetchTimeout
    /\ now' = now + 1
    /\ UNCHANGED <<order, entry, inflight, fetch, started, req, pc, leader, age, got>>

-----------------------------------------------------------------------------

FetchEnds(c) == RevalidateEnds(c) \/ RevalidateFails(c) \/ LeadEnds(c) \/ LeadFails(c)

Next ==
    \/ \E c \in Calls :
          \/ AnswerAtOnce(c) \/ Probe(c) \/ ProbeEnds(c)
          \/ Hit(c) \/ ServeStale(c) \/ Lead(c) \/ Follow(c) \/ FetchEnds(c)
    \/ Tick

Spec == Init /\ [][Next]_vars

-----------------------------------------------------------------------------
(* Properties.                                                             *)

\* How old an answer can be: TTL counts from the end of a fetch, so that a HIT
\* may show what the upstream said TTL and one fetch ago, a STALE answer adds
\* SWR, and a MISS is no older than its own fetch, although a slow
\* revalidation may overwrite what a later fetch has brought (282-290, 313-321).
StalenessBounded ==
    \A c \in Calls :
        /\ pc[c] = "HIT" => age[c] < TTL + FetchTimeout
        /\ pc[c] = "STALE" => age[c] < TTL + SWR + FetchTimeout
        /\ pc[c] \in {"MISS", "COALESCED"} => age[c] <= FetchTimeout

FetchesOf(k, purpose) == {c \in Calls : key[c] = k /\ fetch[c] = purpose}

\* The misses of one key make one upstream request (305-314).
OneLeader == \A k \in Keys : Cardinality(FetchesOf(k, "lead")) <= 1

\* The flag that holds revalidations back goes away with its entry, when that
\* is evicted or replaced under way; but the entry in its place has to grow
\* stale first.  Revalidations of one key that overlap have started at least
\* TTL apart, whatever the windows are (287-302).
Apart(c, d) == c = d \/ started[c] + TTL <= started[d] \/ started[d] + TTL <= started[c]
RevalidationsApart == \A k \in Keys : \A c, d \in FetchesOf(k, "revalidate") : Apart(c, d)

\* "refresh in the background, single-flight (one in-flight revalidation per
\* key)", commons-cache/README.md.  It holds where a fetch is shorter than
\* TTL, as in the defaults, and COMMONS_TTL_MS may be anything.
OneRevalidation == \A k \in Keys : Cardinality(FetchesOf(k, "revalidate")) <= 1

\* No entry is stuck revalidating: its flag stands for a fetch that is still
\* under way (301).
NeverStuck ==
    \A k \in Keys : entry[k].revalidating # NoCall =>
        fetch[entry[k].revalidating] = "revalidate"

\* Whoever waits, waits on a fetch that is under way (309-315).
NobodyStranded ==
    \A c \in Calls : pc[c] = "waiting" /\ leader[c] # NoCall => fetch[leader[c]] = "lead"

\* An album and a feed whose id is "imgur" and whose sort spells the id of the
\* album: `imgur/${id}` is then also `${id}/${sort}` (278, 535).
Homonyms(i, j) ==
    /\ i[1] = "album" /\ j[1] = "commons"
    /\ j[2] = "imgur" /\ j[3] = i[2]

\* Whoever is served is served what it asked for, out of one Map that holds
\* feeds, threads, albums and images, and while fetches for one are joined by
\* calls for another with the same key; the one pair of items that are mixed
\* up are homonyms (268, 275-279, 309, 402, 534-536).
ServedAsAsked ==
    \A c \in Calls : pc[c] \in XCache =>
        LET i == Item(req[c])
        IN  got[c] = i \/ Homonyms(i, got[c]) \/ Homonyms(got[c], i)

\* Single flight: one leader per key, revalidations of a key at least TTL apart,
\* no flag and nobody left waiting for a fetch that is over, in a bounded Map,
\* whatever is evicted or replaced under way (181-187, 269, 287-315).
SingleFlight == TypeOK /\ OneLeader /\ RevalidationsApart /\ NeverStuck /\ NobodyStranded
=============================================================================
