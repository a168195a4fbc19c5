-------------------------- MODULE CommonsCacheProofs -------------------------
(***************************************************************************)
(* Proofs about CommonsCache, for any sets of calls and requests, any size *)
(* of the Map and every choice of the windows.                             *)
(***************************************************************************)
EXTENDS CommonsCache, SequenceTheorems, FiniteSetTheorems, TLAPS

\* The life of a fetch and of those who wait on it: an idle call has none, a
\* fetch is not older than its abort signal, a leader is registered under its
\* key and waits on itself, and a follower waits on a leader of its own key.
FetchInv ==
    /\ \A c \in Calls :
        /\ pc[c] = "idle" => fetch[c] = "none" /\ leader[c] = NoCall
        /\ Fetching(c) => started[c] <= now /\ now <= started[c] + FetchTimeout
        /\ fetch[c] \in {"lead", "revalidate"} => req[c] \in Keyed
        /\ fetch[c] = "lead" => pc[c] = "waiting" /\ leader[c] = c /\ inflight[key[c]] = c
        /\ pc[c] = "waiting" /\ leader[c] # NoCall =>
              /\ req[c] \in Keyed /\ fetch[leader[c]] = "lead"
              /\ key[leader[c]] = key[c]
    /\ \A k \in Keys : inflight[k] # NoCall =>
          fetch[inflight[k]] = "lead" /\ key[inflight[k]] = k

\* The flag of an entry names a revalidation of its key that is under way; an
\* entry without the flag of a revalidation under way is younger than that;
\* and revalidations of one key are at least TTL apart.
RevalidationInv ==
    /\ \A k \in Keys : entry[k].revalidating # NoCall =>
          /\ fetch[entry[k].revalidating] = "revalidate"
          /\ key[entry[k].revalidating] = k
    /\ \A c \in Calls : fetch[c] = "revalidate" /\ Cached(key[c]) =>
          entry[key[c]].revalidating = c \/ started[c] <= entry[key[c]].fetchedAt
    /\ \A c, d \in Calls :
          fetch[c] = "revalidate" /\ fetch[d] = "revalidate" /\ key[c] = key[d] => Apart(c, d)

\* The body b is one that a request with the key k brings.
Brought(k, i) == \E q \in Keyed : KeyOf(q) = k /\ i = Item(q)

\* What is in the Map was brought by a fetch for its key that started at most
\* FetchTimeout before it was stored.
EntryInv ==
    \A k \in Keys : Cached(k) =>
        /\ entry[k].body.at <= entry[k].fetchedAt
        /\ entry[k].fetchedAt <= entry[k].body.at + FetchTimeout
        /\ entry[k].fetchedAt <= now
        /\ Brought(k, entry[k].body.of)

\* What was served was brought for the key of the call.
ServedInv ==
    \A c \in Calls : pc[c] \in XCache => req[c] \in Keyed /\ Brought(key[c], got[c])

\* The inductive invariant.
Inv == TypeOK /\ FetchInv /\ RevalidationInv /\ EntryInv /\ ServedInv /\ StalenessBounded

USE NoCallAssumption, WindowAssumption

-----------------------------------------------------------------------------
(* Keys.                                                                   *)

\* Only feeds, threads, albums and images use the cache.
LEMMA KeyedRoutes ==
    ASSUME NEW q \in Keyed
    PROVE  /\ q \in Requests /\ q.route \in {"commons", "comments", "album", "image"}
           /\ KeyOf(q) \in Keys
  BY RequestsAssumption DEF Keyed, Keys, AtOnce, Routes

\* Keys are told apart part by part.
LEMMA PairsEqual == \A a, b, c, d : <<a, b>> = <<c, d>> => a = c /\ b = d
  OBVIOUS
LEMMA TriplesEqual ==
    \A a, b, c, d, e, f : <<a, b, c>> = <<d, e, f>> => a = d /\ b = e /\ c = f
  OBVIOUS
LEMMA PairNoTriple == \A a, b, c, d, e : <<a, b>> # <<c, d, e>>
<1> SUFFICES ASSUME NEW a, NEW b, NEW c, NEW d, NEW e, <<a, b>> = <<c, d, e>> PROVE FALSE
  OBVIOUS
<1>1. Len(<<a, b>>) = 2 /\ Len(<<c, d, e>>) = 3
  OBVIOUS
<1> QED
  BY <1>1

\* Two requests with one key are for one item, or for homonyms (278, 535-536).
LEMMA KeyClash ==
    ASSUME NEW p \in Keyed, NEW q \in Keyed, KeyOf(p) = KeyOf(q)
    PROVE  \/ Item(p) = Item(q)
           \/ Homonyms(Item(p), Item(q)) \/ Homonyms(Item(q), Item(p))
<1>1. /\ p \in Requests /\ p.route \in {"commons", "comments", "album", "image"}
      /\ q \in Requests /\ q.route \in {"commons", "comments", "album", "image"}
  BY KeyedRoutes
<1>2. ASSUME NEW r \in {p, q}
      PROVE  /\ r.route = "commons" => KeyOf(r) = <<r.id, r.sort>>
             /\ r.route = "comments" => KeyOf(r) = <<"comments:", r.id, r.sort>>
             /\ r.route = "album" => KeyOf(r) = <<"imgur", r.id>>
             /\ r.route = "image" => KeyOf(r) = <<"imgur-image", r.id>>
  BY DEF KeyOf
<1>3. ASSUME NEW r \in {p, q}
      PROVE  r.id # "imgur-image" /\ (r.route \in {"album", "image"} => r.sort = "")
  BY <1>1, RequestsAssumption
<1>4. Item(p) = <<p.route, p.id, p.sort>> /\ Item(q) = <<q.route, q.id, q.sort>>
  BY DEF Item
<1>5. ASSUME p.route = q.route PROVE Item(p) = Item(q)
  <2>1. p.id = q.id /\ (p.route \in {"commons", "comments"} => p.sort = q.sort)
    BY <1>1, <1>2, <1>5, PairsEqual, TriplesEqual
  <2> QED
    BY <1>1, <1>3, <1>4, <1>5, <2>1
<1>6. ASSUME NEW a \in {p, q}, NEW b \in {p, q}, KeyOf(a) = KeyOf(b), a.route # b.route
      PROVE  \/ a.route = "album" /\ b.route = "commons" /\ b.id = "imgur" /\ b.sort = a.id
             \/ b.route = "album" /\ a.route = "commons" /\ a.id = "imgur" /\ a.sort = b.id
  <2>1. /\ a.route \in {"commons", "comments", "album", "image"}
        /\ b.route \in {"commons", "comments", "album", "image"}
    BY <1>1
  <2>2. a.id # "imgur-image" /\ b.id # "imgur-image"
    BY <1>3
  <2>3. CASE a.route = "comments" \/ b.route = "comments"
    BY <1>2, <1>6, <2>1, <2>3, PairNoTriple
  <2>4. CASE a.route \in {"album", "image"} /\ b.route \in {"album", "image"}
    BY <1>2, <1>6, <2>4, PairsEqual
  <2>5. CASE a.route = "commons" /\ b.route \in {"album", "image"}
    BY <1>2, <1>6, <2>2, <2>5, PairsEqual
  <2>6. CASE b.route = "commons" /\ a.route \in {"album", "image"}
    BY <1>2, <1>6, <2>2, <2>6, PairsEqual
  <2> QED
    BY <1>6, <2>1, <2>3, <2>4, <2>5, <2>6
<1>7. ASSUME p.route # q.route
      PROVE  Homonyms(Item(p), Item(q)) \/ Homonyms(Item(q), Item(p))
  BY <1>4, <1>6, <1>7 DEF Homonyms
<1> QED
  BY <1>5, <1>7

\* The key of a call that uses the cache.
LEMMA KeyOfCall ==
    ASSUME NEW c \in Calls, req[c] \in Keyed
    PROVE  key[c] \in Keys /\ key[c] = KeyOf(req[c]) /\ Brought(key[c], Item(req[c]))
  BY KeyedRoutes DEF key, Brought

-----------------------------------------------------------------------------
(* The Map.                                                                *)

\* Deleting a key leaves the others in their order.
LEMMA Deleted ==
    ASSUME NEW S, NEW s \in Seq(S), IsInjective(s), NEW k
    PROVE  /\ Without(s, k) \in Seq(S)
           /\ Len(Without(s, k)) <= Len(s)
           /\ IsInjective(Without(s, k))
           /\ ~Contains(Without(s, k), k)
           /\ \A j : Contains(Without(s, k), j) => Contains(s, j)
<1>1. CASE ~\E i \in 1 .. Len(s) : s[i] = k
  BY <1>1 DEF Without, Contains
<1>2. CASE \E i \in 1 .. Len(s) : s[i] = k
  <2>1. PICK n \in 1 .. Len(s) : s[n] = k
    BY <1>2
  <2>2. \A i \in 1 .. Len(s) : s[i] = k => i = n
    BY <2>1 DEF IsInjective
  <2>4. (CHOOSE i \in 1 .. Len(s) : s[i] = k) = n
    BY <2>1, <2>2
  <2> DEFINE t == SubSeq(s, 1, n - 1) \o SubSeq(s, n + 1, Len(s))
  <2>5. Without(s, k) = t
    BY <1>2, <2>4 DEF Without, RemoveAt, Contains
  <2>6. /\ t \in Seq(S) /\ Len(t) = Len(s) - 1
        /\ \A i \in 1 .. Len(t) : t[i] = IF i < n THEN s[i] ELSE s[i + 1]
    <3> DEFINE a == SubSeq(s, 1, n - 1)
               b == SubSeq(s, n + 1, Len(s))
    <3>1. Len(s) \in Nat /\ n \in Int /\ \A i \in 1 .. Len(s) : s[i] \in S
      BY <2>1, ElementOfSeq
    <3>2. /\ a \in Seq(S) /\ Len(a) = n - 1
          /\ \A i \in 1 .. n - 1 : a[i] = s[i]
      BY <2>1, <3>1, SubSeqProperties
    <3>3. /\ b \in Seq(S) /\ Len(b) = Len(s) - n
          /\ \A i \in 1 .. Len(s) - n : b[i] = s[n + i]
      BY <2>1, <3>1, SubSeqProperties
    <3> HIDE DEF a, b
    <3>4. /\ a \o b \in Seq(S) /\ Len(a \o b) = Len(a) + Len(b)
          /\ \A i \in 1 .. Len(a) + Len(b) :
                (a \o b)[i] = IF i <= Len(a) THEN a[i] ELSE b[i - Len(a)]
      BY <3>2, <3>3, ConcatProperties
    <3>5. Len(a \o b) = Len(s) - 1
      BY <3>1, <3>2, <3>3, <3>4
    <3>6. ASSUME NEW i \in 1 .. Len(s) - 1
          PROVE  (a \o b)[i] = IF i < n THEN s[i] ELSE s[i + 1]
      <4>1. i \in 1 .. Len(a) + Len(b)
        BY <3>1, <3>2, <3>3
      <4>2. CASE i < n
        BY <3>1, <3>2, <3>4, <4>1, <4>2
      <4>3. CASE ~(i < n)
        <5>1. i - (n - 1) \in 1 .. Len(s) - n /\ n + (i - (n - 1)) = i + 1 /\ ~(i <= n - 1)
          BY <3>1, <4>3
        <5>2. (a \o b)[i] = b[i - (n - 1)]
          BY <3>2, <3>4, <4>1, <5>1
        <5> QED
          BY <3>3, <4>3, <5>1, <5>2
      <4> QED
        BY <4>2, <4>3
    <3> QED
      BY <3>4, <3>5, <3>6 DEF a, b
  <2> HIDE DEF t
  <2>7. IsInjective(t)
    <3>1. DOMAIN t = 1 .. Len(t) /\ DOMAIN s = 1 .. Len(s) /\ Len(s) \in Nat
      BY <2>6, LenProperties
    <3> SUFFICES ASSUME NEW i \in 1 .. Len(t), NEW j \in 1 .. Len(t), t[i] = t[j]
                 PROVE  i = j
      BY <3>1 DEF IsInjective
    <3>2. PICK x \in 1 .. Len(s) : t[i] = s[x] /\ x = IF i < n THEN i ELSE i + 1
      BY <2>6, <3>1
    <3>3. PICK y \in 1 .. Len(s) : t[j] = s[y] /\ y = IF j < n THEN j ELSE j + 1
      BY <2>6, <3>1
    <3>4. x = y
      BY <3>1, <3>2, <3>3 DEF IsInjective
    <3> QED
      BY <3>2, <3>3, <3>4
  <2>8. \A i \in 1 .. Len(t) : t[i] # k
    BY <2>1, <2>6 DEF IsInjective
  <2>9. \A i \in 1 .. Len(t) : \E m \in 1 .. Len(s) : s[m] = t[i]
    BY <2>6
  <2> QED
    BY <2>5, <2>6, <2>7, <2>8, <2>9 DEF Contains
<1> QED
  BY <1>1, <1>2

\* cacheSet keeps the Map within MaxEntries, and the key it sets is in it
\* (181-187).
LEMMA InsertedOrder ==
    ASSUME TypeOK, NEW k \in Keys
    PROVE  /\ Inserted(k) \in Seq(Keys) /\ Len(Inserted(k)) <= MaxEntries
           /\ IsInjective(Inserted(k))
           /\ Contains(Inserted(k), k)
           /\ \A j : Contains(Inserted(k), j) => j = k \/ Contains(order, j)
<1> DEFINE r == Without(order, k)
           s == Append(r, k)
<1>1. /\ r \in Seq(Keys) /\ Len(r) <= MaxEntries /\ IsInjective(r) /\ ~Contains(r, k)
      /\ \A j : Contains(r, j) => Contains(order, j)
  <2>1. order \in Seq(Keys) /\ IsInjective(order) /\ Len(order) <= MaxEntries
    BY DEF TypeOK
  <2>2. Len(r) \in Nat
    BY <2>1, Deleted
  <2> QED
    BY <2>1, <2>2, Deleted
<1> HIDE DEF r
<1>2. /\ s \in Seq(Keys) /\ Len(s) = Len(r) + 1 /\ Len(r) \in Nat
      /\ \A i \in 1 .. Len(s) : s[i] = IF i <= Len(r) THEN r[i] ELSE k
  BY <1>1
<1>3. IsInjective(s)
  <2>1. \A i \in 1 .. Len(r) : r[i] # k
    BY <1>1 DEF Contains
  <2>2. DOMAIN s = 1 .. Len(r) + 1 /\ DOMAIN r = 1 .. Len(r)
    BY <1>1, <1>2, LenProperties
  <2> SUFFICES ASSUME NEW i \in 1 .. Len(r) + 1, NEW j \in 1 .. Len(r) + 1, s[i] = s[j]
               PROVE  i = j
    BY <2>2 DEF IsInjective
  <2>3. CASE i <= Len(r) /\ j <= Len(r)
    <3>1. i \in DOMAIN r /\ j \in DOMAIN r /\ r[i] = r[j]
      BY <1>2, <2>2, <2>3
    <3> QED
      BY <1>1, <3>1 DEF IsInjective
  <2>4. CASE i = Len(r) + 1 \/ j = Len(r) + 1
    BY <1>2, <2>1, <2>4
  <2> QED
    BY <1>2, <2>3, <2>4
<1>4. \A i \in 1 .. Len(s) : s[i] = k \/ Contains(order, s[i])
  <2>1. \A i \in 1 .. Len(r) : Contains(r, r[i])
    BY DEF Contains
  <2>2. \A i \in 1 .. Len(s) : i <= Len(r) => i \in 1 .. Len(r)
    BY <1>2
  <2> QED
    BY <1>1, <1>2, <2>1, <2>2
<1>5. Inserted(k) = IF Len(s) > MaxEntries THEN Tail(s) ELSE s
  BY DEF Inserted, r
<1> HIDE DEF s
<1>6. CASE Len(s) > MaxEntries
  <2>1. /\ Tail(s) \in Seq(Keys) /\ Len(Tail(s)) = Len(s) - 1
        /\ \A i \in 1 .. Len(Tail(s)) : Tail(s)[i] = s[i + 1]
    BY <1>2, HeadTailProperties
  <2>2. Len(Tail(s)) \in 1 .. Len(Tail(s)) /\ Tail(s)[Len(Tail(s))] = k
    BY <1>1, <1>2, <1>6, <2>1
  <2>3. IsInjective(Tail(s))
    BY <1>2, <1>3, <2>1 DEF IsInjective
  <2>4. \A i \in 1 .. Len(Tail(s)) : Tail(s)[i] = k \/ Contains(order, Tail(s)[i])
    BY <1>2, <1>4, <2>1
  <2>5. Len(Tail(s)) <= MaxEntries
    BY <1>1, <1>2, <2>1
  <2> QED
    BY <1>5, <1>6, <2>1, <2>2, <2>3, <2>4, <2>5 DEF Contains
<1>7. CASE ~(Len(s) > MaxEntries)
  <2>1. Len(s) \in 1 .. Len(s) /\ s[Len(s)] = k
    BY <1>2
  <2> QED
    BY <1>2, <1>3, <1>4, <1>5, <1>7, <2>1 DEF Contains
<1> QED
  BY <1>6, <1>7

\* What cacheSet leaves: the new entry of k, and of the others those that are
\* not evicted.
LEMMA CacheSetLeaves ==
    ASSUME TypeOK, NEW k \in Keys, NEW b \in Body, CacheSet(k, b)
    PROVE  /\ order' \in Seq(Keys) /\ Len(order') <= MaxEntries /\ IsInjective(order')
           /\ entry' \in [Keys -> Entry]
           /\ Contains(order', k)
           /\ entry'[k] = [body |-> b, fetchedAt |-> now, revalidating |-> NoCall]
           /\ \A j \in Keys \ {k} : entry'[j] = IF Cached(j)' THEN entry[j] ELSE NoEntry
           /\ \A j \in Keys \ {k} : Cached(j)' => Cached(j)
<1> DEFINE e == [body |-> b, fetchedAt |-> now, revalidating |-> NoCall]
<1>1. order' = Inserted(k)
  BY DEF CacheSet
<1>2. /\ Inserted(k) \in Seq(Keys) /\ Len(Inserted(k)) <= MaxEntries
      /\ IsInjective(Inserted(k)) /\ Contains(Inserted(k), k)
      /\ \A j : Contains(Inserted(k), j) => j = k \/ Contains(order, j)
  BY InsertedOrder
<1>3. \A j : Cached(j)' <=> Contains(Inserted(k), j)
  BY <1>1 DEF Cached
<1>4. now \in Nat /\ entry \in [Keys -> Entry]
  BY DEF TypeOK
<1>5. \A j \in Keys : entry'[j] = IF Contains(Inserted(k), j)
                                  THEN [entry EXCEPT ![k] = e][j] ELSE NoEntry
  BY DEF CacheSet, KeptEntry
<1>6. e \in Entry /\ NoEntry \in Entry
  BY <1>4 DEF Entry, NoEntry, NoBody, Body, NoItem
<1>7. /\ entry'[k] = e
      /\ \A j \in Keys \ {k} : entry'[j] = IF Cached(j)' THEN entry[j] ELSE NoEntry
  BY <1>2, <1>3, <1>4, <1>5
<1>8. entry' \in [Keys -> Entry]
  <2>1. entry' = [j \in Keys |-> entry'[j]]
    BY DEF CacheSet, KeptEntry
  <2>2. \A j \in Keys : entry'[j] \in Entry
    BY <1>4, <1>6, <1>7
  <2> QED
    BY <2>1, <2>2
<1> QED
  BY <1>1, <1>2, <1>3, <1>7, <1>8 DEF Cached

\* The parts of an entry.
LEMMA EntryParts ==
    ASSUME TypeOK, NEW k \in Keys
    PROVE  /\ entry[k].body \in Body /\ entry[k].fetchedAt \in Nat
           /\ entry[k].revalidating \in Calls \cup {NoCall}
           /\ entry[k].body.at \in Nat
           /\ entry[k].body.of \in {Item(q) : q \in Keyed} \cup {NoItem}
<1>1. entry[k] \in Entry
  BY DEF TypeOK
<1>2. entry[k].body \in Body /\ entry[k].fetchedAt \in Nat
      /\ entry[k].revalidating \in Calls \cup {NoCall}
  BY <1>1 DEF Entry
<1> QED
  BY <1>2 DEF Body

\* Requests do not change, and so neither do keys.
LEMMA KeysStay ==
    ASSUME UNCHANGED req
    PROVE  /\ key' = key
           /\ \A k, i : Brought(k, i)' <=> Brought(k, i)
  BY DEF key, Brought

-----------------------------------------------------------------------------
(* The invariant.                                                          *)

\* Nothing is cached, fetched or served at the start.
LEMMA InitInv == Init => Inv
<1> SUFFICES ASSUME Init PROVE Inv
  OBVIOUS
<1>1. TypeOK
  <2>1. NoEntry \in Entry /\ NoItem \in {Item(q) : q \in Keyed} \cup {NoItem}
    BY DEF Entry, NoEntry, NoBody, Body, NoItem
  <2>2. order \in Seq(Keys) /\ Len(order) <= MaxEntries /\ IsInjective(order)
    BY DEF Init, IsInjective
  <2> QED
    BY <2>1, <2>2 DEF Init, TypeOK
<1>2. FetchInv
  BY DEF Init, FetchInv, Fetching
<1>3. \A k : ~Cached(k)
  BY DEF Init, Cached, Contains
<1>4. RevalidationInv
  BY <1>3 DEF Init, RevalidationInv, NoEntry
<1>5. EntryInv
  BY <1>3 DEF EntryInv
<1>6. ServedInv /\ StalenessBounded
  BY DEF Init, ServedInv, StalenessBounded, XCache
<1> QED
  BY <1>1, <1>2, <1>4, <1>5, <1>6 DEF Inv

\* What the steps that leave the Map alone keep of it.
LEMMA MapStays ==
    ASSUME EntryInv, UNCHANGED <<now, order, entry, req>>
    PROVE  EntryInv' /\ \A k : Cached(k)' <=> Cached(k)
<1>1. \A k : Cached(k)' <=> Cached(k)
  BY DEF Cached
<1> QED
  BY <1>1, KeysStay DEF EntryInv

\* What is answered without the cache.
LEMMA AtOnceKeeps ==
    ASSUME Inv, NEW c \in Calls, AnswerAtOnce(c)
    PROVE  Inv'
<1>1. /\ UNCHANGED <<now, order, entry, inflight, fetch, started, req, leader, age, got>>
      /\ pc[c] = "idle" /\ pc' = [pc EXCEPT ![c] = AtOnce(req[c])]
      /\ AtOnce(req[c]) \in {"400", "403", "200", "404"}
  BY DEF AnswerAtOnce, AtOnce
<1>2. key' = key /\ \A k, i : Brought(k, i)' <=> Brought(k, i)
  BY <1>1, KeysStay
<1>3. EntryInv' /\ \A k : Cached(k)' <=> Cached(k)
  BY <1>1, MapStays DEF Inv
<1>4. TypeOK'
  <2>1. pc' \in [Calls -> {"idle", "waiting"} \cup XCache \cup Statuses]
    BY <1>1 DEF Inv, TypeOK, Statuses
  <2> QED
    BY <1>1, <2>1 DEF Inv, TypeOK
<1>5. \A d \in Calls : pc'[d] = IF d = c THEN AtOnce(req[c]) ELSE pc[d]
  BY <1>1 DEF Inv, TypeOK
<1>6. FetchInv'
  BY <1>1, <1>2, <1>5 DEF Inv, FetchInv, Fetching
<1>7. RevalidationInv'
  BY <1>1, <1>2, <1>3 DEF Inv, RevalidationInv, Apart
<1>8. ServedInv' /\ StalenessBounded'
  BY <1>1, <1>2, <1>5 DEF Inv, ServedInv, StalenessBounded, XCache
<1> QED
  BY <1>3, <1>4, <1>6, <1>7, <1>8 DEF Inv

\* A probe fetches past the cache (413-424).
LEMMA ProbeKeeps ==
    ASSUME Inv, NEW c \in Calls, Probe(c)
    PROVE  Inv'
<1>1. /\ UNCHANGED <<now, order, entry, inflight, req, leader, age, got>>
      /\ pc[c] = "idle" /\ pc' = [pc EXCEPT ![c] = "waiting"]
      /\ fetch' = [fetch EXCEPT ![c] = "probe"] /\ started' = [started EXCEPT ![c] = now]
  BY DEF Probe
<1>2. key' = key /\ \A k, i : Brought(k, i)' <=> Brought(k, i)
  BY <1>1, KeysStay
<1>3. EntryInv' /\ \A k : Cached(k)' <=> Cached(k)
  BY <1>1, MapStays DEF Inv
<1>4. TypeOK'
  BY <1>1 DEF Inv, TypeOK
<1>5. /\ \A d \in Calls : pc'[d] = IF d = c THEN "waiting" ELSE pc[d]
      /\ \A d \in Calls : fetch'[d] = IF d = c THEN "probe" ELSE fetch[d]
      /\ \A d \in Calls : started'[d] = IF d = c THEN now ELSE started[d]
      /\ now \in Nat
  BY <1>1 DEF Inv, TypeOK
<1>6. fetch[c] = "none" /\ leader[c] = NoCall
  BY <1>1 DEF Inv, FetchInv
<1>7. FetchInv'
  BY <1>1, <1>2, <1>5, <1>6 DEF Inv, FetchInv, Fetching
<1>8. RevalidationInv'
  BY <1>1, <1>2, <1>3, <1>5, <1>6 DEF Inv, RevalidationInv, Apart
<1>9. ServedInv' /\ StalenessBounded'
  BY <1>1, <1>2, <1>5 DEF Inv, ServedInv, StalenessBounded, XCache
<1> QED
  BY <1>3, <1>4, <1>7, <1>8, <1>9 DEF Inv

\* A probe reports.
LEMMA ProbeEndsKeeps ==
    ASSUME Inv, NEW c \in Calls, ProbeEnds(c)
    PROVE  Inv'
<1>1. /\ UNCHANGED <<now, order, entry, inflight, req, leader, age, got>>
      /\ fetch[c] = "probe" /\ pc' = [pc EXCEPT ![c] = "200"]
      /\ fetch' = [fetch EXCEPT ![c] = "over"] /\ started' = [started EXCEPT ![c] = 0]
  BY DEF ProbeEnds, FetchOver
<1>2. key' = key /\ \A k, i : Brought(k, i)' <=> Brought(k, i)
  BY <1>1, KeysStay
<1>3. EntryInv' /\ \A k : Cached(k)' <=> Cached(k)
  BY <1>1, MapStays DEF Inv
<1>4. TypeOK'
  BY <1>1 DEF Inv, TypeOK, Statuses
<1>5. /\ \A d \in Calls : pc'[d] = IF d = c THEN "200" ELSE pc[d]
      /\ \A d \in Calls : fetch'[d] = IF d = c THEN "over" ELSE fetch[d]
      /\ \A d \in Calls : started'[d] = IF d = c THEN 0 ELSE started[d]
  BY <1>1 DEF Inv, TypeOK
<1>6. FetchInv'
  BY <1>1, <1>2, <1>5 DEF Inv, FetchInv, Fetching
<1>7. RevalidationInv'
  BY <1>1, <1>2, <1>3, <1>5 DEF Inv, RevalidationInv, Apart
<1>8. ServedInv' /\ StalenessBounded'
  BY <1>1, <1>2, <1>5 DEF Inv, ServedInv, StalenessBounded, XCache
<1> QED
  BY <1>3, <1>4, <1>6, <1>7, <1>8 DEF Inv

\* Serving the entry of a key to a call: what it gets and how old that is.
LEMMA ServeKeeps ==
    ASSUME Inv, NEW c \in Calls, UsesCache(c), Cached(key[c]), NEW how \in {"HIT", "STALE"},
           Serve(c, how, entry[key[c]].body),
           AgeOf(key[c]) < TTL + (IF how = "HIT" THEN 0 ELSE SWR),
           UNCHANGED <<now, req>>
    PROVE  /\ pc' \in [Calls -> {"idle", "waiting"} \cup XCache \cup Statuses]
           /\ age' \in [Calls -> Nat]
           /\ got' \in [Calls -> {Item(q) : q \in Keyed} \cup {NoItem}]
           /\ \A d \in Calls : pc'[d] = IF d = c THEN how ELSE pc[d]
           /\ ServedInv' /\ StalenessBounded'
<1> DEFINE k == key[c]
<1>1. k \in Keys /\ req[c] \in Keyed /\ pc[c] = "idle"
  BY KeyOfCall DEF UsesCache
<1>2. /\ entry[k].fetchedAt \in Nat /\ entry[k].body.at \in Nat
      /\ entry[k].body.of \in {Item(q) : q \in Keyed} \cup {NoItem} /\ now \in Nat
  BY <1>1, EntryParts DEF Inv, TypeOK
<1>3. /\ entry[k].body.at <= entry[k].fetchedAt /\ entry[k].fetchedAt <= now
      /\ entry[k].fetchedAt <= entry[k].body.at + FetchTimeout
      /\ Brought(k, entry[k].body.of)
  BY <1>1 DEF Inv, EntryInv
<1>4. /\ pc' = [pc EXCEPT ![c] = how] /\ age' = [age EXCEPT ![c] = now - entry[k].body.at]
      /\ got' = [got EXCEPT ![c] = entry[k].body.of]
  BY DEF Serve
<1> HIDE DEF k
<1>5. /\ pc' \in [Calls -> {"idle", "waiting"} \cup XCache \cup Statuses]
      /\ \A d \in Calls : pc'[d] = IF d = c THEN how ELSE pc[d]
  BY <1>4 DEF Inv, TypeOK, XCache
<1>6. now - entry[k].body.at \in Nat
  BY <1>2, <1>3
<1>7. /\ age' \in [Calls -> Nat]
      /\ \A d \in Calls : age'[d] = IF d = c THEN now - entry[k].body.at ELSE age[d]
  BY <1>4, <1>6 DEF Inv, TypeOK
<1>8. /\ got' \in [Calls -> {Item(q) : q \in Keyed} \cup {NoItem}]
      /\ \A d \in Calls : got'[d] = IF d = c THEN entry[k].body.of ELSE got[d]
  BY <1>2, <1>4 DEF Inv, TypeOK
<1>9. key' = key /\ \A j, i : Brought(j, i)' <=> Brought(j, i)
  BY KeysStay
<1>10. ServedInv'
  BY <1>1, <1>3, <1>5, <1>8, <1>9 DEF Inv, ServedInv, k
<1>11. now - entry[k].body.at < TTL + (IF how = "HIT" THEN 0 ELSE SWR) + FetchTimeout
  BY <1>2, <1>3 DEF AgeOf, k
<1>12. StalenessBounded'
  BY <1>5, <1>7, <1>11 DEF Inv, StalenessBounded
<1> QED
  BY <1>5, <1>7, <1>8, <1>10, <1>12

\* A hit changes nothing else (285).
LEMMA HitKeeps ==
    ASSUME Inv, NEW c \in Calls, Hit(c)
    PROVE  Inv'
<1>1. /\ UNCHANGED <<now, order, entry, inflight, fetch, started, req, leader>>
      /\ UsesCache(c) /\ Cached(key[c]) /\ AgeOf(key[c]) < TTL
      /\ Serve(c, "HIT", entry[key[c]].body)
  BY DEF Hit, Fresh
<1>2. AgeOf(key[c]) < TTL + 0
  <2>1. AgeOf(key[c]) \in Int
    BY <1>1, KeyOfCall, EntryParts DEF Inv, TypeOK, UsesCache, AgeOf
  <2> QED
    BY <1>1, <2>1
<1>3. /\ pc' \in [Calls -> {"idle", "waiting"} \cup XCache \cup Statuses]
      /\ age' \in [Calls -> Nat]
      /\ got' \in [Calls -> {Item(q) : q \in Keyed} \cup {NoItem}]
      /\ \A d \in Calls : pc'[d] = IF d = c THEN "HIT" ELSE pc[d]
      /\ ServedInv' /\ StalenessBounded'
  BY <1>1, <1>2, ServeKeeps
<1>4. key' = key
  BY <1>1, KeysStay
<1>5. EntryInv' /\ \A k : Cached(k)' <=> Cached(k)
  BY <1>1, MapStays DEF Inv
<1>6. TypeOK'
  BY <1>1, <1>3 DEF Inv, TypeOK
<1>7. pc[c] = "idle"
  BY <1>1 DEF UsesCache
<1>8. FetchInv'
  BY <1>1, <1>3, <1>4, <1>7 DEF Inv, FetchInv, Fetching
<1>9. RevalidationInv'
  BY <1>1, <1>4, <1>5 DEF Inv, RevalidationInv, Apart
<1> QED
  BY <1>3, <1>5, <1>6, <1>8, <1>9 DEF Inv

\* When an entry is stale and carries no flag, the revalidations of its key
\* that are under way started before it was stored, which is TTL ago.
LEMMA StaleIsLate ==
    ASSUME Inv, NEW k \in Keys, Stale(k), IdleEntry(k),
           NEW d \in Calls, fetch[d] = "revalidate", key[d] = k
    PROVE  started[d] <= entry[k].fetchedAt /\ started[d] + TTL <= now
<1>1. Cached(k) /\ ~(now - entry[k].fetchedAt < TTL)
  BY DEF Stale, Fresh, AgeOf
<1>2. entry[k].fetchedAt \in Nat /\ now \in Nat /\ started[d] \in Nat
  BY EntryParts DEF Inv, TypeOK
<1>3. started[d] <= entry[k].fetchedAt
  BY <1>1 DEF Inv, RevalidationInv, IdleEntry
<1> QED
  BY <1>1, <1>2, <1>3

\* A stale answer, with or without a revalidation (286-302).
LEMMA StaleKeeps ==
    ASSUME Inv, NEW c \in Calls, ServeStale(c)
    PROVE  Inv'
<1> DEFINE k == key[c]
<1>1. /\ UNCHANGED <<now, order, inflight, req, leader>>
      /\ UsesCache(c) /\ Stale(k) /\ Serve(c, "STALE", entry[k].body)
  BY DEF ServeStale
<1>2. Cached(k) /\ AgeOf(k) < TTL + SWR
  BY <1>1 DEF Stale
<1>3. k \in Keys /\ req[c] \in Keyed /\ pc[c] = "idle"
  BY <1>1, KeyOfCall DEF UsesCache
<1>4. /\ pc' \in [Calls -> {"idle", "waiting"} \cup XCache \cup Statuses]
      /\ age' \in [Calls -> Nat]
      /\ got' \in [Calls -> {Item(q) : q \in Keyed} \cup {NoItem}]
      /\ \A d \in Calls : pc'[d] = IF d = c THEN "STALE" ELSE pc[d]
      /\ ServedInv' /\ StalenessBounded'
  BY <1>1, <1>2, ServeKeeps
<1>5. key' = key /\ \A j, i : Brought(j, i)' <=> Brought(j, i)
  BY <1>1, KeysStay
<1>6. \A j : Cached(j)' <=> Cached(j)
  BY <1>1 DEF Cached
<1>7. fetch[c] = "none" /\ leader[c] = NoCall
  BY <1>3 DEF Inv, FetchInv
<1>8. CASE ~IdleEntry(k)
  <2>1. UNCHANGED <<entry, fetch, started>>
    BY <1>8 DEF ServeStale
  <2>2. TypeOK'
    BY <1>1, <1>4, <2>1 DEF Inv, TypeOK
  <2>3. FetchInv'
    BY <1>1, <1>3, <1>4, <1>5, <2>1 DEF Inv, FetchInv, Fetching
  <2>4. RevalidationInv'
    BY <1>1, <1>5, <1>6, <2>1 DEF Inv, RevalidationInv, Apart
  <2>5. EntryInv'
    BY <1>1, <2>1, MapStays DEF Inv
  <2> QED
    BY <1>4, <2>2, <2>3, <2>4, <2>5 DEF Inv
<1>9. CASE IdleEntry(k)
  <2>1. /\ entry' = [entry EXCEPT ![k].revalidating = c]
        /\ fetch' = [fetch EXCEPT ![c] = "revalidate"]
        /\ started' = [started EXCEPT ![c] = now]
    BY <1>9 DEF ServeStale
  <2>2. \A d \in Calls : fetch[d] = "revalidate" /\ key[d] = k =>
          started[d] <= entry[k].fetchedAt /\ started[d] + TTL <= now
    BY <1>1, <1>3, <1>9, StaleIsLate
  <2> HIDE DEF k
  <2>3. /\ entry' \in [Keys -> Entry]
        /\ \A j \in Keys : /\ entry'[j].body = entry[j].body
                            /\ entry'[j].fetchedAt = entry[j].fetchedAt
                            /\ entry'[j].revalidating = IF j = k THEN c ELSE entry[j].revalidating
    <3>1. entry \in [Keys -> Entry]
      BY DEF Inv, TypeOK
    <3> QED
      BY <1>3, <2>1, <3>1 DEF Entry
  <2>4. /\ \A d \in Calls : fetch'[d] = IF d = c THEN "revalidate" ELSE fetch[d]
        /\ \A d \in Calls : started'[d] = IF d = c THEN now ELSE started[d]
        /\ now \in Nat
    BY <2>1 DEF Inv, TypeOK
  <2>5. TypeOK'
    BY <1>1, <1>4, <2>1, <2>3 DEF Inv, TypeOK
  <2>6. FetchInv'
    <3>1. \A d \in Calls :
            /\ pc'[d] = "idle" => fetch'[d] = "none" /\ leader'[d] = NoCall
            /\ fetch'[d] \in {"lead", "revalidate"} => req'[d] \in Keyed
      BY <1>1, <1>3, <1>4, <2>4 DEF Inv, FetchInv
    <3>2. \A d \in Calls : Fetching(d)' => started'[d] <= now' /\ now' <= started'[d] + FetchTimeout
      BY <1>1, <2>4 DEF Inv, FetchInv, Fetching
    <3>3. \A d \in Calls : fetch'[d] = "lead" =>
            pc'[d] = "waiting" /\ leader'[d] = d /\ inflight'[key'[d]] = d
      BY <1>1, <1>3, <1>4, <1>5, <2>4 DEF Inv, FetchInv
    <3>4. \A d \in Calls : pc'[d] = "waiting" /\ leader'[d] # NoCall =>
            /\ req'[d] \in Keyed /\ fetch'[leader'[d]] = "lead"
            /\ key'[leader'[d]] = key'[d]
      BY <1>1, <1>4, <1>5, <1>7, <2>4 DEF Inv, FetchInv, TypeOK
    <3>5. \A j \in Keys : inflight'[j] # NoCall =>
            fetch'[inflight'[j]] = "lead" /\ key'[inflight'[j]] = j
      BY <1>1, <1>5, <1>7, <2>4 DEF Inv, FetchInv, TypeOK
    <3> QED
      BY <3>1, <3>2, <3>3, <3>4, <3>5 DEF FetchInv
  <2>7. RevalidationInv'
    <3>1. \A j \in Keys : entry'[j].revalidating # NoCall =>
            /\ fetch'[entry'[j].revalidating] = "revalidate"
            /\ key'[entry'[j].revalidating] = j
      BY <1>5, <1>7, <2>3, <2>4, EntryParts DEF Inv, RevalidationInv, k
    <3>2. \A d \in Calls : fetch'[d] = "revalidate" => key'[d] \in Keys
      BY <1>3, <1>5, <2>4, KeyOfCall DEF Inv, FetchInv, k
    <3>3. \A d \in Calls : fetch'[d] = "revalidate" /\ Cached(key[d])' =>
            entry'[key'[d]].revalidating = d \/ started'[d] <= entry'[key'[d]].fetchedAt
      BY <1>3, <1>5, <1>6, <2>2, <2>3, <2>4, <3>2 DEF Inv, RevalidationInv, k
    <3>4. ASSUME NEW d \in Calls, NEW e \in Calls,
                 fetch'[d] = "revalidate", fetch'[e] = "revalidate", key'[d] = key'[e]
          PROVE  Apart(d, e)'
      <4>1. CASE d # c /\ e # c
        <5>1. Apart(d, e)
          BY <1>5, <2>4, <3>4, <4>1 DEF Inv, RevalidationInv
        <5> QED
          BY <2>4, <4>1, <5>1 DEF Apart
      <4>2. CASE d = c /\ e # c
        BY <1>5, <2>2, <2>4, <3>4, <4>2 DEF Apart, k
      <4>3. CASE d # c /\ e = c
        BY <1>5, <2>2, <2>4, <3>4, <4>3 DEF Apart, k
      <4>4. CASE d = c /\ e = c
        BY <4>4 DEF Apart
      <4> QED
        BY <4>1, <4>2, <4>3, <4>4
    <3> QED
      BY <3>1, <3>3, <3>4 DEF RevalidationInv
  <2>8. EntryInv'
    BY <1>1, <1>5, <1>6, <2>3 DEF Inv, EntryInv
  <2> QED
    BY <1>4, <2>5, <2>6, <2>7, <2>8 DEF Inv
<1> QED
  BY <1>8, <1>9

\* A miss with nobody fetching leads, with somebody fetching follows (305-314).
LEMMA MissKeeps ==
    ASSUME Inv, NEW c \in Calls, Lead(c) \/ Follow(c)
    PROVE  Inv'
<1> DEFINE k == key[c]
<1>1. /\ UNCHANGED <<now, order, entry, req, age, got>>
      /\ UsesCache(c) /\ pc' = [pc EXCEPT ![c] = "waiting"]
  BY DEF Lead, Follow
<1>2. k \in Keys /\ req[c] \in Keyed /\ pc[c] = "idle"
  BY <1>1, KeyOfCall DEF UsesCache
<1>3. key' = key /\ \A j, i : Brought(j, i)' <=> Brought(j, i)
  BY <1>1, KeysStay
<1>4. EntryInv' /\ \A j : Cached(j)' <=> Cached(j)
  BY <1>1, MapStays DEF Inv
<1>5. fetch[c] = "none" /\ leader[c] = NoCall
  BY <1>2 DEF Inv, FetchInv
<1>6. \A d \in Calls : pc'[d] = IF d = c THEN "waiting" ELSE pc[d]
  BY <1>1 DEF Inv, TypeOK
<1>7. ServedInv' /\ StalenessBounded'
  BY <1>1, <1>3, <1>6 DEF Inv, ServedInv, StalenessBounded, XCache
<1>8. CASE Lead(c)
  <2>1. /\ inflight[k] = NoCall /\ inflight' = [inflight EXCEPT ![k] = c]
        /\ leader' = [leader EXCEPT ![c] = c]
        /\ fetch' = [fetch EXCEPT ![c] = "lead"] /\ started' = [started EXCEPT ![c] = now]
    BY <1>8 DEF Lead, NoLeader
  <2> HIDE DEF k
  <2>2. TypeOK'
    BY <1>1, <2>1 DEF Inv, TypeOK
  <2>3. /\ \A j \in Keys : inflight'[j] = IF j = k THEN c ELSE inflight[j]
        /\ \A d \in Calls : leader'[d] = IF d = c THEN c ELSE leader[d]
        /\ \A d \in Calls : fetch'[d] = IF d = c THEN "lead" ELSE fetch[d]
        /\ \A d \in Calls : started'[d] = IF d = c THEN now ELSE started[d]
        /\ now \in Nat
    BY <2>1 DEF Inv, TypeOK
  <2>4. FetchInv'
    <3>1. \A d \in Calls :
            /\ pc'[d] = "idle" => fetch'[d] = "none" /\ leader'[d] = NoCall
            /\ fetch'[d] \in {"lead", "revalidate"} => req'[d] \in Keyed
      BY <1>1, <1>2, <1>6, <2>3 DEF Inv, FetchInv
    <3>2. \A d \in Calls : Fetching(d)' => started'[d] <= now' /\ now' <= started'[d] + FetchTimeout
      BY <1>1, <2>3 DEF Inv, FetchInv, Fetching
    <3>3. \A d \in Calls : fetch[d] = "lead" => key[d] \in Keys /\ key[d] # k
      BY <2>1, KeyOfCall DEF Inv, FetchInv, k
    <3>4. \A d \in Calls : fetch'[d] = "lead" =>
            pc'[d] = "waiting" /\ leader'[d] = d /\ inflight'[key'[d]] = d
      BY <1>2, <1>3, <1>6, <2>3, <3>3 DEF Inv, FetchInv, k
    <3>5. \A d \in Calls : pc'[d] = "waiting" /\ leader'[d] # NoCall =>
            /\ req'[d] \in Keyed /\ fetch'[leader'[d]] = "lead"
            /\ key'[leader'[d]] = key'[d]
      BY <1>1, <1>2, <1>3, <1>6, <2>3 DEF Inv, FetchInv, TypeOK
    <3>6. \A j \in Keys : inflight'[j] # NoCall =>
            fetch'[inflight'[j]] = "lead" /\ key'[inflight'[j]] = j
      <4> SUFFICES ASSUME NEW j \in Keys, inflight'[j] # NoCall
                   PROVE  fetch'[inflight'[j]] = "lead" /\ key'[inflight'[j]] = j
        OBVIOUS
      <4>1. CASE j = k
        BY <1>3, <2>3, <4>1 DEF k
      <4>2. CASE j # k
        <5>1. inflight'[j] = inflight[j] /\ inflight[j] \in Calls
          BY <2>3, <4>2 DEF Inv, TypeOK
        <5>2. fetch[inflight[j]] = "lead" /\ key[inflight[j]] = j
          BY <5>1 DEF Inv, FetchInv
        <5> QED
          BY <1>3, <2>3, <5>1, <5>2
      <4> QED
        BY <4>1, <4>2
    <3> QED
      BY <3>1, <3>2, <3>4, <3>5, <3>6 DEF FetchInv
  <2>5. RevalidationInv'
    <3>1. \A d \in Calls : fetch'[d] = "revalidate" <=> fetch[d] = "revalidate"
      BY <1>5, <2>3
    <3>2. \A d \in Calls : fetch[d] = "revalidate" => started'[d] = started[d]
      BY <1>5, <2>3
    <3>3. \A j \in Keys : entry[j].revalidating # NoCall => entry[j].revalidating \in Calls
      BY EntryParts DEF Inv
    <3> QED
      BY <1>1, <1>3, <1>4, <3>1, <3>2, <3>3 DEF Inv, RevalidationInv, Apart
  <2> QED
    BY <1>4, <1>7, <2>2, <2>4, <2>5 DEF Inv
<1>9. CASE Follow(c)
  <2>1. /\ inflight[k] # NoCall /\ leader' = [leader EXCEPT ![c] = inflight[k]]
        /\ UNCHANGED <<inflight, fetch, started>>
    BY <1>9 DEF Follow, NoLeader
  <2>2. inflight[k] \in Calls /\ fetch[inflight[k]] = "lead" /\ key[inflight[k]] = k
    BY <1>2, <2>1 DEF Inv, FetchInv, TypeOK
  <2> HIDE DEF k
  <2>3. TypeOK'
    BY <1>1, <2>1, <2>2 DEF Inv, TypeOK
  <2>4. \A d \in Calls : leader'[d] = IF d = c THEN inflight[k] ELSE leader[d]
    BY <2>1 DEF Inv, TypeOK
  <2>5. FetchInv'
    <3>1. \A d \in Calls :
            /\ pc'[d] = "idle" => fetch'[d] = "none" /\ leader'[d] = NoCall
            /\ Fetching(d)' => started'[d] <= now' /\ now' <= started'[d] + FetchTimeout
            /\ fetch'[d] \in {"lead", "revalidate"} => req'[d] \in Keyed
      BY <1>1, <1>6, <2>1, <2>4 DEF Inv, FetchInv, Fetching
    <3>2. \A d \in Calls : fetch'[d] = "lead" =>
            pc'[d] = "waiting" /\ leader'[d] = d /\ inflight'[key'[d]] = d
      BY <1>3, <1>5, <1>6, <2>1, <2>4 DEF Inv, FetchInv
    <3>3. \A d \in Calls : pc'[d] = "waiting" /\ leader'[d] # NoCall =>
            /\ req'[d] \in Keyed /\ fetch'[leader'[d]] = "lead"
            /\ key'[leader'[d]] = key'[d]
      BY <1>1, <1>2, <1>3, <1>6, <2>1, <2>2, <2>4 DEF Inv, FetchInv, k
    <3>4. \A j \in Keys : inflight'[j] # NoCall =>
            fetch'[inflight'[j]] = "lead" /\ key'[inflight'[j]] = j
      BY <1>3, <2>1 DEF Inv, FetchInv
    <3> QED
      BY <3>1, <3>2, <3>3, <3>4 DEF FetchInv
  <2>6. RevalidationInv'
    BY <1>1, <1>3, <1>4, <2>1 DEF Inv, RevalidationInv, Apart
  <2> QED
    BY <1>4, <1>7, <2>3, <2>5, <2>6 DEF Inv
<1> QED
  BY <1>8, <1>9

\* What a fetch for a call brings, when it ends.
LEMMA FetchedBody ==
    ASSUME Inv, NEW c \in Calls, fetch[c] \in {"lead", "revalidate"}
    PROVE  /\ req[c] \in Keyed /\ key[c] \in Keys
           /\ Fetched(c) \in Body /\ Fetched(c).at = started[c]
           /\ Fetched(c).of = Item(req[c]) /\ Brought(key[c], Item(req[c]))
           /\ started[c] \in Nat /\ now \in Nat
           /\ started[c] <= now /\ now <= started[c] + FetchTimeout
<1>1. req[c] \in Keyed
  BY DEF Inv, FetchInv
<1>2. key[c] \in Keys /\ Brought(key[c], Item(req[c]))
  BY <1>1, KeyOfCall
<1>3. started[c] \in Nat /\ now \in Nat
  BY DEF Inv, TypeOK
<1>4. started[c] <= now /\ now <= started[c] + FetchTimeout
  BY DEF Inv, FetchInv, Fetching
<1> QED
  BY <1>1, <1>2, <1>3, <1>4 DEF Fetched, Body

\* A result that is stored is one its key stands for, and as old as its fetch.
LEMMA StoredEntry ==
    ASSUME Inv, NEW c \in Calls, fetch[c] \in {"lead", "revalidate"},
           CacheSet(key[c], Fetched(c)), UNCHANGED <<now, req>>
    PROVE  /\ order' \in Seq(Keys) /\ Len(order') <= MaxEntries /\ IsInjective(order')
           /\ entry' \in [Keys -> Entry]
           /\ EntryInv'
           /\ entry'[key[c]].fetchedAt = now /\ entry'[key[c]].revalidating = NoCall
           /\ \A j \in Keys : j # key[c] =>
                 /\ entry'[j].revalidating # NoCall =>
                       entry'[j].revalidating = entry[j].revalidating
                 /\ Cached(j)' => Cached(j) /\ entry'[j] = entry[j]
<1> DEFINE k == key[c]
           b == Fetched(c)
<1>1. /\ k \in Keys /\ b \in Body /\ b.at = started[c] /\ Brought(k, b.of)
      /\ started[c] \in Nat /\ now \in Nat
      /\ started[c] <= now /\ now <= started[c] + FetchTimeout
  BY FetchedBody
<1>2. TypeOK /\ CacheSet(k, b)
  BY DEF Inv
<1> HIDE DEF k, b
<1>3. /\ order' \in Seq(Keys) /\ Len(order') <= MaxEntries /\ IsInjective(order')
      /\ entry' \in [Keys -> Entry]
      /\ Contains(order', k)
      /\ entry'[k] = [body |-> b, fetchedAt |-> now, revalidating |-> NoCall]
      /\ \A j \in Keys \ {k} : entry'[j] = IF Cached(j)' THEN entry[j] ELSE NoEntry
      /\ \A j \in Keys \ {k} : Cached(j)' => Cached(j)
  <2>1. ASSUME NEW x \in Keys, NEW y \in Body, CacheSet(x, y)
        PROVE  /\ order' \in Seq(Keys) /\ Len(order') <= MaxEntries /\ IsInjective(order')
               /\ entry' \in [Keys -> Entry]
               /\ Contains(order', x)
               /\ entry'[x] = [body |-> y, fetchedAt |-> now, revalidating |-> NoCall]
               /\ \A j \in Keys \ {x} : entry'[j] = IF Cached(j)' THEN entry[j] ELSE NoEntry
               /\ \A j \in Keys \ {x} : Cached(j)' => Cached(j)
    BY <1>2, <2>1, CacheSetLeaves
  <2> QED
    BY <1>1, <1>2, <2>1
<1>4. /\ entry'[k].body = b /\ entry'[k].fetchedAt = now /\ entry'[k].revalidating = NoCall
      /\ NoEntry.revalidating = NoCall
  BY <1>3 DEF NoEntry
<1>5. \A x, i : Brought(x, i)' <=> Brought(x, i)
  BY KeysStay
<1>6. EntryInv'
  <2> SUFFICES ASSUME NEW j \in Keys, Cached(j)'
               PROVE  /\ entry'[j].body.at <= entry'[j].fetchedAt
                      /\ entry'[j].fetchedAt <= entry'[j].body.at + FetchTimeout
                      /\ entry'[j].fetchedAt <= now'
                      /\ Brought(j, entry'[j].body.of)
    BY <1>5 DEF EntryInv
  <2>1. CASE j = k
    BY <1>1, <1>4, <2>1
  <2>2. CASE j # k
    BY <1>3, <2>2 DEF Inv, EntryInv
  <2> QED
    BY <2>1, <2>2
<1> QED
  BY <1>3, <1>4, <1>6 DEF k

\* Storing a result leaves no revalidation of its key that the new entry is
\* older than, and no other entry loses its flag but by eviction.
LEMMA RevalidationSurvives ==
    ASSUME Inv, NEW c \in Calls, fetch[c] \in {"lead", "revalidate"}, FetchOver(c),
           CacheSet(key[c], Fetched(c)), UNCHANGED <<now, req>>
    PROVE  RevalidationInv'
<1> DEFINE k == key[c]
<1>1. /\ entry'[k].fetchedAt = now /\ entry'[k].revalidating = NoCall
      /\ \A j \in Keys : j # k =>
            /\ entry'[j].revalidating # NoCall =>
                  entry'[j].revalidating = entry[j].revalidating
            /\ Cached(j)' => Cached(j) /\ entry'[j] = entry[j]
  BY StoredEntry
<1> HIDE DEF k
<1>2. key' = key
  BY KeysStay
<1>3. /\ \A d \in Calls : fetch'[d] = IF d = c THEN "over" ELSE fetch[d]
      /\ \A d \in Calls : d # c => started'[d] = started[d]
  BY DEF Inv, TypeOK, FetchOver
<1>4. ASSUME NEW j \in Keys, entry'[j].revalidating # NoCall
      PROVE  /\ fetch'[entry'[j].revalidating] = "revalidate"
             /\ key'[entry'[j].revalidating] = j
  <2>1. j # k /\ entry'[j].revalidating = entry[j].revalidating
    BY <1>1, <1>4
  <2>2. /\ entry[j].revalidating \in Calls /\ key[entry[j].revalidating] = j
        /\ fetch[entry[j].revalidating] = "revalidate"
    BY <1>4, <2>1, EntryParts DEF Inv, RevalidationInv
  <2>3. entry[j].revalidating # c
    BY <2>1, <2>2 DEF k
  <2> QED
    BY <1>2, <1>3, <2>1, <2>2, <2>3
<1>5. ASSUME NEW d \in Calls, fetch'[d] = "revalidate", Contains(order', key[d])
      PROVE  entry'[key[d]].revalidating = d \/ started'[d] <= entry'[key[d]].fetchedAt
  <2>1. d # c /\ fetch[d] = "revalidate" /\ started'[d] = started[d]
    BY <1>3, <1>5
  <2>2. key[d] \in Keys /\ started[d] <= now
    BY <2>1, FetchedBody
  <2>3. CASE key[d] = k
    BY <1>1, <2>1, <2>2, <2>3
  <2>4. CASE key[d] # k
    <3>1. \A j \in Keys : Contains(order', j) /\ j # k => Cached(j) /\ entry'[j] = entry[j]
      BY <1>1 DEF Cached
    <3>2. Cached(key[d]) /\ entry'[key[d]] = entry[key[d]]
      BY <1>5, <2>2, <2>4, <3>1
    <3> QED
      BY <2>1, <3>2 DEF Inv, RevalidationInv
  <2> QED
    BY <2>3, <2>4
<1>6. \A d, e \in Calls :
        fetch'[d] = "revalidate" /\ fetch'[e] = "revalidate" /\ key'[d] = key'[e] =>
          Apart(d, e)'
  BY <1>2, <1>3 DEF Inv, RevalidationInv, Apart
<1>7. \A d \in Calls : fetch'[d] = "revalidate" /\ Contains(order', key'[d]) =>
        entry'[key'[d]].revalidating = d \/ started'[d] <= entry'[key'[d]].fetchedAt
  BY <1>2, <1>5
<1> QED
  BY <1>4, <1>6, <1>7 DEF RevalidationInv, Cached

\* The end of a revalidation touches nobody who waits.
LEMMA RevalidateOver ==
    ASSUME Inv, NEW c \in Calls, fetch[c] = "revalidate", FetchOver(c),
           UNCHANGED <<now, inflight, req, pc, leader, age, got>>
    PROVE  /\ fetch' \in [Calls -> {"none", "probe", "revalidate", "lead", "over"}]
           /\ started' \in [Calls -> Nat]
           /\ FetchInv' /\ ServedInv' /\ StalenessBounded'
<1>1. key' = key /\ \A k, i : Brought(k, i)' <=> Brought(k, i)
  BY KeysStay
<1>2. /\ \A d \in Calls : fetch'[d] = IF d = c THEN "over" ELSE fetch[d]
      /\ \A d \in Calls : started'[d] = IF d = c THEN 0 ELSE started[d]
      /\ fetch' \in [Calls -> {"none", "probe", "revalidate", "lead", "over"}]
      /\ started' \in [Calls -> Nat]
  BY DEF Inv, TypeOK, FetchOver
<1>3. FetchInv'
  <2>1. \A d \in Calls : fetch[d] = "lead" <=> fetch'[d] = "lead"
    BY <1>2
  <2>2. \A d \in Calls :
          /\ pc'[d] = "idle" => fetch'[d] = "none" /\ leader'[d] = NoCall
          /\ Fetching(d)' => started'[d] <= now' /\ now' <= started'[d] + FetchTimeout
          /\ fetch'[d] \in {"lead", "revalidate"} => req'[d] \in Keyed
    BY <1>2 DEF Inv, FetchInv, Fetching
  <2>3. \A d \in Calls : fetch'[d] = "lead" =>
          pc'[d] = "waiting" /\ leader'[d] = d /\ inflight'[key'[d]] = d
    BY <1>1, <2>1 DEF Inv, FetchInv
  <2>4. \A d \in Calls : pc'[d] = "waiting" /\ leader'[d] # NoCall =>
          /\ req'[d] \in Keyed /\ fetch'[leader'[d]] = "lead" /\ key'[leader'[d]] = key'[d]
    <3>1. \A d \in Calls : leader[d] # NoCall => leader[d] \in Calls
      BY DEF Inv, TypeOK
    <3> QED
      BY <1>1, <2>1, <3>1 DEF Inv, FetchInv
  <2>5. \A k \in Keys : inflight'[k] # NoCall =>
          fetch'[inflight'[k]] = "lead" /\ key'[inflight'[k]] = k
    <3>1. \A k \in Keys : inflight[k] # NoCall => inflight[k] \in Calls
      BY DEF Inv, TypeOK
    <3> QED
      BY <1>1, <2>1, <3>1 DEF Inv, FetchInv
  <2> QED
    BY <2>2, <2>3, <2>4, <2>5 DEF FetchInv
<1>4. ServedInv' /\ StalenessBounded'
  BY <1>1 DEF Inv, ServedInv, StalenessBounded
<1> QED
  BY <1>2, <1>3, <1>4

\* A revalidation that succeeds stores what it brought (288-298).
LEMMA RevalidateEndsKeeps ==
    ASSUME Inv, NEW c \in Calls, RevalidateEnds(c)
    PROVE  Inv'
<1>1. /\ fetch[c] = "revalidate" /\ FetchOver(c) /\ CacheSet(key[c], Fetched(c))
      /\ UNCHANGED <<now, inflight, req, pc, leader, age, got>>
  BY DEF RevalidateEnds
<1>2. /\ fetch' \in [Calls -> {"none", "probe", "revalidate", "lead", "over"}]
      /\ started' \in [Calls -> Nat]
      /\ FetchInv' /\ ServedInv' /\ StalenessBounded'
  BY <1>1, RevalidateOver
<1>3. /\ order' \in Seq(Keys) /\ Len(order') <= MaxEntries /\ IsInjective(order')
      /\ entry' \in [Keys -> Entry] /\ EntryInv'
  BY <1>1, StoredEntry
<1>4. RevalidationInv'
  BY <1>1, RevalidationSurvives
<1>5. TypeOK'
  BY <1>1, <1>2, <1>3 DEF Inv, TypeOK
<1> QED
  BY <1>2, <1>3, <1>4, <1>5 DEF Inv

\* A revalidation that fails only takes its flag back (299-302).
LEMMA RevalidateFailsKeeps ==
    ASSUME Inv, NEW c \in Calls, RevalidateFails(c)
    PROVE  Inv'
<1>1. /\ fetch[c] = "revalidate" /\ FetchOver(c) /\ ResetRevalidating(c)
      /\ UNCHANGED <<now, order, inflight, req, pc, leader, age, got>>
  BY DEF RevalidateFails
<1>2. /\ fetch' \in [Calls -> {"none", "probe", "revalidate", "lead", "over"}]
      /\ started' \in [Calls -> Nat]
      /\ FetchInv' /\ ServedInv' /\ StalenessBounded'
  BY <1>1, RevalidateOver
<1>3. entry \in [Keys -> Entry]
  BY DEF Inv, TypeOK
<1>4. /\ entry' \in [Keys -> Entry]
      /\ \A j \in Keys :
            /\ entry'[j].body = entry[j].body /\ entry'[j].fetchedAt = entry[j].fetchedAt
            /\ entry'[j].revalidating =
                  IF entry[j].revalidating = c THEN NoCall ELSE entry[j].revalidating
  BY <1>1, <1>3 DEF ResetRevalidating, Entry
<1>5. key' = key /\ \A k, i : Brought(k, i)' <=> Brought(k, i)
  BY <1>1, KeysStay
<1>6. \A j : Cached(j)' <=> Cached(j)
  BY <1>1 DEF Cached
<1>7. TypeOK'
  BY <1>1, <1>2, <1>4 DEF Inv, TypeOK
<1>8. EntryInv'
  BY <1>1, <1>4, <1>5, <1>6 DEF Inv, EntryInv
<1>9. RevalidationInv'
  <2>1. /\ \A d \in Calls : fetch'[d] = IF d = c THEN "over" ELSE fetch[d]
        /\ \A d \in Calls : d # c => started'[d] = started[d]
    BY <1>1 DEF Inv, TypeOK, FetchOver
  <2>2. \A j \in Keys : entry'[j].revalidating # NoCall =>
          /\ fetch'[entry'[j].revalidating] = "revalidate"
          /\ key'[entry'[j].revalidating] = j
    BY <1>4, <1>5, <2>1, EntryParts DEF Inv, RevalidationInv
  <2>3. \A d \in Calls : fetch[d] = "revalidate" => key[d] \in Keys
    BY FetchedBody
  <2>4. \A d \in Calls : fetch'[d] = "revalidate" /\ Contains(order', key'[d]) =>
          entry'[key'[d]].revalidating = d \/ started'[d] <= entry'[key'[d]].fetchedAt
    BY <1>1, <1>4, <1>5, <2>1, <2>3 DEF Inv, RevalidationInv, Cached
  <2>5. \A d, e \in Calls :
          fetch'[d] = "revalidate" /\ fetch'[e] = "revalidate" /\ key'[d] = key'[e] =>
            Apart(d, e)'
    BY <1>5, <2>1 DEF Inv, RevalidationInv, Apart
  <2> QED
    BY <2>2, <2>4, <2>5 DEF RevalidationInv, Cached
<1> QED
  BY <1>2, <1>7, <1>8, <1>9 DEF Inv

\* When a leader is done, all who wait on it are answered and its key is free.
LEMMA LeaderDone ==
    ASSUME Inv, NEW c \in Calls, fetch[c] = "lead", LeadOver(c),
           UNCHANGED <<now, req, leader>>,
           \A d \in Followers(c) : pc'[d] \notin {"idle", "waiting"},
           \A d \in Calls \ Followers(c) : pc'[d] = pc[d]
    PROVE  /\ fetch' \in [Calls -> {"none", "probe", "revalidate", "lead", "over"}]
           /\ started' \in [Calls -> Nat]
           /\ inflight' \in [Keys -> Calls \cup {NoCall}]
           /\ FetchInv'
<1> DEFINE k == key[c]
<1>1. key' = key
  BY KeysStay
<1>2. k \in Keys /\ c \in Followers(c)
  BY FetchedBody DEF Inv, FetchInv, Followers
<1>3. /\ \A d \in Calls : fetch'[d] = IF d = c THEN "over" ELSE fetch[d]
      /\ \A d \in Calls : started'[d] = IF d = c THEN 0 ELSE started[d]
      /\ fetch' \in [Calls -> {"none", "probe", "revalidate", "lead", "over"}]
      /\ started' \in [Calls -> Nat]
  BY DEF Inv, TypeOK, LeadOver, FetchOver
<1>4. inflight' = [inflight EXCEPT ![k] = NoCall]
  BY DEF LeadOver
<1> HIDE DEF k
<1>5. /\ \A j \in Keys : inflight'[j] = IF j = k THEN NoCall ELSE inflight[j]
      /\ inflight' \in [Keys -> Calls \cup {NoCall}]
  BY <1>4 DEF Inv, TypeOK
<1>6. FetchInv'
  <2>1. ASSUME NEW d \in Calls
        PROVE  /\ pc'[d] = "idle" => fetch'[d] = "none" /\ leader'[d] = NoCall
               /\ Fetching(d)' => started'[d] <= now' /\ now' <= started'[d] + FetchTimeout
               /\ fetch'[d] \in {"lead", "revalidate"} => req'[d] \in Keyed
    <3>1. pc'[d] = "idle" => pc[d] = "idle" /\ d # c
      BY <1>2
    <3> QED
      BY <1>3, <3>1 DEF Inv, FetchInv, Fetching
  <2>2. ASSUME NEW d \in Calls, fetch'[d] = "lead"
        PROVE  pc'[d] = "waiting" /\ leader'[d] = d /\ inflight'[key'[d]] = d
    <3>1. d # c /\ fetch[d] = "lead"
      BY <1>3, <2>2
    <3>2. pc[d] = "waiting" /\ leader[d] = d /\ inflight[key[d]] = d /\ inflight[k] = c
      BY <3>1 DEF Inv, FetchInv, k
    <3>3. d \notin Followers(c)
      BY <3>1, <3>2 DEF Followers
    <3>4. key[d] \in Keys /\ key[d] # k
      BY <3>1, <3>2, FetchedBody
    <3> QED
      BY <1>1, <1>5, <3>2, <3>3, <3>4
  <2>3. ASSUME NEW d \in Calls, pc'[d] = "waiting", leader'[d] # NoCall
        PROVE  /\ req'[d] \in Keyed /\ fetch'[leader'[d]] = "lead"
               /\ key'[leader'[d]] = key'[d]
    <3>1. pc[d] = "waiting" /\ leader[d] # c /\ leader[d] \in Calls
      BY <2>3 DEF Followers, Inv, TypeOK
    <3>2. req[d] \in Keyed /\ fetch[leader[d]] = "lead" /\ key[leader[d]] = key[d]
      BY <2>3, <3>1 DEF Inv, FetchInv
    <3> QED
      BY <1>1, <1>3, <3>1, <3>2
  <2>4. ASSUME NEW j \in Keys, inflight'[j] # NoCall
        PROVE  fetch'[inflight'[j]] = "lead" /\ key'[inflight'[j]] = j
    <3>1. j # k /\ inflight'[j] = inflight[j] /\ inflight[j] \in Calls
      BY <1>5, <2>4 DEF Inv, TypeOK
    <3>2. fetch[inflight[j]] = "lead" /\ key[inflight[j]] = j
      BY <2>4, <3>1 DEF Inv, FetchInv
    <3>3. inflight[j] # c
      BY <3>1, <3>2 DEF k
    <3> QED
      BY <1>1, <1>3, <3>1, <3>2, <3>3
  <2> QED
    BY <2>1, <2>2, <2>3, <2>4 DEF FetchInv
<1> QED
  BY <1>3, <1>5, <1>6

\* A miss that succeeds: cached, and served to all who wait (309-317).
LEMMA LeadEndsKeeps ==
    ASSUME Inv, NEW c \in Calls, LeadEnds(c)
    PROVE  Inv'
<1>1. /\ fetch[c] = "lead" /\ LeadOver(c) /\ FetchOver(c) /\ CacheSet(key[c], Fetched(c))
      /\ UNCHANGED <<now, req, leader>>
      /\ pc' = [d \in Calls |-> IF d = c THEN "MISS"
                                ELSE IF d \in Followers(c) THEN "COALESCED" ELSE pc[d]]
      /\ age' = [d \in Calls |-> IF d \in Followers(c) THEN now - started[c] ELSE age[d]]
      /\ got' = [d \in Calls |-> IF d \in Followers(c) THEN Item(req[c]) ELSE got[d]]
  BY DEF LeadEnds, LeadOver
<1>2. c \in Followers(c)
  BY <1>1 DEF Inv, FetchInv, Followers
<1>3. /\ \A d \in Followers(c) : pc'[d] \in {"MISS", "COALESCED"}
      /\ \A d \in Calls \ Followers(c) : pc'[d] = pc[d]
  BY <1>1, <1>2 DEF Followers
<1>4. /\ fetch' \in [Calls -> {"none", "probe", "revalidate", "lead", "over"}]
      /\ started' \in [Calls -> Nat]
      /\ inflight' \in [Keys -> Calls \cup {NoCall}]
      /\ FetchInv'
  BY <1>1, <1>3, LeaderDone
<1>5. /\ order' \in Seq(Keys) /\ Len(order') <= MaxEntries /\ IsInjective(order')
      /\ entry' \in [Keys -> Entry] /\ EntryInv'
  BY <1>1, StoredEntry
<1>6. RevalidationInv'
  BY <1>1, RevalidationSurvives
<1>7. /\ req[c] \in Keyed /\ Brought(key[c], Item(req[c]))
      /\ now - started[c] \in Nat /\ now - started[c] <= FetchTimeout
  BY <1>1, FetchedBody
<1>8. TypeOK'
  <2>1. pc' \in [Calls -> {"idle", "waiting"} \cup XCache \cup Statuses]
    BY <1>1 DEF Inv, TypeOK, XCache
  <2>2. age' \in [Calls -> Nat]
    BY <1>1, <1>7 DEF Inv, TypeOK
  <2>3. got' \in [Calls -> {Item(q) : q \in Keyed} \cup {NoItem}]
    BY <1>1, <1>7 DEF Inv, TypeOK
  <2> QED
    BY <1>1, <1>4, <1>5, <2>1, <2>2, <2>3 DEF Inv, TypeOK
<1>9. key' = key /\ \A k, i : Brought(k, i)' <=> Brought(k, i)
  BY <1>1, KeysStay
<1>10. \A d \in Followers(c) : d \in Calls /\ req[d] \in Keyed /\ key[d] = key[c]
  BY DEF Inv, FetchInv, Followers
<1>11. ServedInv'
  <2> SUFFICES ASSUME NEW d \in Calls, pc'[d] \in XCache
               PROVE  req[d] \in Keyed /\ Brought(key[d], got'[d])
    BY <1>1, <1>9 DEF ServedInv
  <2>1. CASE d \in Followers(c)
    BY <1>1, <1>7, <1>10, <2>1
  <2>2. CASE d \notin Followers(c)
    BY <1>1, <1>3, <2>2 DEF Inv, ServedInv
  <2> QED
    BY <2>1, <2>2
<1>12. StalenessBounded'
  <2> SUFFICES ASSUME NEW d \in Calls
               PROVE  /\ pc'[d] = "HIT" => age'[d] < TTL + FetchTimeout
                      /\ pc'[d] = "STALE" => age'[d] < TTL + SWR + FetchTimeout
                      /\ pc'[d] \in {"MISS", "COALESCED"} => age'[d] <= FetchTimeout
    BY DEF StalenessBounded
  <2>1. CASE d \in Followers(c)
    BY <1>1, <1>3, <1>7, <2>1
  <2>2. CASE d \notin Followers(c)
    BY <1>1, <1>3, <2>2 DEF Inv, StalenessBounded
  <2> QED
    BY <2>1, <2>2
<1> QED
  BY <1>4, <1>5, <1>6, <1>8, <1>11, <1>12 DEF Inv

\* A miss that fails: 502 for all who wait, nothing is cached (314).
LEMMA LeadFailsKeeps ==
    ASSUME Inv, NEW c \in Calls, LeadFails(c)
    PROVE  Inv'
<1>1. /\ fetch[c] = "lead" /\ LeadOver(c) /\ FetchOver(c)
      /\ UNCHANGED <<now, order, entry, req, leader, age, got>>
      /\ pc' = [d \in Calls |-> IF d \in Followers(c) THEN "502" ELSE pc[d]]
  BY DEF LeadFails, LeadOver
<1>2. /\ \A d \in Followers(c) : pc'[d] = "502"
      /\ \A d \in Calls \ Followers(c) : pc'[d] = pc[d]
  BY <1>1 DEF Followers
<1>3. /\ fetch' \in [Calls -> {"none", "probe", "revalidate", "lead", "over"}]
      /\ started' \in [Calls -> Nat]
      /\ inflight' \in [Keys -> Calls \cup {NoCall}]
      /\ FetchInv'
  BY <1>1, <1>2, LeaderDone
<1>4. key' = key /\ \A k, i : Brought(k, i)' <=> Brought(k, i)
  BY <1>1, KeysStay
<1>5. EntryInv' /\ \A k : Cached(k)' <=> Cached(k)
  BY <1>1, MapStays DEF Inv
<1>6. TypeOK'
  <2>1. pc' \in [Calls -> {"idle", "waiting"} \cup XCache \cup Statuses]
    BY <1>1 DEF Inv, TypeOK, Statuses
  <2> QED
    BY <1>1, <1>3, <2>1 DEF Inv, TypeOK
<1>7. RevalidationInv'
  <2>1. \A d \in Calls : fetch'[d] = "revalidate" <=> fetch[d] = "revalidate"
    BY <1>1 DEF Inv, TypeOK, FetchOver
  <2>2. \A d \in Calls : fetch[d] = "revalidate" => started'[d] = started[d]
    BY <1>1 DEF Inv, TypeOK, FetchOver
  <2>3. \A j \in Keys : entry[j].revalidating # NoCall => entry[j].revalidating \in Calls
    BY EntryParts DEF Inv
  <2> QED
    BY <1>1, <1>4, <1>5, <2>1, <2>2, <2>3 DEF Inv, RevalidationInv, Apart
<1>8. ServedInv' /\ StalenessBounded'
  BY <1>1, <1>2, <1>4 DEF Inv, ServedInv, StalenessBounded, XCache
<1> QED
  BY <1>3, <1>5, <1>6, <1>7, <1>8 DEF Inv

\* Time passes only while no fetch outlives its abort signal (172).
LEMMA TickKeeps == Inv /\ Tick => Inv'
<1> SUFFICES ASSUME Inv, Tick PROVE Inv'
  OBVIOUS
<1>1. /\ now' = now + 1 /\ now \in Nat
      /\ UNCHANGED <<order, entry, inflight, fetch, started, req, pc, leader, age, got>>
      /\ \A c \in Calls : Fetching(c) => now < started[c] + FetchTimeout
  BY DEF Inv, TypeOK, Tick
<1>2. key' = key /\ \A k, i : Brought(k, i)' <=> Brought(k, i)
  BY <1>1, KeysStay
<1>3. \A k : Cached(k)' <=> Cached(k)
  BY <1>1 DEF Cached
<1>4. TypeOK'
  BY <1>1 DEF Inv, TypeOK
<1>5. FetchInv'
  <2>1. \A c \in Calls : started[c] \in Nat
    BY DEF Inv, TypeOK
  <2>2. \A c \in Calls : Fetching(c)' <=> Fetching(c)
    BY <1>1 DEF Fetching
  <2>3. \A c \in Calls : Fetching(c) => started[c] <= now + 1 /\ now + 1 <= started[c] + FetchTimeout
    BY <1>1, <2>1 DEF Inv, FetchInv
  <2> QED
    BY <1>1, <1>2, <2>2, <2>3 DEF Inv, FetchInv
<1>6. RevalidationInv'
  BY <1>1, <1>2, <1>3 DEF Inv, RevalidationInv, Apart
<1>7. EntryInv'
  <2>1. \A k \in Keys : entry[k].fetchedAt \in Nat
    BY EntryParts DEF Inv
  <2> QED
    BY <1>1, <1>2, <1>3, <2>1 DEF Inv, EntryInv
<1>8. ServedInv' /\ StalenessBounded'
  BY <1>1, <1>2 DEF Inv, ServedInv, StalenessBounded
<1> QED
  BY <1>4, <1>5, <1>6, <1>7, <1>8 DEF Inv

\* Every step keeps the invariant.
LEMMA NextInv == Inv /\ [Next]_vars => Inv'
<1> SUFFICES ASSUME Inv, [Next]_vars PROVE Inv'
  OBVIOUS
<1>1. ASSUME NEW c \in Calls, AnswerAtOnce(c) \/ Probe(c) \/ ProbeEnds(c) PROVE Inv'
  BY <1>1, AtOnceKeeps, ProbeKeeps, ProbeEndsKeeps
<1>2. ASSUME NEW c \in Calls, Hit(c) \/ ServeStale(c) \/ Lead(c) \/ Follow(c) PROVE Inv'
  BY <1>2, HitKeeps, StaleKeeps, MissKeeps
<1>3. ASSUME NEW c \in Calls, FetchEnds(c) PROVE Inv'
  BY <1>3, RevalidateEndsKeeps, RevalidateFailsKeeps, LeadEndsKeeps, LeadFailsKeeps DEF FetchEnds
<1>4. CASE Tick
  BY <1>4, TickKeeps
<1>5. CASE UNCHANGED vars
  <2>1. UNCHANGED <<now, order, entry, inflight, fetch, started, req, pc, leader, age, got>>
    BY <1>5 DEF vars
  <2>2. key' = key /\ \A k, i : Brought(k, i)' <=> Brought(k, i)
    BY <2>1, KeysStay
  <2>3. EntryInv' /\ \A k : Cached(k)' <=> Cached(k)
    BY <2>1, MapStays DEF Inv
  <2>4. TypeOK'
    BY <2>1 DEF Inv, TypeOK
  <2>5. FetchInv'
    BY <2>1, <2>2 DEF Inv, FetchInv, Fetching
  <2>6. RevalidationInv'
    BY <2>1, <2>2, <2>3 DEF Inv, RevalidationInv, Apart
  <2>7. ServedInv' /\ StalenessBounded'
    BY <2>1, <2>2 DEF Inv, ServedInv, StalenessBounded
  <2> QED
    BY <2>3, <2>4, <2>5, <2>6, <2>7 DEF Inv
<1> QED
  BY <1>1, <1>2, <1>3, <1>4, <1>5 DEF Next

LEMMA InvHolds == Spec => []Inv
  BY InitInv, NextInv, PTL DEF Spec

-----------------------------------------------------------------------------
(* The theorems.                                                           *)

\* Type correctness; the Map lists a key once and holds at most maxEntries
\* (181-187).
THEOREM TypeCorrect == Spec => []TypeOK
<1>1. Inv => TypeOK
  BY DEF Inv
<1> QED
  BY <1>1, InvHolds, PTL

\* However many calls miss a key or find it stale, one fetch at a time leads,
\* and revalidations start at least TTL apart; no flag outlives its fetch and
\* nobody waits on a fetch that is over, whatever is evicted or replaced
\* meanwhile and whatever the windows are (181-187, 269, 287-315).
THEOREM SingleFlightTheorem == Spec => []SingleFlight
<1>1. Inv => OneLeader
  <2> SUFFICES ASSUME Inv, NEW k \in Keys PROVE Cardinality(FetchesOf(k, "lead")) <= 1
    BY DEF OneLeader
  <2>1. FetchesOf(k, "lead") \subseteq {inflight[k]}
    BY DEF Inv, FetchInv, FetchesOf
  <2>2. IsFiniteSet({inflight[k]}) /\ Cardinality({inflight[k]}) = 1
    BY FS_Singleton
  <2> QED
    BY <2>1, <2>2, FS_Subset
<1>2. Inv => RevalidationsApart
  BY DEF Inv, RevalidationInv, RevalidationsApart, FetchesOf
<1>3. Inv => TypeOK /\ NeverStuck /\ NobodyStranded
  BY DEF Inv, FetchInv, RevalidationInv, NeverStuck, NobodyStranded
<1>4. Inv => SingleFlight
  BY <1>1, <1>2, <1>3 DEF SingleFlight
<1> QED
  BY <1>4, InvHolds, PTL

\* What commons-cache/README.md promises, one revalidation per key in flight,
\* where a fetch is aborted before TTL is over: with the 10 s of the abort
\* signal, for COMMONS_TTL_MS beyond 10000 (40, 242, 287-302, 341).
THEOREM OneRevalidationTheorem ==
    ASSUME FetchTimeout < TTL
    PROVE  Spec => []OneRevalidation
<1>1. Inv => OneRevalidation
  <2> SUFFICES ASSUME Inv, NEW k \in Keys PROVE Cardinality(FetchesOf(k, "revalidate")) <= 1
    BY DEF OneRevalidation
  <2>1. CASE FetchesOf(k, "revalidate") = {}
    BY <2>1, FS_EmptySet
  <2>2. CASE FetchesOf(k, "revalidate") # {}
    <3>1. PICK c : c \in FetchesOf(k, "revalidate")
      BY <2>2
    <3>2. ASSUME NEW d \in FetchesOf(k, "revalidate") PROVE d = c
      <4>1. Apart(c, d)
        BY <3>1, <3>2 DEF Inv, RevalidationInv, FetchesOf
      <4>2. /\ started[c] \in Nat /\ started[c] <= now /\ now <= started[c] + FetchTimeout
            /\ started[d] \in Nat /\ started[d] <= now /\ now <= started[d] + FetchTimeout
            /\ now \in Nat
        BY <3>1, <3>2 DEF Inv, TypeOK, FetchInv, Fetching, FetchesOf
      <4> QED
        BY <4>1, <4>2 DEF Apart
    <3>3. FetchesOf(k, "revalidate") = {c}
      BY <3>1, <3>2
    <3>4. Cardinality({c}) = 1
      BY FS_Singleton
    <3> QED
      BY <3>3, <3>4
  <2> QED
    BY <2>1, <2>2
<1> QED
  BY <1>1, InvHolds, PTL

\* Whoever is served gets the item it asked for, although feeds, threads,
\* albums and images share one Map of keys and followers take what a leader
\* brought; only an album and a feed that are homonyms may be mixed up (268,
\* 275-279, 309, 402, 534-536).
THEOREM ServedAsAskedTheorem == Spec => []ServedAsAsked
<1>1. Inv => ServedAsAsked
  <2> SUFFICES ASSUME Inv, NEW c \in Calls, pc[c] \in XCache
               PROVE  \/ got[c] = Item(req[c])
                      \/ Homonyms(Item(req[c]), got[c]) \/ Homonyms(got[c], Item(req[c]))
    BY DEF ServedAsAsked
  <2>1. req[c] \in Keyed /\ Brought(key[c], got[c])
    BY DEF Inv, ServedInv
  <2>2. key[c] = KeyOf(req[c])
    BY DEF key
  <2>3. PICK q \in Keyed : KeyOf(q) = KeyOf(req[c]) /\ got[c] = Item(q)
    BY <2>1, <2>2 DEF Brought
  <2>4. \A p \in Keyed : KeyOf(p) = KeyOf(q) =>
          \/ Item(p) = Item(q)
          \/ Homonyms(Item(p), Item(q)) \/ Homonyms(Item(q), Item(p))
    BY KeyClash
  <2> QED
    BY <2>1, <2>3, <2>4
<1> QED
  BY <1>1, InvHolds, PTL

\* No answer is older than its X-Cache says, for any windows in which a fetch
\* is shorter than TTL (282-290, 313-321).
THEOREM StalenessTheorem == Spec => []StalenessBounded
<1>1. Inv => StalenessBounded
  BY DEF Inv
<1> QED
  BY <1>1, InvHolds, PTL
=============================================================================
