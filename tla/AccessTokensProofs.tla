-------------------------- MODULE AccessTokensProofs -------------------------
(***************************************************************************)
(* Proofs about the relay's decision on a token (AccessTokens) and the     *)
(* issuer-key cache under it (IssuerKeyCache), for any sets of calls,      *)
(* headers, keys and signatures and every choice of the cache's times.     *)
(***************************************************************************)
EXTENDS AccessTokens, TLAPS

\* The refresh that is under way: the next may start backoffMs after it, it has
\* not outlived its deadline, and whoever awaits it came before that deadline.
RefreshInv ==
    /\ nextAttempt = lastStart + Backoff
    /\ pending => now <= lastStart + FetchTimeout
    /\ \A c \in Calls : pc[c] = "awaiting" =>
           pending /\ began[c] <= lastStart + FetchTimeout

\* The issuer signs with k in epoch e, which has begun, and an entry of k that
\* expires at t expires with the epoch after e.
Signs(k, e, t) == keyOf[e] = k /\ t = ExpiresAt(e) /\ e * EpochLen <= now

\* A cached key is one of the issuer's, with the expiry of an epoch it signs in,
\* and so is the key a call was given.
KeysInv ==
    /\ \A k \in KeyIds : keys[k] > 0 => \E e \in Epochs : Signs(k, e, keys[k])
    /\ \A c \in Calls : pc[c] = "key" => \E e \in Epochs : keyOf[e] = keyId[c]

CacheInv == TypeOK /\ RefreshInv /\ KeysInv

\* What a decision rests on: a key is sought only for a token, a nullifier
\* belongs to the bearer of a genuine token, and an admission to its owner.
DecisionInv ==
    /\ \A c \in Calls :
        /\ keyId[c] = header[c].keyId
        /\ pc[c] # "idle" => mode = "token" /\ header[c].kind = "token"
        /\ verdict[c] = "admitted" =>
              \/ PassesWithoutToken(c)
              \/ mode = "token" /\ owner[header[c].bytes] = c
    /\ \A s \in Signatures \cup {Empty}, c \in Calls :
          owner[s] = c => Genuine(header[c])

\* The inductive invariant.
Inv == AuthTypeOK /\ RefreshInv /\ KeysInv /\ DecisionInv

USE TimesAssumption, KeyMapsAssumption, HeadersAssumption, NoCallAssumption

-----------------------------------------------------------------------------
(* Epochs and expiry.                                                      *)

\* Floor division by the length of an epoch.
LEMMA EpochOf ==
    ASSUME NEW t \in Nat
    PROVE  /\ Epoch(t) \in Nat
           /\ Epoch(t) * EpochLen <= t
           /\ t < (Epoch(t) + 1) * EpochLen
<1> DEFINE q == t \div EpochLen
<1>1. q \in Int /\ t % EpochLen \in 0 .. EpochLen - 1 /\ t = EpochLen * q + (t % EpochLen)
  BY SMT
<1>2. q \in Nat
  BY SMT
<1> HIDE DEF q
<1>3. q * EpochLen <= t /\ t < (q + 1) * EpochLen
  BY <1>1, <1>2
<1> QED
  BY <1>2, <1>3 DEF Epoch, q

\* The arithmetic of the window: between the start of epoch e and the end of
\* the next one, the epoch is e or the next.
LEMMA WindowIsTwoEpochs ==
    ASSUME NEW e \in Nat, NEW t \in Nat, e * EpochLen <= t, t < (e + 2) * EpochLen
    PROVE  Epoch(t) \in {e, e + 1}
<1>1. PICK q \in Nat : q = Epoch(t)
  BY EpochOf
<1>2. q * EpochLen <= t /\ t < (q + 1) * EpochLen
  BY <1>1, EpochOf
<1>3. ~(q >= e + 2)
  <2> SUFFICES ASSUME q >= e + 2 PROVE FALSE
    OBVIOUS
  <2>1. q * EpochLen >= (e + 2) * EpochLen
    OBVIOUS
  <2> QED
    BY <1>2, <2>1
<1>4. ~(q + 1 <= e)
  <2> SUFFICES ASSUME q + 1 <= e PROVE FALSE
    OBVIOUS
  <2>1. e * EpochLen >= (q + 1) * EpochLen
    OBVIOUS
  <2> QED
    BY <1>2, <2>1
<1> QED
  BY <1>1, <1>3, <1>4

\* The epochs of the model are numbers, and a key expires at a number.
LEMMA EpochsAreNat ==
    /\ \A e \in Epochs : e \in Nat
    /\ \A e \in Epochs : ExpiresAt(e) \in Nat /\ ExpiresAt(e) > 0
<1>1. \A e \in Epochs : e \in Nat
  BY DEF Epochs
<1>2. \A e \in Nat : (e + 2) * EpochLen \in Nat /\ (e + 2) * EpochLen > 0
  OBVIOUS
<1> QED
  BY <1>1, <1>2 DEF ExpiresAt

\* The maximum of one or two numbers.
LEMMA MaxOfTwo ==
    ASSUME NEW S, NEW a \in Nat, NEW b \in Nat, S \subseteq {a, b}, S # {}
    PROVE  Max(S) \in S
<1>1. a \in S /\ (a >= b \/ b \notin S) => \A y \in S : a >= y
  OBVIOUS
<1>2. b \in S /\ (b >= a \/ a \notin S) => \A y \in S : b >= y
  OBVIOUS
<1>3. (a \in S /\ (a >= b \/ b \notin S)) \/ (b \in S /\ (b >= a \/ a \notin S))
  <2>1. a \in S \/ b \in S
    OBVIOUS
  <2>2. a >= b \/ b >= a
    OBVIOUS
  <2> QED
    BY <2>1, <2>2, Zenon
<1>4. \E x \in S : \A y \in S : x >= y
  BY <1>1, <1>2, <1>3, Zenon
<1> QED
  BY <1>4 DEF Max

\* What parse makes of a document it accepts: each key it lists expires with the
\* latest epoch listed for it, and that epoch has begun (issuer-key-cache.js
\* 25-41).
LEMMA ParsedKeys ==
    ASSUME TypeOK, NEW doc \in Documents, Valid(doc)
    PROVE  /\ Parsed(doc) \in [KeyIds -> Nat]
           /\ \A k \in KeyIds : Parsed(doc)[k] > 0 =>
                 \E e \in Epochs : Signs(k, e, Parsed(doc)[k])
<1>1. doc.epoch \in Epochs /\ doc.lists \subseteq Epochs /\ doc.epoch \in Nat
  BY EpochsAreNat DEF Documents
<1>2. doc.lists \subseteq {doc.epoch, doc.epoch - 1} /\ doc.epoch = Epoch(now)
  BY DEF Valid
<1>3. now \in Nat
  BY DEF TypeOK
<1>4. \A e \in doc.lists : e * EpochLen <= now
  <2> SUFFICES ASSUME NEW e \in doc.lists PROVE e * EpochLen <= now
    OBVIOUS
  <2>1. e \in Nat /\ e <= doc.epoch
    BY <1>1, <1>2, EpochsAreNat
  <2>2. e * EpochLen <= doc.epoch * EpochLen
    BY <2>1, <1>1
  <2> QED
    BY <2>1, <2>2, <1>1, <1>2, <1>3, EpochOf
<1>5. ASSUME NEW k \in KeyIds
      PROVE  \/ Parsed(doc)[k] = 0
             \/ \E e \in Epochs : Signs(k, e, Parsed(doc)[k])
  <2> DEFINE E == {e \in doc.lists : keyOf[e] = k}
             X == {ExpiresAt(e) : e \in E}
  <2>1. Parsed(doc)[k] = IF E = {} THEN 0 ELSE Max(X)
    BY DEF Parsed
  <2>2. CASE E # {}
    <3>1. X \subseteq {ExpiresAt(e) : e \in {doc.epoch, doc.epoch - 1}}
      BY <1>2
    <3>2. \A e \in E : ExpiresAt(e) \in Nat
      BY <1>1, EpochsAreNat
    <3>3. PICK a \in E : TRUE
      BY <2>2
    <3>4. \E b \in E : X \subseteq {ExpiresAt(a), ExpiresAt(b)}
      <4>1. CASE \A e \in E : e = a
        BY <4>1, <3>3
      <4>2. CASE \E e \in E : e # a
        <5>1. PICK b \in E : b # a
          BY <4>2
        <5>2. E \subseteq {a, b}
          BY <5>1, <1>2
        <5> QED
          BY <5>2
      <4> QED
        BY <4>1, <4>2
    <3>5. X # {}
      BY <2>2
    <3>6. Max(X) \in X
      BY <3>2, <3>4, <3>5, MaxOfTwo
    <3>7. PICK e \in E : Max(X) = ExpiresAt(e)
      BY <3>6
    <3> QED
      BY <2>1, <2>2, <3>7, <1>1, <1>4 DEF Signs
  <2> QED
    BY <2>1, <2>2
<1>6. \A k \in KeyIds : Parsed(doc)[k] \in Nat
  BY <1>5, EpochsAreNat DEF Signs
<1>7. Parsed(doc) = [k \in KeyIds |-> Parsed(doc)[k]]
  BY DEF Parsed
<1> QED
  BY <1>5, <1>6, <1>7

-----------------------------------------------------------------------------
(* The cache.                                                              *)

\* get finds a key only in an entry that has not expired (issuer-key-cache.js
\* 56-60).
LEMMA LookupFinds ==
    ASSUME NEW k, NEW ks
    PROVE  /\ Lookup(k, ks) \in Answers
           /\ Lookup(k, ks) = "key" => now < ks[k]
           /\ Lookup(k, ks) \notin {"idle", "awaiting"}
  BY DEF Lookup, Answers

\* A live entry stands for an epoch the issuer signs in.
LEMMA LiveIsSigned ==
    ASSUME TypeOK, KeysInv, NEW k \in KeyIds, now < keys[k]
    PROVE  \E e \in Epochs : Signs(k, e, keys[k])
<1>1. now \in Nat /\ keys[k] \in Nat
  BY DEF TypeOK
<1>2. keys[k] > 0
  BY <1>1
<1> QED
  BY <1>2 DEF KeysInv

\* The steps that neither start nor end a fetch and do not move the clock.
LEMMA GetKeeps ==
    ASSUME CacheInv, NEW c \in Calls, GetCached(c) \/ GetJoins(c)
    PROVE  CacheInv'
<1> USE DEF CacheInv
<1>1. UNCHANGED <<now, keyOf, url, keyId, keys, refreshedAt, nextAttempt, pending,
                  fetching, lastStart>> /\ began' = [began EXCEPT ![c] = now]
  BY DEF GetCached, GetJoins, environment, cached, refreshing
<1>2. CASE GetCached(c)
  <2>1. pc' = [pc EXCEPT ![c] = Lookup(keyId[c], keys)]
    BY <1>2 DEF GetCached
  <2>2. TypeOK'
    BY <1>1, <2>1, LookupFinds DEF TypeOK, Answers
  <2>3. RefreshInv'
    BY <1>1, <2>1, LookupFinds DEF RefreshInv, TypeOK
  <2>4. keyId[c] \in KeyIds
    BY DEF TypeOK
  <2>5. pc'[c] = "key" => \E e \in Epochs : keyOf[e] = keyId[c]
    BY <2>1, <2>4, LookupFinds, LiveIsSigned DEF TypeOK, Signs
  <2>6. KeysInv'
    <3>1. \A k \in KeyIds : keys[k] > 0 => \E e \in Epochs : Signs(k, e, keys[k])
      BY DEF KeysInv
    <3>2. \A d \in Calls : pc'[d] = "key" => \E e \in Epochs : keyOf[e] = keyId[d]
      BY <2>1, <2>5 DEF TypeOK, KeysInv
    <3> QED
      BY <1>1, <3>1, <3>2 DEF KeysInv, Signs, ExpiresAt
  <2> QED
    BY <2>2, <2>3, <2>6
<1>3. CASE GetJoins(c)
  <2>1. pc' = [pc EXCEPT ![c] = "awaiting"] /\ pending
    BY <1>3 DEF GetJoins
  <2>2. TypeOK'
    BY <1>1, <2>1 DEF TypeOK
  <2>3. RefreshInv'
    BY <1>1, <2>1 DEF RefreshInv, TypeOK
  <2>4. KeysInv'
    BY <1>1, <2>1 DEF KeysInv, Signs, ExpiresAt, TypeOK
  <2> QED
    BY <2>2, <2>3, <2>4
<1> QED
  BY <1>2, <1>3

\* A refresh starts when none is under way (44-52).
LEMMA StartKeeps ==
    ASSUME CacheInv, NEW c \in Calls, GetStarts(c)
    PROVE  CacheInv'
<1> USE DEF CacheInv
<1>1. /\ UNCHANGED <<now, keyOf, url, keyId, keys, refreshedAt>>
      /\ began' = [began EXCEPT ![c] = now] /\ pc' = [pc EXCEPT ![c] = "awaiting"]
      /\ nextAttempt' = now + Backoff /\ lastStart' = now
      /\ ~pending /\ pending' = TRUE /\ fetching' = fetching + 1
  BY DEF GetStarts, MayStart, RetryTime, environment, cached
<1>2. TypeOK'
  BY <1>1 DEF TypeOK
<1>3. RefreshInv'
  BY <1>1 DEF RefreshInv, TypeOK
<1>4. KeysInv'
  BY <1>1 DEF KeysInv, Signs, ExpiresAt, TypeOK
<1> QED
  BY <1>2, <1>3, <1>4

\* The end of a fetch, with the keys ks it leaves behind (48-52).
LEMMA ResumeKeeps ==
    ASSUME CacheInv, NEW ks \in [KeyIds -> Nat], fetching > 0, Resume(ks), keys' = ks,
           refreshedAt' \in Nat,
           \A k \in KeyIds : ks[k] > 0 => \E e \in Epochs : Signs(k, e, ks[k])
    PROVE  CacheInv'
<1> USE DEF CacheInv
<1>1. /\ UNCHANGED <<now, keyOf, url, keyId, nextAttempt, lastStart, began>>
      /\ pending' = FALSE /\ fetching' = fetching - 1
      /\ pc' = [c \in Calls |-> IF pc[c] = "awaiting" THEN Lookup(keyId[c], ks) ELSE pc[c]]
  BY DEF Resume, environment
<1>2. \A c \in Calls : pc'[c] # "awaiting" /\ pc'[c] \in {"idle", "awaiting"} \cup Answers
  BY <1>1, LookupFinds DEF TypeOK
<1>3. TypeOK'
  <2>1. fetching = 1
    BY DEF TypeOK
  <2>2. pc' \in [Calls -> {"idle", "awaiting"} \cup Answers]
    BY <1>1, <1>2
  <2>3. pending' \in BOOLEAN /\ fetching' = (IF pending' THEN 1 ELSE 0)
    <3>1. pending' = FALSE /\ fetching' = 0
      BY <1>1, <2>1
    <3> QED
      BY <3>1
  <2>4. /\ now' \in Nat /\ keyOf' \in KeyMaps /\ url' \in BOOLEAN /\ nextAttempt' \in Nat
        /\ lastStart' \in Int /\ keyId' \in [Calls -> KeyIds] /\ began' \in [Calls -> Nat]
    BY <1>1 DEF TypeOK
  <2> QED
    BY <2>2, <2>3, <2>4 DEF TypeOK, Answers, CacheInv
<1>4. RefreshInv'
  BY <1>1, <1>2 DEF RefreshInv
<1>5. ASSUME NEW c \in Calls, pc'[c] = "key"
      PROVE  \E e \in Epochs : keyOf[e] = keyId[c]
  <2>1. CASE pc[c] = "awaiting"
    <3>1. keyId[c] \in KeyIds /\ now \in Nat /\ ks[keyId[c]] \in Nat
      BY DEF TypeOK
    <3>2. now < ks[keyId[c]]
      BY <1>1, <1>5, <2>1, LookupFinds
    <3>3. ks[keyId[c]] > 0
      BY <3>1, <3>2
    <3> QED
      BY <3>1, <3>3 DEF Signs
  <2>2. CASE pc[c] # "awaiting"
    BY <1>1, <1>5, <2>2 DEF KeysInv
  <2> QED
    BY <2>1, <2>2
<1>6. KeysInv'
  BY <1>1, <1>5 DEF KeysInv, Signs, ExpiresAt
<1> QED
  BY <1>3, <1>4, <1>6

\* Every step of the cache keeps its invariant.
LEMMA CacheKeeps ==
    ASSUME CacheInv,
           \/ \E c \in Calls : GetCached(c) \/ GetStarts(c) \/ GetJoins(c)
           \/ FetchFails \/ (\E doc \in Documents : FetchSucceeds(doc)) \/ Tick
    PROVE  CacheInv'
<1>1. CASE \E c \in Calls : GetCached(c) \/ GetStarts(c) \/ GetJoins(c)
  BY <1>1, GetKeeps, StartKeeps
<1>2. CASE FetchFails
  <2>1. keys' = keys /\ refreshedAt' = refreshedAt /\ fetching > 0 /\ Resume(keys)
    BY <1>2 DEF FetchFails, cached
  <2>2. keys \in [KeyIds -> Nat] /\ refreshedAt \in Nat
    BY DEF CacheInv, TypeOK
  <2>3. \A k \in KeyIds : keys[k] > 0 => \E e \in Epochs : Signs(k, e, keys[k])
    BY DEF CacheInv, KeysInv
  <2>4. \A ks \in [KeyIds -> Nat] :
            /\ fetching > 0 /\ Resume(ks) /\ keys' = ks /\ refreshedAt' \in Nat
            /\ \A k \in KeyIds : ks[k] > 0 => \E e \in Epochs : Signs(k, e, ks[k])
            => CacheInv'
    BY ResumeKeeps
  <2> QED
    BY <2>1, <2>2, <2>3, <2>4
<1>3. ASSUME NEW doc \in Documents, FetchSucceeds(doc) PROVE CacheInv'
  <2>1. /\ keys' = Parsed(doc) /\ refreshedAt' = now /\ fetching > 0
        /\ Resume(Parsed(doc)) /\ Valid(doc)
    BY <1>3 DEF FetchSucceeds
  <2>2. now \in Nat /\ TypeOK
    BY DEF CacheInv, TypeOK
  <2>3. \A ks \in [KeyIds -> Nat] :
            /\ fetching > 0 /\ Resume(ks) /\ keys' = ks /\ refreshedAt' \in Nat
            /\ \A k \in KeyIds : ks[k] > 0 => \E e \in Epochs : Signs(k, e, ks[k])
            => CacheInv'
    BY ResumeKeeps
  <2> QED
    BY <2>1, <2>2, <2>3, ParsedKeys
<1>4. CASE Tick
  <2> USE DEF CacheInv
  <2>1. /\ UNCHANGED <<keyOf, url, keyId, keys, refreshedAt, nextAttempt, pending, fetching,
                       lastStart, pc, began>>
        /\ now' = now + 1 /\ (fetching > 0 => now < lastStart + FetchTimeout)
    BY <1>4 DEF Tick, environment, cached, refreshing
  <2>2. now \in Nat /\ (pending => fetching = 1) /\ lastStart \in Int
    BY DEF TypeOK
  <2>3. TypeOK'
    BY <2>1 DEF TypeOK
  <2>4. RefreshInv'
    BY <2>1, <2>2 DEF RefreshInv
  <2>5. \A e \in Epochs : e * EpochLen <= now => e * EpochLen <= now'
    <3>1. \A e \in Nat : e * EpochLen \in Nat
      OBVIOUS
    <3> QED
      BY <2>1, <2>2, <3>1, EpochsAreNat
  <2>6. KeysInv'
    BY <2>1, <2>5 DEF KeysInv, Signs, ExpiresAt
  <2> QED
    BY <2>3, <2>4, <2>6
<1> QED
  BY <1>1, <1>2, <1>3, <1>4

-----------------------------------------------------------------------------
(* Decisions.                                                              *)

\* The invariant of the cache is part of the whole.
LEMMA InvSplit == Inv <=> CacheInv /\ AuthTypeOK /\ DecisionInv
  BY DEF Inv, CacheInv, AuthTypeOK

\* At the start no key is cached, no fetch is under way and nothing is decided.
LEMMA InitInv == AuthInit => Inv
<1> SUFFICES ASSUME AuthInit PROVE Inv
  OBVIOUS
<1>1. TypeOK
  <2>1. EpochLen \in Nat /\ -Backoff \in Int
    OBVIOUS
  <2> QED
    BY <2>1 DEF AuthInit, Init, TypeOK
<1>2. RefreshInv
  BY DEF AuthInit, Init, RefreshInv
<1>3. KeysInv
  BY DEF AuthInit, Init, KeysInv
<1>4. /\ owner = [s \in Signatures \cup {Empty} |-> NoCall]
      /\ verdict = [c \in Calls |-> "none"]
      /\ mode \in Modes /\ header \in [Calls -> Headers]
      /\ keyId = [c \in Calls |-> header[c].keyId] /\ pc = [c \in Calls |-> "idle"]
  BY DEF AuthInit, Init, Redemption!Init
<1>5. AuthTypeOK
  BY <1>1, <1>4 DEF AuthTypeOK
<1>6. DecisionInv
  BY <1>4 DEF DecisionInv
<1> QED
  BY <1>2, <1>3, <1>5, <1>6 DEF Inv

\* What a decision that spends nothing must not break: an admission needs a
\* reason (217-237).
LEMMA DecideKeeps ==
    ASSUME Inv, NEW c \in Calls, NEW v \in {"admitted", "unauthorized", "spent", "unavailable"},
           UNCHANGED <<vars, request, owner>>,
           verdict' = [verdict EXCEPT ![c] = v],
           v = "admitted" => \/ PassesWithoutToken(c)
                             \/ mode = "token" /\ owner[header[c].bytes] = c
    PROVE  Inv'
<1>1. UNCHANGED <<now, keyOf, url, keyId, keys, refreshedAt, nextAttempt, pending, fetching,
                  lastStart, pc, began, mode, header, owner>>
  BY DEF vars, environment, cached, refreshing, request
<1>2. CacheInv'
  BY <1>1 DEF Inv, AuthTypeOK, CacheInv, TypeOK, RefreshInv, KeysInv, Signs, ExpiresAt
<1>3. AuthTypeOK'
  <2>1. TypeOK'
    BY <1>2 DEF CacheInv
  <2>2. verdict' \in [Calls -> {"none", "admitted", "unauthorized", "spent", "unavailable"}]
    BY DEF Inv, AuthTypeOK
  <2> QED
    BY <1>1, <2>1, <2>2 DEF Inv, AuthTypeOK
<1>4. \A d \in Calls : verdict'[d] = IF d = c THEN v ELSE verdict[d]
  BY DEF Inv, AuthTypeOK
<1>5. DecisionInv'
  <2>1. \A d \in Calls :
          /\ keyId'[d] = header'[d].keyId
          /\ pc'[d] # "idle" => mode' = "token" /\ header'[d].kind = "token"
    BY <1>1 DEF Inv, DecisionInv
  <2>2. \A d \in Calls : verdict'[d] = "admitted" =>
              \/ PassesWithoutToken(d)
              \/ mode = "token" /\ owner[header[d].bytes] = d
    BY <1>4 DEF Inv, DecisionInv
  <2>3. \A d \in Calls : PassesWithoutToken(d)' <=> PassesWithoutToken(d)
    BY <1>1 DEF PassesWithoutToken
  <2>4. \A s \in Signatures \cup {Empty}, d \in Calls :
          owner'[s] = d => Genuine(header[d])'
    BY <1>1 DEF Inv, DecisionInv, Genuine
  <2> QED
    BY <1>1, <2>1, <2>2, <2>3, <2>4 DEF DecisionInv
<1> QED
  BY <1>2, <1>3, <1>5, InvSplit DEF Inv, CacheInv

\* A signature that verifies is genuine (283-288).
LEMMA OkIsGenuine ==
    ASSUME Inv, NEW c \in Calls, SignatureOk(c)
    PROVE  Genuine(header[c]) /\ mode = "token"
<1>1. pc[c] = "key" /\ keyId[c] = header[c].keyId
  BY DEF SignatureOk, Inv, DecisionInv
<1>2. \E e \in Epochs : keyOf[e] = keyId[c]
  BY <1>1 DEF Inv, KeysInv
<1>3. header[c].kind = "token" /\ mode = "token"
  BY <1>1 DEF Inv, DecisionInv
<1> QED
  BY <1>1, <1>2, <1>3 DEF SignatureOk, Genuine

\* A call of get is made for a token.
Seeks(c) ==
    /\ mode = "token" /\ header[c].kind = "token"
    /\ GetCached(c) \/ GetStarts(c) \/ GetJoins(c)

\* A step of the cache decides nothing; a key is sought for a token only.
LEMMA CacheStepKeeps ==
    ASSUME Inv, UNCHANGED <<request, decision>>,
           \/ \E c \in Calls : Seeks(c)
           \/ FetchFails \/ (\E doc \in Documents : FetchSucceeds(doc)) \/ Tick
    PROVE  Inv'
<1>1. CacheInv'
  BY CacheKeeps, InvSplit DEF Seeks
<1>2. UNCHANGED <<mode, header, owner, verdict>>
  BY DEF request, decision
<1>3. UNCHANGED <<keyOf, keyId>>
  BY DEF Seeks, GetCached, GetStarts, GetJoins, FetchFails, FetchSucceeds, Resume, Tick,
         environment
<1>4. AuthTypeOK'
  BY <1>1, <1>2 DEF Inv, AuthTypeOK, CacheInv
<1>5. ASSUME NEW d \in Calls, pc[d] = "idle", pc'[d] # "idle"
      PROVE  mode = "token" /\ header[d].kind = "token"
  <2>1. CASE \E c \in Calls : Seeks(c)
    <3>1. PICK c \in Calls : Seeks(c)
      BY <2>1
    <3>2. d # c => pc'[d] = pc[d]
      BY <3>1 DEF Seeks, GetCached, GetStarts, GetJoins, Inv, AuthTypeOK, TypeOK
    <3> QED
      BY <3>1, <3>2, <1>5 DEF Seeks
  <2>2. CASE FetchFails \/ (\E doc \in Documents : FetchSucceeds(doc)) \/ Tick
    BY <2>2, <1>5 DEF FetchFails, FetchSucceeds, Resume, Tick
  <2> QED
    BY <2>1, <2>2
<1>6. DecisionInv'
  BY <1>2, <1>3, <1>5 DEF Inv, DecisionInv, Genuine, PassesWithoutToken
<1> QED
  BY <1>1, <1>4, <1>6, InvSplit DEF Inv, CacheInv

\* The store takes a nullifier for a genuine token only (291-293).
LEMMA TakeKeeps ==
    ASSUME Inv, NEW c \in Calls, RedeemTakes(c)
    PROVE  Inv'
<1>1. UNCHANGED <<now, keyOf, url, keyId, keys, refreshedAt, nextAttempt, pending, fetching,
                  lastStart, pc, began, mode, header>>
  BY DEF RedeemTakes, vars, environment, cached, refreshing, request
<1>2. header[c] \in Headers /\ header[c].bytes \in Signatures \cup {Empty}
  BY DEF Inv, AuthTypeOK
<1>3. /\ owner[header[c].bytes] = NoCall
      /\ owner' = [owner EXCEPT ![header[c].bytes] = c]
      /\ verdict' = verdict
  BY DEF RedeemTakes, Redemption!Take, NullifierFor
<1>4. Genuine(header[c])
  BY OkIsGenuine DEF RedeemTakes
<1>5. CacheInv'
  BY <1>1 DEF Inv, AuthTypeOK, CacheInv, TypeOK, RefreshInv, KeysInv, Signs, ExpiresAt
<1>6. AuthTypeOK'
  <2>1. TypeOK'
    BY <1>5 DEF CacheInv
  <2>2. owner' \in [Signatures \cup {Empty} -> Calls \cup {NoCall}]
    BY <1>3 DEF Inv, AuthTypeOK
  <2> QED
    BY <1>1, <1>3, <2>1, <2>2 DEF Inv, AuthTypeOK
<1>7. \A s \in Signatures \cup {Empty} :
          owner'[s] = IF s = header[c].bytes THEN c ELSE owner[s]
  BY <1>2, <1>3 DEF Inv, AuthTypeOK
<1>8. \A d \in Calls : header[d].bytes \in Signatures \cup {Empty}
  BY DEF Inv, AuthTypeOK
<1>9. DecisionInv'
  <2>1. \A d \in Calls :
          /\ keyId'[d] = header'[d].keyId
          /\ pc'[d] # "idle" => mode' = "token" /\ header'[d].kind = "token"
    BY <1>1 DEF Inv, DecisionInv
  <2>2. ASSUME NEW d \in Calls, verdict'[d] = "admitted"
        PROVE  PassesWithoutToken(d)' \/ (mode' = "token" /\ owner'[header'[d].bytes] = d)
    <3>1. PassesWithoutToken(d) \/ (mode = "token" /\ owner[header[d].bytes] = d)
      BY <1>3, <2>2 DEF Inv, DecisionInv
    <3>2. owner[header[d].bytes] = d => owner'[header[d].bytes] = d
      BY <1>3, <1>7, <1>8
    <3> QED
      BY <1>1, <3>1, <3>2 DEF PassesWithoutToken
  <2>3. \A s \in Signatures \cup {Empty}, d \in Calls :
          owner'[s] = d => Genuine(header[d])
    BY <1>4, <1>7 DEF Inv, DecisionInv
  <2>4. \A d \in Calls : Genuine(header[d])' <=> Genuine(header[d])
    BY <1>1 DEF Genuine
  <2> QED
    BY <2>1, <2>2, <2>3, <2>4 DEF DecisionInv
<1> QED
  BY <1>5, <1>6, <1>9, InvSplit DEF Inv, CacheInv

\* The answer of the store admits the owner of the nullifier only (293-296).
LEMMA AnswerKeeps ==
    ASSUME Inv, NEW c \in Calls, RedeemAnswers(c)
    PROVE  Inv'
<1>1. SignatureOk(c) /\ UNCHANGED <<vars, request>>
  BY DEF RedeemAnswers
<1>2. mode = "token"
  BY <1>1, OkIsGenuine
<1>3. CASE Redemption!Admit(c)
  <2>1. /\ UNCHANGED owner /\ verdict' = [verdict EXCEPT ![c] = "admitted"]
        /\ owner[header[c].bytes] = c
    BY <1>3 DEF Redemption!Admit, NullifierFor
  <2> QED
    BY <1>1, <1>2, <2>1, DecideKeeps
<1>4. CASE Redemption!Refuse(c)
  <2>1. UNCHANGED owner /\ verdict' = [verdict EXCEPT ![c] = "spent"]
    BY <1>4 DEF Redemption!Refuse
  <2> QED
    BY <1>1, <2>1, DecideKeeps
<1>5. CASE Redemption!GiveUp({c})
  <2>1. UNCHANGED owner /\ verdict' = [verdict EXCEPT ![c] = "unavailable"]
    BY <1>5 DEF Redemption!GiveUp, Inv, AuthTypeOK
  <2> QED
    BY <1>1, <2>1, DecideKeeps
<1> QED
  BY <1>3, <1>4, <1>5 DEF RedeemAnswers

\* Every step of a request and of the cache preserves the invariant.
LEMMA NextInv == Inv /\ [AuthNext]_authVars => Inv'
<1> SUFFICES ASSUME Inv, [AuthNext]_authVars PROVE Inv'
  OBVIOUS
<1>1. ASSUME NEW c \in Calls, AuthorizeWithoutToken(c) PROVE Inv'
  <2>1. /\ UNCHANGED <<vars, request, owner>>
        /\ \/ PassesWithoutToken(c) /\ verdict' = [verdict EXCEPT ![c] = "admitted"]
           \/ verdict' = [verdict EXCEPT ![c] = "unauthorized"]
    BY <1>1 DEF AuthorizeWithoutToken, Decide
  <2> QED
    BY <2>1, DecideKeeps
<1>2. ASSUME NEW c \in Calls, RefuseMalformed(c) \/ RefuseToken(c) PROVE Inv'
  BY <1>2, DecideKeeps DEF RefuseMalformed, RefuseToken, Decide
<1>3. ASSUME NEW c \in Calls, KeysUnavailable(c) PROVE Inv'
  BY <1>3, DecideKeeps DEF KeysUnavailable, Decide
<1>4. ASSUME NEW c \in Calls, LookUp(c) PROVE Inv'
  BY <1>4, CacheStepKeeps DEF LookUp, Seeks
<1>5. CASE CacheStep
  BY <1>5, CacheStepKeeps DEF CacheStep
<1>6. CASE UNCHANGED authVars
  <2>1. UNCHANGED <<now, keyOf, url, keyId, keys, refreshedAt, nextAttempt, pending,
                    fetching, lastStart, pc, began, mode, header, owner, verdict>>
    BY <1>6 DEF authVars, vars, environment, cached, refreshing, request, decision
  <2>2. CacheInv'
    BY <2>1 DEF Inv, AuthTypeOK, CacheInv, TypeOK, RefreshInv, KeysInv, Signs, ExpiresAt
  <2>3. AuthTypeOK'
    BY <2>1, <2>2 DEF Inv, AuthTypeOK, CacheInv
  <2>4. DecisionInv'
    BY <2>1 DEF Inv, DecisionInv, Genuine, PassesWithoutToken
  <2> QED
    BY <2>2, <2>3, <2>4, InvSplit DEF Inv, CacheInv
<1> QED
  BY <1>1, <1>2, <1>3, <1>4, <1>5, <1>6, TakeKeeps, AnswerKeeps DEF AuthNext, Conclude

\* The invariant holds in every reachable state.
LEMMA InvHolds == AuthSpec => []Inv
<1> QED
  BY InitInv, NextInv, PTL DEF AuthSpec

-----------------------------------------------------------------------------
(* What a step may do.                                                     *)

\* A step of the whole moves the cache as the cache may, or not at all.
LEMMA StepsOfCache ==
    ASSUME [AuthNext]_authVars
    PROVE  \/ \E c \in Calls : GetCached(c) \/ GetStarts(c) \/ GetJoins(c)
           \/ FetchFails \/ (\E doc \in Documents : FetchSucceeds(doc)) \/ Tick
           \/ UNCHANGED vars
<1>1. ASSUME NEW c \in Calls, LookUp(c)
      PROVE  GetCached(c) \/ GetStarts(c) \/ GetJoins(c)
  BY <1>1 DEF LookUp
<1>2. CASE CacheStep
  BY <1>2 DEF CacheStep
<1>3. ASSUME NEW c \in Calls, \/ AuthorizeWithoutToken(c) \/ RefuseMalformed(c)
                              \/ RedeemTakes(c) \/ Conclude(c)
      PROVE  UNCHANGED vars
  BY <1>3 DEF AuthorizeWithoutToken, RefuseMalformed, RedeemTakes, Conclude, RefuseToken,
              KeysUnavailable, RedeemAnswers
<1>4. CASE UNCHANGED authVars
  BY <1>4 DEF authVars
<1> QED
  BY <1>1, <1>2, <1>3, <1>4 DEF AuthNext

\* What a call was told, and when: out of the cache, or at the end of a fetch
\* that it awaited and whose keys ks are those the cache has then.
LEMMA ToldHow ==
    ASSUME Inv, [AuthNext]_authVars, NEW c \in Calls, Told(c)
    PROVE  \/ /\ GetCached(c) /\ pc'[c] = Lookup(keyId[c], keys)
              /\ UNCHANGED <<now, keys, refreshedAt, keyOf, keyId, lastStart>> /\ began'[c] = now
           \/ /\ pc[c] = "awaiting" /\ pc'[c] = Lookup(keyId[c], keys')
              /\ UNCHANGED <<now, keyOf, keyId, began>>
<1> USE DEF Told, Inv, AuthTypeOK, TypeOK
<1>1. ASSUME NEW d \in Calls, GetCached(d) \/ GetStarts(d) \/ GetJoins(d)
      PROVE  c = d /\ GetCached(d)
  <2>1. pc'[c] # pc[c] /\ pc'[c] # "awaiting"
    BY DEF Answers
  <2> QED
    BY <1>1, <2>1 DEF GetCached, GetStarts, GetJoins
<1>2. CASE GetCached(c)
  <2>1. pc'[c] = Lookup(keyId[c], keys)
    BY <1>2 DEF GetCached
  <2> QED
    BY <1>2, <2>1 DEF GetCached, environment, cached, refreshing
<1>3. ASSUME NEW ks, Resume(ks), keys' = ks
      PROVE  /\ pc[c] = "awaiting" /\ pc'[c] = Lookup(keyId[c], keys')
             /\ UNCHANGED <<now, keyOf, keyId, began>>
  <2>1. pc'[c] = IF pc[c] = "awaiting" THEN Lookup(keyId[c], ks) ELSE pc[c]
    BY <1>3 DEF Resume
  <2> QED
    BY <1>3, <2>1 DEF Resume, environment
<1>4. CASE FetchFails \/ \E doc \in Documents : FetchSucceeds(doc)
  BY <1>3, <1>4 DEF FetchFails, FetchSucceeds, cached
<1>5. ~(Tick \/ UNCHANGED vars)
  BY DEF Tick, vars
<1> QED
  BY <1>1, <1>2, <1>4, <1>5, StepsOfCache

\* A key is given out only in an epoch it signs in, or in the next.
LEMMA ToldInWindow ==
    ASSUME Inv, Inv', [AuthNext]_authVars, NEW c \in Calls, Told(c), pc'[c] = "key"
    PROVE  \E e \in Epochs : keyOf[e] = keyId[c] /\ Epoch(now) \in {e, e + 1}
<1> USE DEF Inv, AuthTypeOK, TypeOK
<1>1. UNCHANGED <<now, keyOf, keyId>> /\ now < keys'[keyId[c]]
  BY ToldHow, LookupFinds
<1>2. keyId[c] \in KeyIds /\ now \in Nat /\ keys'[keyId[c]] \in Nat
  OBVIOUS
<1>3. keys'[keyId[c]] > 0
  BY <1>1, <1>2
<1>4. \A k \in KeyIds : keys'[k] > 0 => \E e \in Epochs : Signs(k, e, keys[k])'
  BY DEF KeysInv
<1>5. PICK e \in Epochs : Signs(keyId[c], e, keys'[keyId[c]])
  BY <1>1, <1>2, <1>3, <1>4 DEF Signs, ExpiresAt
<1>6. e \in Nat /\ e * EpochLen <= now /\ now < (e + 2) * EpochLen /\ keyOf[e] = keyId[c]
  BY <1>1, <1>5, EpochsAreNat DEF Signs, ExpiresAt
<1> QED
  BY <1>2, <1>6, WindowIsTwoEpochs

\* No answer is given in ignorance of what the issuer might have said.
LEMMA ToldInformed ==
    ASSUME Inv, [AuthNext]_authVars, NEW c \in Calls, Told(c)
    PROVE  \/ pc'[c] = "key" /\ now - refreshedAt' < TTL
           \/ began'[c] <= lastStart + FetchTimeout
           \/ began'[c] < lastStart + Backoff
           \/ ~url
<1> USE DEF Inv, AuthTypeOK, TypeOK
<1>1. CASE pc[c] = "awaiting" /\ UNCHANGED began
  BY <1>1 DEF RefreshInv
<1>2. CASE /\ GetCached(c) /\ pc'[c] = Lookup(keyId[c], keys)
           /\ UNCHANGED <<refreshedAt>> /\ began'[c] = now
  <2>1. CASE NeedsRefresh(keyId[c])
    <3>1. ~url \/ ~(now >= nextAttempt)
      BY <1>2, <2>1 DEF GetCached, MayStart
    <3> QED
      BY <1>2, <3>1 DEF RefreshInv
  <2>2. CASE ~NeedsRefresh(keyId[c])
    <3>1. now < keys[keyId[c]] /\ now - refreshedAt < TTL
      BY <2>2 DEF NeedsRefresh
    <3> QED
      BY <1>2, <3>1 DEF Lookup
  <2> QED
    BY <2>1, <2>2
<1> QED
  BY <1>1, <1>2, ToldHow

\* A refresh starts no sooner than backoffMs after the last one (46-47).
LEMMA StartsApart ==
    ASSUME Inv, [AuthNext]_authVars, fetching' > fetching
    PROVE  now >= lastStart + Backoff
<1> USE DEF Inv, AuthTypeOK, TypeOK
<1>1. CASE \E c \in Calls : GetStarts(c)
  BY <1>1 DEF GetStarts, MayStart, RefreshInv
<1>2. CASE \E c \in Calls : GetCached(c) \/ GetJoins(c)
  <2>1. fetching' = fetching
    BY <1>2 DEF GetCached, GetJoins, refreshing
  <2> QED
    BY <2>1
<1>3. CASE FetchFails \/ (\E doc \in Documents : FetchSucceeds(doc))
  <2>1. fetching' = fetching - 1
    BY <1>3 DEF FetchFails, FetchSucceeds, Resume
  <2> QED
    BY <2>1
<1>4. CASE Tick \/ UNCHANGED vars
  <2>1. fetching' = fetching
    BY <1>4 DEF Tick, vars, refreshing
  <2> QED
    BY <2>1
<1> QED
  BY <1>1, <1>2, <1>3, <1>4, StepsOfCache

\* Only an accepted document replaces keys (48-49).
LEMMA KeysReplaced ==
    ASSUME Inv, [AuthNext]_authVars
    PROVE  keys' = keys \/ refreshedAt' = now
<1>1. CASE \E c \in Calls : GetCached(c) \/ GetStarts(c) \/ GetJoins(c)
  BY <1>1 DEF GetCached, GetStarts, GetJoins, cached
<1>2. CASE FetchFails \/ (\E doc \in Documents : FetchSucceeds(doc)) \/ Tick \/ UNCHANGED vars
  BY <1>2 DEF FetchFails, FetchSucceeds, Tick, vars, cached
<1> QED
  BY <1>1, <1>2, StepsOfCache

-----------------------------------------------------------------------------
(* The theorems.                                                           *)

\* Type correctness: one fetch at a time, and one exactly while the shared
\* promise is set (issuer-key-cache.js 44-52).
THEOREM TypeCorrect == AuthSpec => []AuthTypeOK
<1>1. Inv => AuthTypeOK
  BY DEF Inv
<1> QED
  BY <1>1, InvHolds, PTL

\* Nobody passes the relay but bearers of a genuine, unspent token whose key was
\* accepted in the epoch it was looked up in, or of the secret (server.js
\* 217-296 with issuer-key-cache.js 31-60).
THEOREM AdmissionTheorem == AuthSpec => AdmissionIsEarned
<1>1. Inv => OnlyBearersSpend
  BY DEF Inv, DecisionInv, OnlyBearersSpend
<1>2. ASSUME Inv PROVE AdmittedOnce
  <2> SUFFICES ASSUME NEW c \in Calls, verdict[c] = "admitted", ~PassesWithoutToken(c)
               PROVE  /\ mode = "token" /\ Genuine(header[c])
                      /\ \A d \in Calls \ {c} :
                            verdict[d] = "admitted" => header[d].bytes # header[c].bytes
    BY DEF AdmittedOnce
  <2>1. header[c].bytes \in Signatures \cup {Empty}
    BY <1>2 DEF Inv, AuthTypeOK
  <2>2. mode = "token" /\ owner[header[c].bytes] = c
    BY <1>2 DEF Inv, DecisionInv
  <2>3. Genuine(header[c])
    BY <1>2, <2>1, <2>2 DEF Inv, DecisionInv
  <2>4. \A d \in Calls : verdict[d] = "admitted" => owner[header[d].bytes] = d
    BY <1>2, <2>2 DEF Inv, DecisionInv, PassesWithoutToken
  <2> QED
    BY <2>2, <2>3, <2>4
<1>3. Inv => OnlyBearersSpend /\ AdmittedOnce
  BY <1>1, <1>2
<1>4. Inv /\ Inv' /\ [AuthNext]_authVars =>
        [\A c \in Calls : Told(c) /\ pc'[c] = "key" =>
            \E e \in Epochs : keyOf[e] = keyId[c] /\ Epoch(now) \in {e, e + 1}]_vars
  BY ToldInWindow
<1> QED
  BY <1>3, <1>4, InvHolds, PTL DEF AuthSpec, AdmissionIsEarned, KeyWithinWindow

\* The issuer is asked one fetch at a time, backoffMs apart, a live key is lost
\* only to a newer valid document, and no answer is given in ignorance
\* (issuer-key-cache.js 44-60).
THEOREM RefreshTheorem == AuthSpec => RefreshIsDisciplined
<1>1. Inv => AuthTypeOK
  BY DEF Inv
<1>2. Inv /\ [AuthNext]_authVars => [fetching' > fetching => now >= lastStart + Backoff]_vars
  BY StartsApart
<1>3. Inv /\ [AuthNext]_authVars =>
        [\A k \in KeyIds : now < keys[k] => keys'[k] = keys[k] \/ refreshedAt' = now]_vars
  BY KeysReplaced
<1>4. Inv /\ [AuthNext]_authVars =>
        [\A c \in Calls : Told(c) =>
            \/ pc'[c] = "key" /\ now - refreshedAt' < TTL
            \/ began'[c] <= lastStart + FetchTimeout
            \/ began'[c] < lastStart + Backoff
            \/ ~url]_vars
  BY ToldInformed
<1> QED
  BY <1>1, <1>2, <1>3, <1>4, InvHolds, PTL
  DEF AuthSpec, RefreshIsDisciplined, BackoffHolds, LiveKeysKept, AnswersAreInformed
=============================================================================
