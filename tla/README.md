# Columbia in TLA+

A TLA+ model of the four services of Columbia: the OHTTP **relay**
(`ohttp-relay/`), the OHTTP **gateway** (`ohttp-gateway/`), the **commons
cache** (`commons-cache/`) and the **token issuer** (`token-issuer/`). It covers
the parts of them that keep state, wait for one another, or decide under
failure. TLC checks every model on small instances; TLAPS proves the safety
properties of all of them for every value of their constants.

Run from this directory:

    tlc -config MCRelay.cfg MCRelay        # one run
    tlapm RedemptionStoreProofs.tla        # one proof module

`PROJECT.json` lists the runs, the source lines behind every definition, the
mutants that show each property can fail, the hazards and the theorems.

## 1. The system and its parts

A client buys anonymous tokens from the issuer (App Attest proof in, blind RSA
signatures out), and spends one per request at the relay. The relay verifies
the token against the issuer's published keys, redeems it, and forwards the
sealed body to the gateway; the gateway opens it, filters the target, and
fetches it, through the commons cache for public items.

| Part | State | Operations | What is hard |
|---|---|---|---|
| Redemption store, `redemption-store.js` | one Azure row per token, a `createTable` promise per process | `redeem` | lost acknowledgments, inserts applied after the deadline, two replicas at once, crash between insert and answer |
| Device ledger, `state-store.js` | one row per device: key, counter, counts of two epochs, latest epoch; ETag and commit ID | `reserve` (get, decide, put, read back, at most four attempts) | compare-and-swap races, ambiguous writes, replicas whose clocks straddle an epoch |
| Bootstrap of the device table, `state-store.js` | the table, the config row with the fingerprint of the salt, a `ready` promise per process | `initialize` | crash or lost answer between table and row; a replica with another salt; a rejected promise |
| App Attest, `appattest.js` | none of its own: a copy of the account, read before the reservation | `validateAppAttest`, `attestationFailureCategory` | parts of several proofs put together; one assertion in two requests; two spellings of a key ID |
| Issuer server, `server.js`, `epoch-keys.js` | the operator's manifest, imported keys, `activeWork`, drain flags | `POST /issue`, `GET /issuer-keys`, key import, shutdown | the epoch rolls over at any `await`; clients leave; SIGTERM in the middle of work |
| Relay admission, `server.js` | `inflight`, `clientInflight`, per-request `slotReleased`, `authPending`, drain flags | `POST /relay`, `releaseSlot`, shutdown | five paths release one slot, in any order; a client leaves while its token is being spent |
| Relay rate limiter, `server.js` | a bounded `Map` of fixed windows | `clientIpKey`, `rateLimited` | window boundaries; eviction by other clients; forged headers, one proxy or two |
| Relay key config, `server.js` | cached config, the shared flight and its callers | `serveConfig`, `proxyGatewayRequest` | callers join and leave a flight that answers, fails or is silent |
| Relay issuer-key cache, `issuer-key-cache.js` | keys with expiry, back-off, shared refresh | `get`, `refresh`, `parse` | documents that arrive in the next epoch, failing refreshes, unknown keys |
| Relay token verification, `server.js` | none of its own: the key cache and the redemption store | `clientAuthorized`, `verifyAccessToken` | the epoch rolls over, keys or store fail, between lookup and spend; one signature in several spellings |
| Commons cache, `server.js` | a bounded insertion-ordered `Map`, `inflight`, per-entry `revalidating` | the request handler, `getCachedFeed`, `getCachedImgur`, `cacheSet`, `fetchUpstream`, `fetchImgurJson`, `handleProbe` | revalidation of an entry that is evicted or replaced; leader failure; four kinds of items under the keys of one Map |
| Gateway outbound, `handler.go`, `ratelimit.go` | the shared token bucket | `FilteredHttpRequestHandler.Handle`, `allow`, `retryAfterSeconds` | bursts, refill after refusals, rounding; redirects go past the bucket |
| Gateway pipeline, `gateway.go`, `handler.go`, `main.go` | per request: how far it is, what it answers | `requireRelaySecret`, `gatewayHandler`, the config, encapsulation and content handlers | a failure at each stage has its own status and result; a target that stalls or breaks off |
| Gateway summary, `summary_metrics.go` | rows of counts under a mutex | `Fire`, `ResponseStatus`, `record`, `drainWindow` | the minute ends between two records of a request |
| Blind RSA, CBOR and DER decoding, HPKE, protobuf, start-up in `main.go` | none | pure functions, libraries, start-up | not modelled, section 8 |

How they interact: `verifyAccessToken` in the relay calls the key cache and then
the redemption store while it holds a slot of relay admission; `handleIssue`
calls the key provider, the attestation check, the device ledger and the signer
in that order; the key cache reads what `handleIssuerKeys` publishes. Replicas of
one service share nothing but their Azure tables.

What makes each part correct is stated at the end of its module, and summarised
in section 4.

## 2. Modules

    SpendOnce        <--implemented by--  RedemptionStore   RedemptionStoreProofs
        ^ used by  AccessTokens, which extends IssuerKeyCache
                                                            AccessTokensProofs
    DeviceAccount    (the decision of reserve, pure)
    DeviceLedger     <--implemented by--  IssuerState       IssuerStateProofs
        ^ used by  TokenIssuer                              TokenIssuerProofs
        ^ used by  AppAttest                                AppAttestProofs
    IssuerReplicas = IssuerState + StateBootstrap           IssuerStateProofs
    RelayAdmission, ConfigFlight, RateLimiter               RelayProofs
    CommonsCache                                            CommonsCacheProofs
    GatewayForwarding, GatewayPipeline                      GatewayProofs
    MC<module>       the instance TLC checks
    MCRelay          RelayAdmission, ConfigFlight and RedemptionStore
    MCLimits         RateLimiter and GatewayForwarding

Parts that are proved or checked in one module keep their names apart:
ConfigFlight has `ConfigInit`, `ConfigNext` and `ConfigSpec`, RateLimiter
`LimiterSpec`, GatewayForwarding `OutboundSpec`, RedemptionStore `StoreSpec`,
AccessTokens `AuthSpec` and IssuerReplicas `ReplicasSpec`.

The parts MCRelay and MCLimits put together have no variable in common. A
behaviour of all of them is therefore, seen by each, a behaviour of that part
alone, and the instances let one part move (`part`) while the others stay as they
began.

**SpendOnce** is what a redemption store promises, and what
`memoryRedemptionStore` does in one step: a token gets an owner once, and only
the owner is admitted. **RedemptionStore** is `azureRedemptionStore.redeem`, one
action between two awaits. A call is identified with its random claim ID. `table`
is Azure's; `wire` is what became of the insert of a call, which Azure may apply
at any later time, also after the caller gave up or its process died. Any error
of the insert leads to the read-back, as in the `catch` of the code.

**DeviceAccount** is the arithmetic of `reserve`: which refusal, which new
counts, which latest epoch, and `checked` (`Readable`). **DeviceLedger** applies
it atomically: a reservation takes effect at most once, some time between the
call and, possibly, after its answer; "ok" and refusals are truthful,
"unavailable" says nothing. **IssuerState** is the loop of `reserve` over both
backends (`backend`, fixed at start): get, decide, conditional put, and after a put that did not
answer cleanly the read-back that looks for the call's own commit ID, retries
after a definite conflict only, and otherwise gives up. `began` is the ETag of
the row when the call began and `lost` the attempts it lost since. Writes stay on the wire.
A crash ends a call and leaves its write behind.

**StateBootstrap** is `initialize`: the promise of a replica goes through the
table, the config row and, after any error, the read-back; whoever awaits it goes
on or throws with it, and a rejected promise is forgotten. A config row that was
sent and given up stays in `late` and may be created at any time. A replica may
die at any moment and come back with another salt. **IssuerReplicas** composes it
with IssuerState: a call waits at `gate` before its loop starts, a replica takes
its calls along when it dies, and `rowSalts` remembers the salts rows were written
under. `stable` ends the faults, which is when recovery can be asked for.

**AppAttest** is `validateAppAttest` between the request and the reservation. A
certificate, a nonce and a signature are records of what they bind; a request
combines existing ones in any way, which is what a forger can do under ideal
cryptography. The checks are sequences in the order of the code, and the category
of the first that fails is the one `attestationFailureCategory` names. Between
the read of the account and the reservation any other request may be charged.

**TokenIssuer** is one issuer process on top of the DeviceLedger actions:
handlers advance from `await` to `await`, the clock may move to the next epoch
in between, clients hang up, and SIGTERM starts the drain (`trackWork`,
`finishDrain`, forced exit). The operator's keys are arbitrary: a legacy key, or
a manifest of one or two, any of which may be unusable or the same key twice;
`Importable` then decides how the import ends. A request has a form, which says
where the handler refuses it.

**RelayAdmission** is the life of a slot: capacity check, pending authorization,
body, gateway request, flush; `ReleaseSlot` is called by finish, close, abort
and the 413 path, deferred while `authPending`. **RateLimiter** is
`clientIpKey` and `rateLimited` with its Map and clock, behind one proxy or two;
the part of `X-Forwarded-For` that the client wrote is arbitrary. **ConfigFlight** identifies a flight with
the caller that opened it; `Closed` is the `close` handler, `Finish` the
`finish` closure, including a flight that completes before `configFlight` is
assigned. **IssuerKeyCache** has a clock, epochs, a key assignment (a manifest
or one legacy key) and documents of the previous, current or next epoch.
**AccessTokens** extends it with `clientAuthorized` and `verifyAccessToken` in
every mode: a call of the cache is the request that makes it, and the redemption
store is the promise SpendOnce, so the relay's verdicts do not depend on how the
store keeps it. A token has a signer, an input and signature bytes that several
texts may stand for. **CommonsCache** has the request handler and the Map in
insertion order, entries by reference (`revalidating` names the fetch that
started from the entry, which is how a reset reaches an entry that is replaced or
not), leaders and followers. **GatewayForwarding** is `Handle` with the bucket;
a token is `Minute` units, so that the refill per tick is the integer `Qpm`. One
token pays for a call of `http.Client.Do`, which follows redirects (`main.go` 298
sets no `CheckRedirect`) until it has made `MaxHops` requests, ten in `net/http`, or
`Timeout` has passed; no bucket and no list is asked about them. Where a request
goes is left out, with the rewrite of `req.URL` and the hosts of redirects: the
list of targets reads `req.Host` only (`handler.go` 336). That the transport may
repeat a request on a connection that turns out to be dead is not counted.
**GatewayPipeline** follows each request from the HTTP handler through
decapsulation, the content handler (`codec`: binary or protobuf), the target
and encapsulation. A step of its goroutine queues the records it makes
(`todo`), and each of them is a step of its own, since `record` takes the mutex
anew each time and `DrainWindow` may come in between. `status` is the status a
handler answers with, `inner` the one inside the encapsulated response and
`origin` who made it. The verdict of the limiter is an input here, since
GatewayForwarding decides it. The path `below` stands for a path under an
endpoint that is registered with a trailing slash, which has no handler of its
own. Left out as impossible: `DumpRequest` and the marshalling of the gateway's
own error, which write to memory, and a legacy configuration that is missing,
since `main` always registers it.

Abstractions that hold everywhere: identities, keys, bodies and messages are
model values or small numbers; a cryptographic check is an input that accepts or
rejects; time is discrete; log lines, headers and wording are left out.
JavaScript handlers are atomic between awaits and callbacks, as the event loop
makes them; `allow` in Go is atomic under its mutex.

## 3. Runs, bounds and what they show

| Run | Instance | Shows |
|---|---|---|
| `issuer_state` | 3 calls of one device, a newcomer or a key that is not the device's, 3 epochs, quota 2, batches of 1 and 2, 2 attempts, both backends, room in memory for one device | charges applied once and answered truthfully, quota, readable rows, progress, refinement of DeviceLedger |
| `issuer_bootstrap` | 3 calls in 2 replicas, 2 salts, any faults until the environment is stable | `OneSalt`, `RecoversFromFailure`, `EveryCallReturns` |
| `app_attest` | 2 requests: any mixture of the parts of proofs of 5 keys, beside a proper one | `AccountsAreGenuine`, `ChargedForOwnRequest`, `AssertionChargedOnce`, `ProperIsServed` |
| `token_issuer` | 1 issue of any form beside 1 publication, epochs 1 to 3, every manifest over two keys, one of them unusable, and either legacy key | `IssuanceIsSound`, `PublicationIsCurrent`, `CleanExitIsIdle`, `DrainEnds` |
| `relay` | slots: 3 requests, 2 clients, caps 2 and 1; config: 3 callers; store: 3 calls, 2 tokens, 2 processes | slots accounted, work holds its slot, clean exit, drain ends; one shared flight, one outcome per caller, no cancellation by others, everyone released; `SpentAtMostOnce`, refinement of SpendOnce, `EveryCallReturns` |
| `limits` | relay: 3 clients, table of 2, budget 2, window 3, 7 requests, one proxy or two; gateway: 4 requests, 2 per minute of 3 ticks, 2 hops within 2 ticks, 6 ticks | the sliding bound, nobody refused for others; what is let through and what is sent in any stretch, sufficient Retry-After |
| `access_tokens` | 2 requests with any of the headers, 5 modes, epochs of 2 ticks, 6 ticks | `AdmissionIsEarned`, `RefreshIsDisciplined`, `EveryRequestDecided` |
| `commons_cache` | 4 calls to any route, room for one entry, TTL and stale window 1, fetches of up to 2, 5 ticks | `ServedAsAsked`, staleness bound, single flight |
| `gateway_pipeline` | 2 requests to any path, with the methods POST, GET, `upstream` and `gateway_payload`, either codec, targets that answer 200 or 403 | `SummaryIsTrue`, `FailuresAreAttributed`, `EveryRequestAnswered` |
| `per_minute_cap` | 3 requests, 2 per minute | violated: `PerMinuteCap`, see Findings |
| `one_revalidation` | 4 calls for one feed, TTL shorter than a fetch | violated: `OneRevalidation`, see Findings |
| `upstream_stage` | 1 request, POST or `upstream` | violated: `UpstreamCountsTargets`, see Findings |

Why the bounds are enough. Every race in the stores is between two calls about
one row; a third call is needed for a row that changed *and* a token or quota
that is used up. Three epochs make a replica that is one behind, one ahead and
the pruning of a count. Two attempts make "retried" and "gave up" different.
Two calls in one replica and one in another make a shared promise, a replica
that comes second and one that comes back. In `app_attest` the parts are taken
from two devices of this application (one enrolled), one of another, one of the
other environment and a key no hardware made, so that each check is the only one
to fail for some request. Caps of one and two make the per-client and the
global limit bind separately. A table or Map of one or two entries makes every
insertion evict. Clocks run for at least two of the windows they are about, but for
the limiter of the relay: its window may begin at any tick, and five ticks hold the
end of one and the beginning of the next. A fetch of the commons cache may outlast
the entry that replaced the one it started from. The rate-limited token takes a
tick and a half, so that rounding matters, and one redirect is enough for more to
be sent than let through. Two gateway
requests are enough for their records to mix with each other's and with the drain,
and for each stage of one to fail while the other goes on. Symmetry is used only
in runs without liveness. Deadlock is not reported where all calls of the
instance may be over, which is every instance.

Bounds on counters are constants named `MaxTime`, `MaxClock`, `MaxRequests` or
`MaxEpoch` and appear only in guards of the clock, of the arrival of requests, and of the
rollover. In `access_tokens` the clock also stops once every request is decided
(`Undecided`).

`limits`, `commons_cache`, `issuer_state` and `issuer_bootstrap` carry history
variables (`passed`, `dropped`, `granted`, `asked`, `refusedAt`, `age`, `since`,
`began`, `lost`, `commits`, `charged`, `rowSalts`); no guard of an action that models code reads them.

### Findings

Three runs show that the code does not do what a document says of it; each is
beside a property that says what the code does guarantee.

* `per_minute_cap`. `SELFHOSTING.md` lines 78 and 278 and the comment at `main.go`
  288 call `GATEWAY_MAX_QPM` a cap on the requests of a minute. The bucket holds a
  whole minute of tokens and is refilled while they are spent (`ratelimit.go`
  33-68): three requests are let through in one minute with a limit of two. Redirects
  come on top, since they take no token. `WindowBound` is what holds.
* `one_revalidation`. `commons-cache/README.md` line 20 promises "one in-flight
  revalidation per key". What holds a second one back is a field of the entry
  (`server.js` 287), and a miss replaces the entry. The first revalidation may then
  outlast the TTL of the new one: fetches are aborted after 10 s, a constant
  (`server.js` 242, 341), and `COMMONS_TTL_MS` may be less (`server.js` 40). With
  the default of 60 s the promise is kept (`OneRevalidationTheorem`). For every
  configuration, revalidations of a key start at least TTL apart (`SingleFlight`).
* `upstream_stage`. `ARCHITECTURE.md` line 124 says "Stage `outer` counts final HTTP
  responses; `upstream` counts target HTTP statuses". `ResponseStatus`
  (`summary_metrics.go` 132-158) tells the stage from its `prefix`, and the handlers
  pass the request's own method (`gateway.go` 49, 103, 125, 139), so that the final
  response to a request with the method `upstream` or `gateway_payload` is counted in
  another stage. `SummaryIsTrue` says, for any method, where each is counted. The
  401 of `requireRelaySecret` is counted in no stage.

### Observations

Met while modelling, and stated where a property has to make an exception for it:

* Cache keys of feeds and albums can coincide: a feed with the id `imgur` and a
  sort that spells an album id has the key `imgur/<id>` of that album
  (`commons-cache/server.js` 278 and 535), and one is then served for the other.
  Threads and images cannot collide (`comments:`, and a hyphen no sanitised id
  has). `ServedAsAsked` says that these homonyms (`Homonyms`) are the only
  exception.
* Stage `result` of the gateway's summary may count a request as "success" and then as "content_encode_failed", when the
  body of the target breaks off.
* `commons-cache/README.md` line 23 lists HIT, MISS and STALE for `X-Cache`, and
  `server.js` line 321 also answers COALESCED. A slow revalidation may overwrite
  bytes that a later miss fetched: no property speaks of the overwriting itself, and
  `StalenessBounded` limits what comes of it.
* A token signed with the key of the previous epoch, at a rollover, is charged to
  the current one, as `handleIssue` documents.
* An attestation without the AT flag fails in `verifyKeyId`, on the key that was
  not parsed, before `verifyAttestationAuthData` looks at the flag: it is refused
  all the same, under the category "verification".

## 4. Properties

* **Redemption.** A token admits one request at most, over all replicas. It is
  refused as spent only if another claim owns it. Every call returns.
* **Ledger.** A reservation is applied at most once; "ok" means applied, a
  refusal means not applied. Charges of a device in an epoch never exceed the
  quota although old epochs are pruned; a counter pays once; keys, counters
  and epochs never go back; no row is written that `checked` would refuse (the
  device would be locked out); each attempt a call
  lost, the last one included, was lost to a reservation of another call that was
  applied since the call began.
* **Bootstrap.** Devices are looked up and charged under one salt, the stored
  one, whatever crashes and arrives late. Once the faults are over a call in a
  replica with that salt is not turned away. Every call returns.
* **App Attest.** Every account belongs to genuine hardware running this
  application in this environment, and holds that device's own key. A device is
  charged only for a request its hardware attested or signed, and once for an
  assertion. A proper client is refused only for an outage, its quota, an old
  epoch, an unknown device or a used counter, however its key ID is spelled.
* **Issuer.** Nothing is signed uncharged; nothing is charged before its key is
  known to be there and every key of the manifest has imported; what is signed is
  for the epoch the client is bound to, with a key of that epoch.
  Published keys are of the epoch they are published for. A clean exit leaves
  no work behind, and a drain ends by itself.
* **Relay.** Both counters are exactly the slots held and within their caps;
  work goes on only with a slot, also after the client is gone; a clean exit is
  idle; a drain ends. A client passes at most two budgets per window, plus one
  for each time its bucket was evicted, and is refused only after a full budget
  of its own, whatever it or others write into the headers.
* **Key config.** At most one flight is open and it is the one that is joined;
  it has callers; a caller gets one outcome; a departure cancels only a flight
  nobody else waits for; every caller is released.
* **Access.** Unless mode is `off`, nobody passes but the bearer of the secret, in
  secret mode, or of a
  genuine unspent token whose key is looked up in its epoch or the next; one
  signature admits one request however it is spelled, and a token that does not
  verify burns nothing. Fetches of keys keep the back-off, at most one is under
  way, live keys are lost only to a newer document, and no answer is given in
  ignorance. Every request that asks for a key is decided.
* **Commons cache.** A caller is served the item it asked for. What is served is
  within the freshness or the stale window (plus the time the fetch itself took);
  a key has one leader, its revalidations start at least TTL apart, so that there is
  one at a time if fetches are shorter than that, followers wait for a leader that is
  fetching, and no entry is left marked as revalidating.
* **Gateway.** In any stretch of time at most one bucket more than the rate is let
  through, and at most `MaxHops` times as many requests are sent, redirects included.
  Who waits as long as Retry-After says finds a token, if nobody else took one,
  however many were refused in between. The summary counts each final response of a
  handler, each answer of a target and each translated payload once, whenever the
  minute ends and whatever the method; final responses to a method that is spelled
  like another stage's prefix are in that stage. The gateway says 500
  exactly when a target was asked and its response could not be had or passed
  on, and a target's status is passed on unchanged. A request that was
  decapsulated is answered, also when its target stalls, and is logged.

## 5. Fairness

Weak fairness, and only of what the code forces:

* RedemptionStore, IssuerState: the steps of a call, since `bounded` races every
  await against a deadline. Azure is under no fairness: a write may never be
  applied. Crashes and new calls are not forced.
* IssuerReplicas: the same, and the steps of an initialization, which have
  deadlines too. While there are faults a deadline counts as a failure; once the
  environment is stable the store answers what it is asked. `EveryCallReturns`
  needs no stability, `RecoversFromFailure` is a safety property.
* AccessTokens: a fetch ends, by the timer of `fetchDocument`, and a spend by the
  deadline of `redeem`. That the store takes a nullifier is not forced.
* ConfigFlight: a flight ends, by `GW_TIMEOUT_MS`, whose handler destroys the
  request and thereby reports an error.
* RelayAdmission, TokenIssuer: handlers continue (their awaits have deadlines),
  connections end (`requestTimeout`, `keepAliveTimeout`), `server.close` calls
  back. The forced exit is not fair: `DrainEnds` says the drain does not need it.
* GatewayPipeline: goroutines go on (an exchange with a target, its body
  included, ends by the 30 s of `http.Client.Timeout`), and the ticker of `Run`
  fires. Requests and answers of targets are not forced.
* AppAttest, CommonsCache, RateLimiter, GatewayForwarding state no liveness.

In `relay` the fairness of a part that stays asks for nothing: no step of it that
is under fairness is enabled before somebody has called.

## 6. Proofs

Every safety property of the runs, invariants and action properties alike, is a
theorem, and so are both refinements. The proof modules state an inductive
invariant, prove that `Init` implies it and that every action keeps it (one step
or lemma per action), and derive the theorems from it. TLC checked the invariants
on the instances of the runs before they were proved.

The constants are arbitrary. What is assumed of them is named in the modules that
declare them, and TLC evaluates it in every run:

* null values are not members of the sets they extend (`NoClaimAssumption`,
  `NoKeyAssumption`, `NoCommitAssumption`, `NoCallAssumption`, ...), and bounds,
  budgets, windows and times are naturals;
* inputs are arguments the code's own checks let through (`InputsAssumption`,
  `HeadersAssumption`, and in CommonsCache `RequestsAssumption`: a sanitised id
  has letters, digits and underscores only, `server.js` 481, and `/v1/imgur` has
  no sort);
* where cardinalities are compared, requests are finitely many
  (`RequestsFinite`), and in TokenIssuer issuing and publishing requests are
  different ones;
* `AppleAssumption`, `RootAssumption` in AppAttest, on which the issuer relies:
  Apple's keys sign certificates of its own authorities and of keys of its
  hardware only, with a nonce over what that hardware said, hardware keys sign no
  certificates, and the pinned root is Apple's.

Nothing is assumed of the times of the commons cache or of the methods of the
gateway's clients. `FetchTimeout < TTL` is a hypothesis of `OneRevalidationTheorem`
alone: it is true of the defaults (10 s, 60 s), and the code does not enforce it.

The proof modules, with what the inductive invariant of each has to add to the
properties and why:

* **RedemptionStoreProofs** (`SpendOnceHolds`, `RefusalIsJust`, `Refinement`).
  `SpentAtMostOnce` alone is not inductive: an acknowledged insert admits without
  looking at the table. The invariant adds that an insert that was applied is in
  the table (`AppliedIsRecorded`), that who was admitted owns the row
  (`AdmissionIsRecorded`), and that waiting calls have a promise to wait for.
* **IssuerStateProofs** (`QuotaTheorem`, `CounterTheorem`, `ChargeTheorem`,
  `ReadableTheorem`, `ProgressTheorem`, `ForwardTheorem`, `Refinement`). The row
  must be tied to history: the counts in a row are what was charged for the
  epochs it still keeps (`RowsCountCharges`), and its counter bounds all counters
  that paid (`RowsBoundCounters`); a write on the wire was decided on the row
  whose ETag it carries (`WritesAreDecided`), so that when the ETag still matches
  the decision still holds; `CommitsAreApplied`, `CallsKnowTheirWrites` and
  `AttemptsArePaid` link a call to its write. The last one counts: the ETag has
  moved since the call began by at least its own write, if that was applied, and
  one for each attempt it lost. `Apply`, the only write, has lemmas
  of its own (`ApplyInv`, `ApplyIsReserve`), and the refinement maps it to
  `DeviceLedger!Reserve`, also when it comes after the answer.
  Of the replicas it proves `OneSaltTheorem` and `RecoveryTheorem`. That a call
  has passed says nothing about the salt unless it is known how its replica became
  ready: `SInv` says that a replica that is ready has the stored salt, that a
  config row it created is the stored one, and that the stored salt never changes.
  Recovery adds `Forgotten`, that no replica keeps a rejected promise.
* **AppAttestProofs** (`AccountsAreGenuineTheorem`, `ChargedForOwnRequestTheorem`,
  `AssertionChargedOnceTheorem`, `ProperIsServedTheorem`). `AnchoredLeaf` shows,
  by well-founded descent along the certificates, that a verified chain has a leaf
  signed by Apple; the checks then tie key ID, certificate, authenticator data and
  request to one hardware key. What a request has verified is remembered in the
  invariant until its charge, and the counter of an account bounds all that were
  charged to it. That a proper client is served needs the converse (`SInv`): each
  check holds of a proper proof, accounts are never lost, and a counter in an
  account was paid by an assertion or an attestation of that device.
* **TokenIssuerProofs** (`IssuanceTheorem`, `PublicationTheorem`,
  `CleanExitTheorem`). `Settled` says what the stage of a handler implies about
  the awaits before it: the epoch is the client's from `keys` on, the key is
  there from `attest` on, the charge from `sign` on, and none of it is undone by
  a rollover. `WorkInv` ties `activeWork` to the set of handlers under way;
  `KeyringInv` says that keys are in use only if all of them could be imported
  and that no request is of an epoch to come.
* **RelayProofs.** Admission (`SlotsTheorem`, `WorkTheorem`, `CleanExitTheorem`):
  `SlotsAccounted` speaks of cardinalities, and `TakenCounts` and
  `ReturnedCounts` say what taking and returning one slot does to them;
  `SlotHistory` and `DrainHistory` say which requests can still hold or release a
  slot, and that a clean exit was taken with no slot held and the server closed.
  The config flight (`SharedTheorem`, `OutcomeTheorem`, `NeverCancelledTheorem`):
  `FlightHistory` ties the gateway request of a flight to its being over, and says
  that `configFlight` is a flight that was started, also in the case of a flight
  that completes while it is made; `WaitersAreCallers` says that the callers of a
  flight are those who wait; `FinishFlight` treats the end of a flight once.
  The rate limiter (`SlidingTheorem`, `RefusedTheorem`): the bound is not
  inductive, since a bucket does not show when its client passed before. With a
  bucket (`WithBucket`), the passes it counts are exactly the last ones and fall
  in its window; the earlier ones are within the bound by themselves, and those
  less than a window before this one leave one budget free. Without a bucket
  (`WithoutBucket`) a client has had one budget less. Each way a request can be
  counted is a lemma (`OpensFirst`, `OpensNext`, `CountsPass`, `CountsRefusal`,
  `Drops`); `KeyedByItself` is that headers do not change who is counted.
* **AccessTokensProofs** (`AdmissionTheorem`, `RefreshTheorem`). `RefreshInv`
  dates the fetch under way and those who await it, `KeysInv` says that every
  cached key is one of the issuer's, with the expiry of an epoch that has begun,
  and `DecisionInv` says that a key is sought only for a token and that whoever
  owns a nullifier bears a genuine one.
* **CommonsCacheProofs** (`SingleFlightTheorem`, `OneRevalidationTheorem`,
  `ServedAsAskedTheorem`, `StalenessTheorem`). `FetchInv` ties leaders, followers and the inflight Map
  together; `EntryInv` and `ServedInv` say that what is stored and what is served
  was brought by a request with that key, which `KeyClash` turns into the item
  asked for. The hard part are the revalidations: the flag that guards them
  goes when its entry is evicted or replaced. `RevalidationInv` says that such an
  entry is younger than the revalidation under way. Once it is stale, at least TTL
  has passed since that began (`StaleIsLate`), which is `RevalidationsApart`; where
  fetches are shorter, that one has been aborted by then, which is
  `OneRevalidationTheorem`.
* **GatewayProofs.** The bucket (`WindowTheorem`, `RetryTheorem`): the invariant
  `Accounting` says that what was let through since the mark and what the bucket now
  holds are covered by one bucket and the refill; it is linear in the clock but
  has products of constants, which the lemmas `RefilledBounds`, `RefillOfATick`,
  `WorthGrows` and `RetryAfterCovers` isolate. What is sent from `Timeout` after the
  mark on belongs to a request that was let through after the mark, and
  `RequestsPerToken` bounds it by `MaxHops` each. The pipeline (`AttributionTheorem`):
  `OriginHistory` says how far a request must be for a target to have been asked
  or to have answered. The summary (`SummaryTheorem`): `SummaryIsTrue` speaks of
  quiet moments only. Its invariant counts at every moment: the copies of a row in
  the current minute and in the log are the requests that should be counted there
  (`Expected`, which has the final responses to every method in the stage of that
  method) and do not still owe the record (`Owes`); a step that queues
  records, a record and a drain each keep that equation.

Each module also proves the type invariant of its models, on its own or as part
of its inductive invariant. `ForwardTheorem` (keys, counters and epochs of a
device never go back) has no run of its own: it is a consequence of the refinement
that `issuer_state` checks.

Only model-checked are the seven liveness properties: `EveryCallReturns` of the
redemption store and of the replicas, `DrainEnds` of the issuer and of the relay,
`EveryCallerReleased`, `EveryRequestDecided` and `EveryRequestAnswered`. Liveness
under fairness and `ENABLED` are out of the prover's reach.

## 7. Plan

Done, in this order: the redemption store, the device ledger, the issuer on top
of it, relay admission, the config flight, the key cache, the commons cache, the
rate limiter, the gateway's outbound side, its pipeline and summary; proofs of
the two stores, of relay admission, of the bucket, of the config flight and of
the pipeline; then App Attest, the bootstrap of the device table and its
composition with the ledger, token verification over key cache and redemption,
the operator's keys, the client's address, and the whole handler of the commons
cache; proofs of App Attest and of the bootstrap; then proofs of everything that
was only model-checked: the issuer, token verification and the key cache, the
commons cache, the rate limiter, the recovery of replicas, proper clients, and the
summary.

Next: the safety half of the liveness arguments, as far as it can be proved (in
which states a call still has a step of its own to take, and what decreases with
it), and the composition of AccessTokens with RedemptionStore in place of its
promise.

## 8. Not modelled

* The CBOR and DER decoders of `appattest.js` (95-283), blind RSA, HPKE and the
  OHTTP encapsulation: pure functions over bytes and numbers, out of TLC's reach
  and without state. The models take their verdict as an input.
* `appattest-fixtures.js`, which builds proofs for the tests.
* The text of headers, batches and JSON, and how imgur documents are reshaped:
  the models keep which of them are refused and where.
* `FORWARD_UPSTREAM_AUTH` of the commons cache: it adds a header to a fetch and
  changes neither keys nor entries.
* The fallback of `clientIpKey` to the address of the socket (`ohttp-relay/server.js`
  194), when the configured header is absent: behind an ingress, which sets it, it is
  not reached.
* The format check of the nullifier in `redeem` (`redemption-store.js` 32): it
  changes no state, and `verifyAccessToken`, its caller, passes the hex of a digest.
* float64 rounding in the token bucket, and 32-bit limits of counters: the
  refill of the model is exact.
* Start-up (`main.go`, environment parsing, `deploy/`), the Prometheus and StatsD
  exporters, the duration buckets of the summary: configuration and I/O.
* `ohttp-gateway/vendor/` and generated protobuf code.
