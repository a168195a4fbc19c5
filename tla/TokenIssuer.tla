----------------------------- MODULE TokenIssuer -----------------------------
(***************************************************************************)
(* One process of the token issuer, token-issuer/server.js with            *)
(* epoch-keys.js: POST /issue from the request to the blind signatures,    *)
(* GET /issuer-keys, the import of the signing keys, and the shutdown.     *)
(* The epoch may roll over at any await, the client may leave at any       *)
(* moment, and the state store is the atomic ledger DeviceLedger, whose    *)
(* charge may come before, after or without the answer.                    *)
(***************************************************************************)
EXTENDS DeviceAccount, FiniteSets

CONSTANTS
    Requests,       \* POST /issue requests
    Publishers,     \* GET /issuer-keys requests
    NoEpoch,        \* a binding that matches no epoch, or another batch
    Material,       \* private keys an operator may configure
    Unusable,       \* those importKey refuses
    NoMaterial,     \* no key for an epoch
    Inputs,         \* device, proof and batch size of a request
    FirstEpoch,     \* the epoch the process starts in
    RequireBinding  \* REQUIRE_CLIENT_DATA_BINDING

ASSUME NoEpochAssumption == NoEpoch \notin Int
ASSUME IssuerInputsAssumption == Inputs \subseteq Argument
ASSUME FirstEpochAssumption == FirstEpoch \in 1 .. MaxEpoch
ASSUME MaterialAssumption == Unusable \subseteq Material /\ NoMaterial \notin Material
ASSUME BindingAssumption == RequireBinding \in BOOLEAN
ASSUME RequestsAssumption ==
    IsFiniteSet(Requests) /\ IsFiniteSet(Publishers) /\ Requests \cap Publishers = {}

VARIABLES
    epoch,          \* currentEpoch()
    explicit,       \* a manifest is configured, not the legacy single key
    material,       \* the private key configured for an epoch
    imported,       \* the import of those keys: unset, pending, ok or failed
    form,           \* what a request is like
    stage,          \* where it stands
    connected,      \* its connection is up
    bound,          \* the epoch the client's clientDataHash is bound to
    epochId, signingEpochId,
    signed,         \* the signatures were made
    accounts, arg, charged, answer,     \* the ledger
    published,      \* GET /issuer-keys: the epoch it was published for
    activeWork, draining, httpClosed, exit

operator == <<explicit, material>>
keyring == <<operator, imported>>
ledger == <<accounts, arg, charged, answer>>
asked == <<form, bound>>
request == <<asked, stage, connected, epochId, signingEpochId, signed>>
process == <<activeWork, draining, httpClosed, exit>>
vars == <<epoch, keyring, request, ledger, published, process>>

Ledger == INSTANCE DeviceLedger

All == Requests \cup Publishers

\* A request is not let in (403), goes elsewhere (404), is not JSON (415), too
\* large (413), malformed (400: no JSON, no keyId, a batch of the wrong size, a
\* message of the wrong type or length), or proper.
Early == {"foreign", "elsewhere", "untyped"}
Forms == Early \cup {"large", "malformed", "proper"}
Working == {"keys", "attest", "reserve", "sign", "current", "previous"}

\* Type correctness; activeWork never falls below zero, so trackWork counts
\* down only what it counted up (server.js 439-441).
TypeOK ==
    /\ epoch \in FirstEpoch .. MaxEpoch
    /\ explicit \in BOOLEAN
    /\ material \in [Epochs -> Material \cup {NoMaterial}]
    /\ imported \in {"unset", "pending", "ok", "failed"}
    /\ form \in [Requests -> Forms]
    /\ stage \in [All -> {"new", "reading", "done"} \cup Working]
    /\ connected \in [All -> BOOLEAN]
    /\ bound \in [Requests -> Epochs \cup {NoEpoch}]
    /\ epochId \in [All -> Epochs]
    /\ signingEpochId \in [Requests -> Epochs]
    /\ signed \in [Requests -> BOOLEAN]
    /\ accounts \in [Devices -> Account]
    /\ arg \in [Requests -> Argument]
    /\ charged \in SUBSET Requests
    /\ answer \in [Requests -> {"none", "ok", "unavailable"} \cup Refusals]
    /\ published \in [Publishers -> Epochs \cup {NoEpoch}]
    /\ activeWork \in Nat
    /\ draining \in BOOLEAN /\ httpClosed \in BOOLEAN
    /\ exit \in {"running", "clean", "forced"}

\* The operator's keys: one for every epoch in legacy mode, or a manifest for
\* the epoch the process starts in, the one before it, or both.
Configured(live) ==
    {f \in [Epochs -> Material \cup {NoMaterial}] :
        /\ \E e \in live : f[e] # NoMaterial
        /\ \A e \in Epochs \ live : f[e] = NoMaterial}

Init ==
    /\ epoch = FirstEpoch
    /\ \/ explicit = FALSE /\ material \in {[e \in Epochs |-> k] : k \in Material}
       \/ explicit = TRUE /\ material \in Configured({FirstEpoch - 1, FirstEpoch})
    /\ imported = "unset"
    /\ form \in [Requests -> Forms]
    /\ stage = [r \in All |-> "new"]
    /\ connected = [r \in All |-> FALSE]
    /\ bound \in [Requests -> Epochs \cup {NoEpoch}]
    /\ epochId = [r \in All |-> FirstEpoch]
    /\ signingEpochId = [r \in Requests |-> FirstEpoch]
    /\ signed = [r \in Requests |-> FALSE]
    /\ accounts = [d \in Devices |-> NoAccount]
    /\ arg \in [Requests -> Inputs]
    /\ charged = {}
    /\ answer = [r \in Requests |-> "none"]
    /\ published = [p \in Publishers |-> NoEpoch]
    /\ activeWork = 0
    /\ draining = FALSE /\ httpClosed = FALSE
    /\ exit = "running"

-----------------------------------------------------------------------------
(* Work and the end of a drain.                                            *)

\* Mutant: the drain ends with the listener.
MutantFinishDrain(closed, n) ==
    exit' = IF draining /\ closed THEN "clean" ELSE exit

\* finishDrain, with the values its caller has just assigned.
FinishDrain(closed, n) ==
    exit' = IF draining /\ closed /\ n = 0 THEN "clean" ELSE exit

\* trackWork around a handler that awaits something.
StartWork(r, to) ==
    /\ stage' = [stage EXCEPT ![r] = to]
    /\ activeWork' = activeWork + 1
    /\ UNCHANGED exit

\* Mutant: only the closing of the listener looks whether the drain is over.
MutantEndWork(r) ==
    /\ stage' = [stage EXCEPT ![r] = "done"]
    /\ activeWork' = activeWork - 1
    /\ UNCHANGED exit

\* The handler returns: `finally` of trackWork.
EndWork(r) ==
    /\ stage' = [stage EXCEPT ![r] = "done"]
    /\ activeWork' = activeWork - 1
    /\ FinishDrain(httpClosed, activeWork - 1)

-----------------------------------------------------------------------------
(* epoch-keys.js.                                                          *)

\* Mutant: a key never stops being live.
MutantIsLive(e) == e <= epoch

IsLive(e) == e \in {epoch, epoch - 1}

\* keysForEpoch up to its await: the first caller starts the import.
AskKeys == imported' = IF imported = "unset" THEN "pending" ELSE imported

\* keysForEpoch after its await: the epoch must still be live and have a key.
KeyGranted(e) == imported = "ok" /\ IsLive(e) /\ material[e] # NoMaterial
KeyRefused(e) == imported \in {"ok", "failed"} /\ ~KeyGranted(e)

\* Every key imports, and those of a manifest are different RSA keys.
Importable ==
    /\ \A e \in Epochs : material[e] \notin Unusable
    /\ explicit => \A e, f \in Epochs :
                      e # f /\ material[e] = material[f] => material[e] = NoMaterial

\* The import ends, for all keys together.
ImportEnds ==
    /\ exit = "running" /\ imported = "pending"
    /\ imported' = IF Importable THEN "ok" ELSE "failed"
    /\ UNCHANGED <<epoch, operator, request, ledger, published, process>>

-----------------------------------------------------------------------------
(* POST /issue.                                                            *)

\* Refused before its body is read: 503 while draining, 403, 404 or 415.
RefuseEarly(r) ==
    /\ exit = "running" /\ ~httpClosed /\ stage[r] = "new"
    /\ draining \/ form[r] \in Early
    /\ stage' = [stage EXCEPT ![r] = "done"]
    /\ connected' = [connected EXCEPT ![r] = TRUE]
    /\ UNCHANGED <<epoch, keyring, asked, epochId, signingEpochId, signed,
                   ledger, published, process>>

ReadBody(r) ==
    /\ exit = "running" /\ ~draining /\ stage[r] = "new"
    /\ form[r] \notin Early
    /\ stage' = [stage EXCEPT ![r] = "reading"]
    /\ connected' = [connected EXCEPT ![r] = TRUE]
    /\ UNCHANGED <<epoch, keyring, asked, epochId, signingEpochId, signed,
                   ledger, published, process>>

\* Mutant: the current epoch, whatever the client committed to.
MutantBindings(r) == {epoch}

\* boundEpoch: the current or the previous epoch, whichever the hash commits
\* to; without the binding requirement the current one.
Bindings(r) ==
    IF RequireBinding THEN {bound[r]} \cap {epoch, epoch - 1} ELSE {epoch}

\* The body is too large, or over but malformed, unbound (401), or the process
\* has begun to drain meanwhile (503).
RefuseBody(r) ==
    /\ exit = "running" /\ stage[r] = "reading"
    /\ draining \/ form[r] # "proper" \/ Bindings(r) = {}
    /\ stage' = [stage EXCEPT ![r] = "done"]
    /\ UNCHANGED <<epoch, keyring, connected, asked, epochId, signingEpochId,
                   signed, ledger, published, process>>

\* handleIssue up to the await of keysForEpoch.
HandleIssue(r) ==
    /\ exit = "running" /\ stage[r] = "reading" /\ ~draining
    /\ form[r] = "proper"
    /\ \E e \in Bindings(r) : signingEpochId' = [signingEpochId EXCEPT ![r] = e]
    /\ epochId' = [epochId EXCEPT ![r] = epoch]
    /\ arg' = [arg EXCEPT ![r].epoch = epoch]
    /\ StartWork(r, "keys")
    /\ AskKeys
    /\ UNCHANGED <<epoch, operator, connected, asked, signed,
                   accounts, charged, answer, published, draining, httpClosed>>

HaveKey(r) ==
    /\ exit = "running" /\ stage[r] = "keys"
    /\ KeyGranted(signingEpochId[r])
    /\ stage' = [stage EXCEPT ![r] = "attest"]
    /\ UNCHANGED <<epoch, keyring, connected, asked, epochId, signingEpochId,
                   signed, ledger, published, process>>

\* No signing key: 503.
NoKeyFails(r) ==
    /\ exit = "running" /\ stage[r] = "keys"
    /\ KeyRefused(signingEpochId[r])
    /\ EndWork(r)
    /\ UNCHANGED <<epoch, keyring, connected, asked, epochId, signingEpochId,
                   signed, ledger, published, draining, httpClosed>>

\* validateAppAttest answers; what it checks is the module AppAttest.
AttestAccepts(r) ==
    /\ exit = "running" /\ stage[r] = "attest"
    /\ stage' = [stage EXCEPT ![r] = "reserve"]
    /\ UNCHANGED <<epoch, keyring, connected, asked, epochId, signingEpochId,
                   signed, ledger, published, process>>

\* 401, or 503 when the device's key could not be read.
AttestRefuses(r) ==
    /\ exit = "running" /\ stage[r] = "attest"
    /\ EndWork(r)
    /\ UNCHANGED <<epoch, keyring, connected, asked, epochId, signingEpochId,
                   signed, ledger, published, draining, httpClosed>>

\* The ledger charges the call, while it waits or after it was given up.
LedgerCharges(r) ==
    /\ stage[r] = "reserve" \/ answer[r] = "unavailable"
    /\ Ledger!Reserve(r)
    /\ UNCHANGED <<epoch, keyring, request, published, process>>

ReserveGrants(r) ==
    /\ exit = "running" /\ stage[r] = "reserve"
    /\ Ledger!Grant(r)
    /\ stage' = [stage EXCEPT ![r] = "sign"]
    /\ UNCHANGED <<epoch, keyring, connected, asked, epochId, signingEpochId,
                   signed, published, process>>

\* 401 or 429 when the account refuses, 503 when the store does not answer.
ReserveRefuses(r) ==
    /\ exit = "running" /\ stage[r] = "reserve"
    /\ Ledger!Refuse(r) \/ Ledger!GiveUp(r)
    /\ EndWork(r)
    /\ UNCHANGED <<epoch, keyring, connected, asked, epochId, signingEpochId,
                   signed, published, draining, httpClosed>>

\* blindSign over the batch: 200, or 500 for the whole batch.
Sign(r) ==
    /\ exit = "running" /\ stage[r] = "sign"
    /\ signed' \in {signed, [signed EXCEPT ![r] = TRUE]}
    /\ EndWork(r)
    /\ UNCHANGED <<epoch, keyring, connected, asked, epochId, signingEpochId,
                   ledger, published, draining, httpClosed>>

-----------------------------------------------------------------------------
(* GET /issuer-keys: one lookup after the other.                           *)

HandleIssuerKeys(p) ==
    /\ exit = "running" /\ stage[p] = "new" /\ ~draining
    /\ connected' = [connected EXCEPT ![p] = TRUE]
    /\ epochId' = [epochId EXCEPT ![p] = epoch]
    /\ StartWork(p, "current")
    /\ AskKeys
    /\ UNCHANGED <<epoch, operator, asked, signingEpochId, signed, ledger,
                   published, draining, httpClosed>>

\* keysForEpoch(epochId) returns and keysForEpoch(epochId - 1) is called.
HaveCurrent(p) ==
    /\ exit = "running" /\ stage[p] = "current"
    /\ KeyGranted(epochId[p]) /\ IsLive(epochId[p] - 1)
    /\ stage' = [stage EXCEPT ![p] = "previous"]
    /\ UNCHANGED <<epoch, keyring, connected, asked, epochId, signingEpochId,
                   signed, ledger, published, process>>

Publish(p) ==
    /\ exit = "running" /\ stage[p] = "previous"
    /\ KeyGranted(epochId[p] - 1)
    /\ published' = [published EXCEPT ![p] = epochId[p]]
    /\ EndWork(p)
    /\ UNCHANGED <<epoch, keyring, connected, asked, epochId, signingEpochId,
                   signed, ledger, draining, httpClosed>>

\* Either key is missing or no longer live: 503.
PublishFails(p) ==
    /\ exit = "running"
    /\ \/ stage[p] = "current"
          /\ \/ KeyRefused(epochId[p])
             \/ KeyGranted(epochId[p]) /\ ~IsLive(epochId[p] - 1)
       \/ stage[p] = "previous" /\ KeyRefused(epochId[p] - 1)
    /\ EndWork(p)
    /\ UNCHANGED <<epoch, keyring, connected, asked, epochId, signingEpochId,
                   signed, ledger, published, draining, httpClosed>>

-----------------------------------------------------------------------------
(* Time, clients, shutdown.                                                *)

\* The epoch rolls over.
NextEpoch ==
    /\ exit = "running" /\ epoch < MaxEpoch
    /\ epoch' = epoch + 1
    /\ UNCHANGED <<keyring, request, ledger, published, process>>

\* The connection ends, answered or not; only a body that is still being read
\* ends with it.
Hangup(r) ==
    /\ exit = "running" /\ connected[r]
    /\ connected' = [connected EXCEPT ![r] = FALSE]
    /\ stage' = [stage EXCEPT ![r] = IF @ = "reading" THEN "done" ELSE @]
    /\ UNCHANGED <<epoch, keyring, asked, epochId, signingEpochId, signed,
                   ledger, published, process>>

BeginShutdown ==
    /\ exit = "running" /\ ~draining
    /\ draining' = TRUE
    /\ UNCHANGED <<epoch, keyring, request, ledger, published, activeWork, httpClosed, exit>>

\* The callback of server.close: no connection is left.
HttpClosed ==
    /\ exit = "running" /\ draining /\ ~httpClosed
    /\ \A r \in All : ~connected[r]
    /\ httpClosed' = TRUE
    /\ FinishDrain(TRUE, activeWork)
    /\ UNCHANGED <<epoch, keyring, request, ledger, published, activeWork, draining>>

\* The 25 second timer.
ForceExit ==
    /\ exit = "running" /\ draining
    /\ exit' = "forced"
    /\ UNCHANGED <<epoch, keyring, request, ledger, published, activeWork, draining, httpClosed>>

-----------------------------------------------------------------------------

Issue(r) ==
    \/ RefuseBody(r) \/ HandleIssue(r)
    \/ HaveKey(r) \/ NoKeyFails(r)
    \/ AttestAccepts(r) \/ AttestRefuses(r)
    \/ ReserveGrants(r) \/ ReserveRefuses(r) \/ Sign(r)

PublishKeys(p) == HaveCurrent(p) \/ Publish(p) \/ PublishFails(p)

Next ==
    \/ \E r \in Requests : RefuseEarly(r) \/ ReadBody(r) \/ Issue(r) \/ LedgerCharges(r)
    \/ \E p \in Publishers : HandleIssuerKeys(p) \/ PublishKeys(p)
    \/ \E r \in All : Hangup(r)
    \/ ImportEnds \/ NextEpoch \/ BeginShutdown \/ HttpClosed \/ ForceExit

\* The import and the awaits of the handlers end (the stores have deadlines), a
\* connection ends (requestTimeout, keepAliveTimeout), and server.close calls
\* back; nothing forces a request, the clock, a signal or the hard exit.
Fairness ==
    /\ \A r \in Requests : WF_vars(Issue(r))
    /\ \A p \in Publishers : WF_vars(PublishKeys(p))
    /\ \A r \in All : WF_vars(Hangup(r))
    /\ WF_vars(ImportEnds) /\ WF_vars(HttpClosed)

Spec == Init /\ [][Next]_vars /\ Fairness

-----------------------------------------------------------------------------
(* Properties.                                                             *)

\* trackWork counts the handlers that are between two awaits, and a clean exit
\* abandons none of them: no reservation, lookup or signature of this process is
\* still under way (430-432, 439-442).
CleanExitIsIdle ==
    LET busy == {r \in All : stage[r] \in Working}
    IN  /\ TypeOK
        /\ activeWork = Cardinality(busy)
        /\ exit = "clean" => busy = {}

\* Nothing is signed that was not charged, although the ledger may charge what
\* is never signed (310-341).
SignedIsCharged == \A r \in Requests : signed[r] => r \in charged

\* Quota is spent only when the signing key is in hand: a missing, failed or
\* expired key never costs a device its tokens (274-283 before 310-314).
ChargedHasKey ==
    \A r \in charged : imported = "ok" /\ material[signingEpochId[r]] # NoMaterial

\* The signatures are made with the key of the epoch the client blinded for,
\* although the epoch may roll over at every await (149-158, 262-272, 334).
SignedForBoundEpoch ==
    RequireBinding => \A r \in Requests : signed[r] => signingEpochId[r] = bound[r]

\* With a manifest the key of one epoch signs in no other, so that tokens expire
\* with their epoch (epoch-keys.js 78-110).
KeysExpire ==
    explicit => \A r \in Requests : signed[r] =>
        \A e \in Epochs \ {signingEpochId[r]} : material[e] # material[signingEpochId[r]]

\* What is signed is paid for, for the epoch it was blinded for, with a key that
\* expires, and nothing is paid that cannot be signed, whatever awaits the
\* rollover falls between.
IssuanceIsSound == SignedIsCharged /\ ChargedHasKey /\ SignedForBoundEpoch /\ KeysExpire

\* A set of keys is published only in the epoch it is published for: a
\* rollover between the two lookups refuses it (365-377, epoch-keys.js 114-118).
PublicationIsCurrent ==
    [][\A p \in Publishers : published'[p] # published[p] => published'[p] = epoch]_vars

\* A drain ends although nobody forces it (429-442).
DrainEnds == draining ~> exit # "running"
=============================================================================
