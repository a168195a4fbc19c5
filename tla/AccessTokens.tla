----------------------------- MODULE AccessTokens ----------------------------
(***************************************************************************)
(* How the relay decides whether a POST /relay may proceed,                *)
(* clientAuthorized and verifyAccessToken of ohttp-relay/server.js, over   *)
(* the issuer-key cache of IssuerKeyCache (a call of this module is a call *)
(* of get) and the redemption store, of which only the promise SpendOnce   *)
(* is used: RedemptionStore is shown to keep it.                           *)
(*                                                                         *)
(* A header is what a client put in CLIENT_AUTH_HEADER: nothing, text that *)
(* is no token, the shared secret, or a token.  Cryptography is ideal: the *)
(* signature of a token verifies under the one key that made it for this   *)
(* tokenInput (signer), under none if input or signature were altered.     *)
(* Different texts may decode to the same signature bytes.                 *)
(***************************************************************************)
EXTENDS IssuerKeyCache

CONSTANTS
    Headers,        \* the header values to consider
    Signatures,     \* signature bytes, and the texts they are sent as
    Empty,          \* what decodes to an empty buffer
    NoCall

Modes == {"off", "secret", "secret_unset", "token", "mistyped"}

ASSUME HeadersAssumption ==
    \A h \in Headers :
        /\ h.kind \in {"absent", "junk", "secret", "token"}
        /\ h.keyId \in KeyIds
        /\ h.text \in Signatures \cup {Empty}
        /\ h.bytes \in Signatures \cup {Empty}
ASSUME NoCallAssumption == NoCall \notin Calls

VARIABLES
    mode,           \* CLIENT_AUTH_MODE, and whether CLIENT_SECRET is set
    header,         \* what a request carries
    owner,          \* the redemption store: who holds a nullifier
    verdict         \* how a request was decided

request == <<mode, header>>
decision == <<owner, verdict>>
authVars == <<vars, request, decision>>

\* Mutant: the nullifier is taken from the text of the signature.
MutantNullifierFor(h) == h.text

\* nullifierFor(sigBuf): the decoded bytes.
NullifierFor(h) == h.bytes

Redemption == INSTANCE SpendOnce
    WITH Claims <- Calls, Tokens <- Signatures \cup {Empty}, NoClaim <- NoCall,
         token <- [c \in Calls |-> NullifierFor(header[c])]

\* Type correctness.
AuthTypeOK ==
    /\ TypeOK
    /\ mode \in Modes
    /\ header \in [Calls -> Headers]
    /\ owner \in [Signatures \cup {Empty} -> Calls \cup {NoCall}]
    /\ verdict \in [Calls -> {"none", "admitted", "unauthorized", "spent", "unavailable"}]

AuthInit ==
    /\ Init
    /\ mode \in Modes
    /\ header \in [Calls -> Headers]
    /\ keyId = [c \in Calls |-> header[c].keyId]
    /\ Redemption!Init

-----------------------------------------------------------------------------
(* clientAuthorized.                                                       *)

Decide(c, v) ==
    /\ verdict[c] = "none"
    /\ verdict' = [verdict EXCEPT ![c] = v]
    /\ UNCHANGED owner

\* 'off', or the secret compared with the one configured: without one, or in a
\* mode nobody knows, nobody passes.
PassesWithoutToken(c) ==
    \/ mode = "off"
    \/ mode = "secret" /\ header[c].kind = "secret"

AuthorizeWithoutToken(c) ==
    /\ mode # "token"
    /\ UNCHANGED <<vars, request>>
    /\ Decide(c, IF PassesWithoutToken(c) THEN "admitted" ELSE "unauthorized")

-----------------------------------------------------------------------------
(* verifyAccessToken.                                                      *)

\* Nothing is presented, or it does not parse: refused before any key is sought.
RefuseMalformed(c) ==
    /\ mode = "token" /\ header[c].kind # "token"
    /\ UNCHANGED <<vars, request>>
    /\ Decide(c, "unauthorized")

LookUp(c) ==
    /\ mode = "token" /\ header[c].kind = "token"
    /\ GetCached(c) \/ GetStarts(c) \/ GetJoins(c)
    /\ UNCHANGED <<request, decision>>

\* Neither buffer is empty and the signature verifies under the key of the entry,
\* which is the key its keyId names (parse compares keyId and fingerprint).
SignatureOk(c) ==
    /\ pc[c] = "key"
    /\ Empty \notin {header[c].input, header[c].bytes}
    /\ header[c].signer = keyId[c]

\* null from get, or a signature that does not verify: 401.
RefuseToken(c) ==
    /\ pc[c] = "unknown" \/ (pc[c] = "key" /\ ~SignatureOk(c))
    /\ UNCHANGED <<vars, request>>
    /\ Decide(c, "unauthorized")

\* get throws: 503.
KeysUnavailable(c) ==
    /\ pc[c] = "unavailable"
    /\ UNCHANGED <<vars, request>>
    /\ Decide(c, "unavailable")

\* redeem: the store takes the nullifier, even for a call that gave up on it ...
RedeemTakes(c) ==
    /\ SignatureOk(c)
    /\ UNCHANGED <<vars, request>>
    /\ Redemption!Take(c)

\* ... and answers, or throws.
RedeemAnswers(c) ==
    /\ SignatureOk(c)
    /\ UNCHANGED <<vars, request>>
    /\ Redemption!Admit(c) \/ Redemption!Refuse(c) \/ Redemption!GiveUp({c})

-----------------------------------------------------------------------------

\* Bound: the clock of the model stops once every request is decided.
Undecided == \E c \in Calls : verdict[c] = "none"

CacheStep ==
    /\ FetchFails \/ (\E doc \in Documents : FetchSucceeds(doc)) \/ (Undecided /\ Tick)
    /\ UNCHANGED <<request, decision>>

Conclude(c) == RefuseToken(c) \/ KeysUnavailable(c) \/ RedeemAnswers(c)

AuthNext ==
    \/ \E c \in Calls :
          \/ AuthorizeWithoutToken(c) \/ RefuseMalformed(c)
          \/ LookUp(c)
          \/ RedeemTakes(c) \/ Conclude(c)
    \/ CacheStep

\* A fetch ends by its deadline, and redeem by the deadline of its operations.
AuthFairness ==
    /\ WF_authVars((FetchFails \/ \E doc \in Documents : FetchSucceeds(doc))
                   /\ UNCHANGED <<request, decision>>)
    /\ \A c \in Calls : WF_authVars(Conclude(c))

AuthSpec == AuthInit /\ [][AuthNext]_authVars /\ AuthFairness

-----------------------------------------------------------------------------
(* Properties.                                                             *)

\* The signature of a header is one an epoch of the issuer made for its input.
Genuine(h) ==
    /\ h.kind = "token" /\ Empty \notin {h.input, h.bytes}
    /\ h.signer = h.keyId
    /\ \E e \in Epochs : keyOf[e] = h.signer

\* A spend belongs to a request that brought a genuine token: a signature copied
\* onto another input, or presented under another key, burns nothing (269-288).
OnlyBearersSpend ==
    \A s \in Signatures, c \in Calls : owner[s] = c => Genuine(header[c])

\* In token mode a signature admits one request, however its text is spelled, and
\* in every other mode only the configured secret admits (217-227, 237, 293).
AdmittedOnce ==
    \A c \in Calls : verdict[c] = "admitted" =>
        \/ PassesWithoutToken(c)
        \/ /\ mode = "token" /\ Genuine(header[c])
           /\ \A d \in Calls \ {c} :
                 verdict[d] = "admitted" => header[d].bytes # header[c].bytes

\* Nobody passes the relay but bearers of a genuine, unspent token whose key was
\* accepted in the epoch it was looked up in (server.js 251-296 with
\* issuer-key-cache.js 31, 39, 58), or of the secret; with CLIENT_AUTH_MODE off
\* everybody does (server.js 218).
AdmissionIsEarned == [](OnlyBearersSpend /\ AdmittedOnce) /\ KeyWithinWindow

\* The issuer is asked neither too often nor too seldom: one fetch at a time
\* (AuthTypeOK ties it to the promise), backoffMs apart whatever keys are asked
\* for, a live key lost only to a newer valid document, and no answer given in
\* ignorance (issuer-key-cache.js 44-60).
RefreshIsDisciplined ==
    []AuthTypeOK /\ BackoffHolds /\ LiveKeysKept /\ AnswersAreInformed

\* Every request that asks for a key is decided: by an answer of the store, or
\* by a deadline (server.js 268, 293 and 456-470).
EveryRequestDecided ==
    \A c \in Calls : pc[c] # "idle" ~> verdict[c] # "none"
=============================================================================
