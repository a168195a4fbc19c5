----------------------------- MODULE MCAppAttest -----------------------------
(***************************************************************************)
(* Instance of AppAttest: two devices of this application, one of them     *)
(* enrolled, one of another application, one of the development            *)
(* environment, and a key that no hardware made.  One request carries any *)
(* combination of the parts of proofs, beside a proper request.            *)
(***************************************************************************)
EXTENDS AppAttest, TLC

CONSTANTS d1, d2, d3, d4, x, rootKey, caKey, OtherApp, Develop, h1, h2, free, other

MCDevices == {d1, d2, d3, d4, x}
MCHardware == {d1, d2, d3, d4}
MCHome == (d1 :> [rp |-> ThisApp, aaguid |-> Environment])
       @@ (d2 :> [rp |-> OtherApp, aaguid |-> Environment])
       @@ (d3 :> [rp |-> ThisApp, aaguid |-> Develop])
       @@ (d4 :> [rp |-> ThisApp, aaguid |-> Environment])

\* What the hardware says of a new key, and the claim of a key that is not of
\* this application and environment to be so.
Truth(k) == [size |-> "full", at |-> TRUE, rp |-> MCHome[k].rp, aaguid |-> MCHome[k].aaguid,
             signCount |-> 0, credentialId |-> k, key |-> k]
Claim(k) == [Truth(d1) EXCEPT !.credentialId = k, !.key = k]
Odd == {[Truth(d1) EXCEPT !.size = "short"], [Truth(d1) EXCEPT !.size = "prefix"],
        [Truth(d1) EXCEPT !.at = FALSE, !.size = "prefix"], [Truth(d1) EXCEPT !.signCount = 1],
        [Truth(d1) EXCEPT !.credentialId = d2]}

Cert(k, by, to, n) == [key |-> k, signer |-> by, from |-> 4, to |-> to, nonce |-> n]
Nonce(data, h) == [authData |-> data, hash |-> h]
MCRoot == Cert(rootKey, rootKey, 9, None)
CaCert == Cert(caKey, rootKey, 9, None)
Leaf(k, h) == Cert(k, caKey, 5, Nonce(Truth(k), h))
OldLeaf(to) == Cert(d1, caKey, to, Nonce(Truth(d1), h1))
OddLeaves == {Cert(d1, caKey, 5, Nonce(data, h1)) : data \in Odd}
ForeignLeaf(k) == Cert(k, x, 9, Nonce(Claim(k), h1))
ForeignRoot == Cert(x, x, 9, None)
Leaves == {Leaf(k, h) : k \in MCHardware, h \in {h1, h2}}
MCCerts == {MCRoot, CaCert, OldLeaf(4), OldLeaf(3), ForeignRoot}
           \cup Leaves \cup OddLeaves \cup {ForeignLeaf(d1), ForeignLeaf(x)}

\* A device may set the AT flag in an assertion without a credential.
Prefix(k, c) == [Truth(k) EXCEPT !.size = "prefix", !.signCount = c]
Sig(k, data, h) == [key |-> k, authData |-> data, hash |-> h]
MCSignatures == {Sig(d1, Prefix(d1, 1), h1), Sig(d1, Prefix(d1, 2), h2), Sig(d4, Prefix(d4, 1), h1),
                 Sig(d2, Prefix(d2, 1), h1), Sig(x, Prefix(d1, 1), h1),
                 Sig(x, Prefix(d1, 3), h2)}

Request(k, sp, h, att, ass) ==
    [keyId |-> k, spelling |-> sp, hash |-> h, attestation |-> att, assertion |-> ass,
     epoch |-> 0, count |-> IF sp = "base64" THEN 1 ELSE 2]
Attestation(x5c, data) == [decodes |-> TRUE, x5c |-> x5c, authData |-> data]
Assertion(sig, data) == [decodes |-> TRUE, signature |-> sig, authData |-> data]

Ours == {d1, d4}
ProperOnes ==
    {Request(k, sp, h, Attestation(<<Leaf(k, h), CaCert>>, Truth(k)), None) :
        k \in Ours, sp \in {"base64", "base64url"}, h \in {h1, h2}}
    \cup {Request(s.key, sp, s.hash, None, Assertion(s, s.authData)) :
        sp \in {"base64", "base64url"}, s \in {t \in MCSignatures : t.key \in Ours}}

\* Parts that do not belong together, parts that are not what they should be,
\* and requests that are no proof at all.
Mixed ==
    {Request(k, "base64", h, Attestation(<<l, CaCert>>, data), None) :
        k \in MCDevices, h \in {h1, h2}, l \in Leaves,
        data \in {Truth(d1), Truth(d2), Truth(d3), Claim(d2), Claim(d3), Claim(x)}}
    \cup {Request(k, "base64", h1, Attestation(<<l, CaCert>>, l.nonce.authData), None) :
        k \in {d1, d2}, l \in OddLeaves \cup {OldLeaf(4), OldLeaf(3)}}
    \cup {Request(k, "base64", h1, Attestation(x5c, Claim(k)), None) :
        k \in {d1, x}, x5c \in {<<ForeignLeaf(d1)>>, <<ForeignLeaf(x)>>,
                               <<ForeignLeaf(d1), ForeignRoot>>, <<ForeignLeaf(x), ForeignRoot>>,
                               <<ForeignLeaf(d1), CaCert>>, <<CaCert>>, <<Leaf(d1, h1)>>}}
    \cup {Request(k, "base64", h, None, Assertion(s, data)) :
        k \in MCDevices \cup {NoKey}, h \in {h1, h2}, s \in MCSignatures,
        data \in {Prefix(d1, 1), Prefix(d1, 2), Prefix(d1, 3), Prefix(d2, 1)}}
Broken ==
    {[q EXCEPT !.hash = h] : q \in ProperOnes, h \in {"missing", "short"}}
    \cup {[q EXCEPT !.attestation.decodes = FALSE] : q \in {p \in ProperOnes : p.attestation # None}}
    \cup {[q EXCEPT !.assertion.decodes = FALSE] : q \in {p \in ProperOnes : p.attestation = None}}
    \cup {Request(d1, "base64", h1, None, None)}

MCWorkloads ==
    {(free :> q) @@ (other :> p) : q \in Mixed \cup Broken, p \in ProperOnes}
    \cup {(free :> q) @@ (other :> p) : q \in ProperOnes, p \in ProperOnes}
MCRequests == {free, other}
=============================================================================
