---------------------------- MODULE MCIssuerState ----------------------------
(***************************************************************************)
(* Small instances of IssuerState for TLC.  The arguments of the calls are *)
(* drawn from small sets: every mode, counter, epoch and batch size that   *)
(* the decision tells apart.                                               *)
(***************************************************************************)
EXTENDS IssuerState, FiniteSetsExt, TLC

CONSTANTS Counters, BatchSizes, d1, d2, k1, k2

\* Attestations carry counter 0 and ask for one token; assertions have one of
\* Counters and any batch size.
Usual ==
    {a \in [device : {d1}, mode : {"attestation", "assertion"},
            publicKeyPem : {k1}, signCount : {0} \cup Counters,
            epoch : Epochs, count : BatchSizes] :
        /\ (a.mode = "attestation") = (a.signCount = 0)
        /\ a.mode = "attestation" => a.count = 1}

\* A second device, for which the memory backend may have no room, and a key
\* that is not the one of the account.
MCInputs ==
    Usual \cup [device : {d1, d2}, mode : {"attestation"}, publicKeyPem : {k2},
                signCount : {0}, epoch : {0}, count : {1}]

\* The calls are interchangeable (used by runs without liveness only).
CallSymmetry == Permutations(Requests)
=============================================================================
