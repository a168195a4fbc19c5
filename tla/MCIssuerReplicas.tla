-------------------------- MODULE MCIssuerReplicas ---------------------------
(***************************************************************************)
(* Small instance of IssuerReplicas: three calls in two replicas, which may *)
(* be started with either of two salts.                                    *)
(***************************************************************************)
EXTENDS IssuerReplicas, TLC

CONSTANTS q1, q2, q3, p1, p2

MCHost == (q1 :> p1) @@ (q2 :> p1) @@ (q3 :> p2)

MCInputs ==
    {a \in [device : Devices, mode : {"attestation"}, publicKeyPem : PublicKeys,
            signCount : {0}, epoch : {0}, count : {1}] : TRUE}
=============================================================================
