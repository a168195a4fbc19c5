---------------------------- MODULE MCTokenIssuer ----------------------------
(***************************************************************************)
(* Small instance of TokenIssuer: a request beside a publication of the    *)
(* keys, over two rollovers of the epoch.                                  *)
(***************************************************************************)
EXTENDS TokenIssuer

MCInputs ==
    {a \in [device : Devices, mode : {"attestation", "assertion"},
            publicKeyPem : PublicKeys, signCount : {0, 1}, epoch : {0}, count : {1}] :
        (a.mode = "attestation") = (a.signCount = 0)}
=============================================================================
