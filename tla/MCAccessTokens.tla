--------------------------- MODULE MCAccessTokens ----------------------------
(***************************************************************************)
(* Small instance of AccessTokens: two requests while two epochs pass.     *)
(* Key e + 1 signs in epoch e under a manifest, key 0 in every epoch       *)
(* without one: the keys of one are then unknown under the other.          *)
(***************************************************************************)
EXTENDS AccessTokens

MCKeyIds == 0 .. MaxEpoch + 1
MCKeyMaps == {[e \in Epochs |-> e + 1], [e \in Epochs |-> 0]}

Token(k, in, text, bytes, signer) ==
    [kind |-> "token", keyId |-> k, input |-> in, text |-> text,
     bytes |-> bytes, signer |-> signer]
Other(kind) ==
    [kind |-> kind, keyId |-> 0, input |-> Empty, text |-> Empty,
     bytes |-> Empty, signer |-> -1]

MCHeaders ==
    {Other("absent"), Other("secret"),
     Token(0, "in", "s0", "s0", 0),      \* signed with the legacy key
     Token(2, "in", "s2", "s2", 2),      \* with the key of epoch 1
     Token(2, "in", "s2+", "s2", 2),     \* the same, spelled differently
     Token(2, "forged", "s2", "s2", -1), \* its signature under another input
     Token(3, "in", "s2", "s2", 2),      \* and under another key
     Token(3, "in", "s3", "s3", 3),      \* with the key of epoch 2
     Token(2, Empty, "s4", "s4", 2)}     \* no input
MCSignatures == {"s0", "s2", "s2+", "s3", "s4"}
=============================================================================
