------------------------------ MODULE MCOpenRecord ------------------------------
(* Two snapshots of one principal, of which the second can only be         *)
(* published with the key that the first one brought.  Then the first      *)
(* publishes of another, with two keys: a snapshot that supersedes the     *)
(* second, with an archive that base64 does not give back, and a review of *)
(* the first, at any time after it.                                        *)
EXTENDS OpenRecord, TLC

CONSTANTS p1, p2, p3, p4, ann, bob, k1, k2, k3

R(route, signer, key, submits) ==
    [route |-> route, signer |-> signer, signs |-> key, submits |-> submits]

Requests ==
    p1 :> R("latest", ann, k1, TRUE) @@ p2 :> R("latest", ann, k1, FALSE) @@
    p3 :> R("latest", bob, k2, TRUE) @@ p4 :> R("caller", bob, k3, TRUE)

C(kind, of, kept) == [kind |-> kind, of |-> of, kept |-> kept]

Contents ==
    p1 :> C("snapshot", NoRow, TRUE) @@ p2 :> C("snapshot", NoRow, TRUE) @@
    p3 :> C("snapshot", p2, FALSE) @@ p4 :> C("review", p1, TRUE)
=============================================================================
