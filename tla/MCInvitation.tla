---------------------------- MODULE MCInvitation ----------------------------
(* Invitation on a small instance: everybody has an address of their own.  *)
EXTENDS Invitation, TLC

CONSTANTS o, a, b, author, commenter, q1, q2, q3, q4

MCEmailOf == [p \in {o, a, b} |-> p]

RequestSymmetry == Permutations(Requests)
=============================================================================
