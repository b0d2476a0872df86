------------------------------- MODULE MCQuota -------------------------------
(* Instances of Quota for TLC. *)
EXTENDS Quota, TLC

\* The callers differ in nothing but their name.
CallerSymmetry == Permutations(Callers)
=============================================================================
