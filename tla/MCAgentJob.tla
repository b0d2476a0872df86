----------------------------- MODULE MCAgentJob -----------------------------
(* Instances of AgentJob for TLC. *)
EXTENDS AgentJob, TLC

\* The cancel requests differ in nothing but their name.
RequestSymmetry == Permutations(Requests)
=============================================================================
