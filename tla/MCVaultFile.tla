------------------------------ MODULE MCVaultFile ------------------------------
(* Instances of VaultFile for TLC. *)
EXTENDS VaultFile, TLC

\* The writes of a channel differ in nothing but their name.
WriterSymmetry == Permutations(SidecarWriters)
=============================================================================
