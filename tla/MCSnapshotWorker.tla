--------------------------- MODULE MCSnapshotWorker ---------------------------
(* One document, tabs of two browsers, and the ticks of the worker.        *)
EXTENDS SnapshotWorker, TLC

Symmetry == Permutations(Tabs) \cup Permutations(Browsers) \cup Permutations(Inputs)
              \cup Permutations(Ticks)
=============================================================================
