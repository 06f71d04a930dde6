---------------------------- MODULE MCAtomicQueue ----------------------------
(* AtomicQueue on small sets of model values; the runs differ in their .cfg. *)
EXTENDS AtomicQueue, TLC

\* Addresses, and the threads on each side, are interchangeable.
Symmetry == Permutations(Nodes) \cup Permutations(Producers) \cup Permutations(Consumers)
==============================================================================
