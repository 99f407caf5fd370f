--------------------------- MODULE MCClosureManager ---------------------------
(* Model values of ClosureManager for TLC. *)
EXTENDS ClosureManager, TLC

Symmetry == Permutations(Threads) \cup Permutations(Contexts) \cup Permutations(Signatures)
              \cup Permutations(Pools) \cup Permutations(Magazines)
=============================================================================
