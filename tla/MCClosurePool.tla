----------------------------- MODULE MCClosurePool -----------------------------
(* Model values of ClosurePool for TLC. *)
EXTENDS ClosurePool, TLC

\* Magazines, handles, holders, closures and threads are interchangeable identities.
Symmetry == Permutations(Magazines) \cup Permutations(Handles) \cup Permutations(Holders) \cup Permutations(Closures)
              \cup Permutations(Threads)
================================================================================
