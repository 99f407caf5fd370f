--------------------------- MODULE MCCallContextCache ---------------------------
(* Model values of CallContextCache for TLC. *)
EXTENDS CallContextCache, TLC

\* Identities of contexts, signatures, counts and threads are interchangeable.
Symmetry == Permutations(Contexts) \cup Permutations(Signatures)
              \cup Permutations(FixedCounts) \cup Permutations(Threads)
=============================================================================
