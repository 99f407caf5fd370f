------------------------------ MODULE MCLibrary ------------------------------
\* Two threads, one name beside the default library, two Libraries.
EXTENDS Library, TLC
CONSTANTS t1, t2, l1, l2, a
MCSymmetry == Permutations(Threads) \cup Permutations(Libs)
=============================================================================
