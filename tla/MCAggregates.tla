----------------------------- MODULE MCAggregates -----------------------------
(* Model values of Aggregates for TLC. *)
EXTENDS Aggregates, TLC

\* One type of every size and alignment that decides a layout.
SmallTypes == "sint8" :> [size |-> 1, alignment |-> 1] @@ "sint32" :> [size |-> 4, alignment |-> 4]

\* Padding in the middle, at the end, and of a nested Aggregate.
SomeLists(objs) ==
  {<<>>, <<"sint8", "sint32", "sint8">>}
    \cup {<<o>> : o \in objs} \cup {<<"sint8", o>> : o \in objs}

Symmetry == Permutations(Threads) \cup Permutations(Arrays) \cup Permutations(Objs)
=============================================================================
