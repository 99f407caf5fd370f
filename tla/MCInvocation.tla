----------------------------- MODULE MCInvocation -----------------------------
\* Every machine the sources distinguish, every mixture of up to two
\* parameters, and up to six pointers of which any are objects.
EXTENDS Invocation

MCMachines ==
  {[be |-> FALSE, addr |-> 8, cpu |-> "x86_64"], [be |-> FALSE, addr |-> 4, cpu |-> "i386"],
   [be |-> FALSE, addr |-> 8, cpu |-> "other"], [be |-> TRUE, addr |-> 8, cpu |-> "other"],
   [be |-> TRUE, addr |-> 4, cpu |-> "other"]}

MCParams ==
  {[type |-> t, how |-> "value"] : t \in {"i8", "i32", "i64", "f32", "ptr", "struct"}}
    \cup {[type |-> "ptr", how |-> h] : h \in {"direct", "object"}}
    \cup {[type |-> "struct", how |-> "object"]}

MCPointers == {[type |-> "ptr", how |-> h] : h \in {"direct", "object"}}

MCSignatures ==
  {[ret |-> r, params |-> p] :
      r \in {"void", "i8", "i32", "i64", "f32", "ptr"},
      p \in UNION {[1..n -> MCParams] : n \in 0..2}}
    \cup {[ret |-> "i32", params |-> p] :
            p \in UNION {[1..n -> MCPointers] : n \in 3..6}}
    \cup {[ret |-> "i32", params |-> <<[type |-> "i32", how |-> "value"]>> \o p] :
            p \in UNION {[1..n -> MCPointers] : n \in 2..5}}
=============================================================================
