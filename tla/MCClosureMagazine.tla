--------------------------- MODULE MCClosureMagazine ---------------------------
(* Every type as result and as both parameters, on the four machines. *)
EXTENDS ClosureMagazine, TLC

MCMachines == [be : BOOLEAN, addr : {4, 8}]
MCSignatures ==
  {[ret |-> t, params |-> <<t, t>>] : t \in {"i8", "i32", "i64", "f32", "f64", "ptr", "struct"}}
    \cup {[ret |-> "void", params |-> <<"ptr", "i8">>]}

MCSymmetry == Permutations(Threads) \cup Permutations(Magazines) \cup Permutations(Proxies)
=============================================================================
