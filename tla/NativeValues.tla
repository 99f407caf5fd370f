----------------------------- MODULE NativeValues -----------------------------
(***************************************************************************)
(* Numbers as Java, C and libffi keep them in memory.                      *)
(*                                                                         *)
(* A byte is a symbol: <<kind, i, j>> is byte j, least significant first,  *)
(* of a number ("n"), an object's address ("o") or a result ("r"); byte    *)
(* Sign is what widening adds above a value's own width.  Zero is a byte   *)
(* of a new Java array, Unset one that nothing wrote.                      *)
(***************************************************************************)
EXTENDS Integers, Sequences

VARIABLE machine    \* [be, addr, cpu]: byte order, size of a pointer, processor

Size(m, t) == CASE t = "void" -> 1 [] t = "i8" -> 1 [] t \in {"i32", "f32"} -> 4
                [] t \in {"i64", "f64"} -> 8 [] t = "ptr" -> m.addr [] t = "struct" -> 12

\* The value x of width w, sign-extended to n bytes.
Sign == 8
Zero == <<"zero", 0, 0>>
Unset == <<"unset", 0, 0>>
Value(x, w, n) == [j \in 0..(n - 1) |-> Append(x, IF j < w THEN j ELSE Sign)]

\* A number in memory, and back: a big-endian machine keeps it reversed.
Order(n, num) == [k \in 0..(n - 1) |-> IF machine.be THEN num[n - 1 - k] ELSE num[k]]
Read(mem, at, n) == Order(n, [k \in 0..(n - 1) |-> mem[at + k]])

Store(mem, at, n, num) ==
  [a \in DOMAIN mem |-> IF a \in at..(at + n - 1) THEN Order(n, num)[a - at] ELSE mem[a]]

\* What the function gets for a struct: the memory at an address.
Memory(address) == [j \in DOMAIN address |-> Append(address[j], "memory")]
=============================================================================
