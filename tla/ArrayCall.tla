------------------------------- MODULE ArrayCall -------------------------------
(***************************************************************************)
(* What a call with array parameters promises the Java code that makes it, *)
(* without saying how: it happens in one step.  The function runs or it    *)
(* does not, and what it wrote is then in the arrays; pointers, copies,    *)
(* pinning and the order in which arrays come back are not to be seen.     *)
(*                                                                         *)
(* ArrayParams implements this specification.                              *)
(***************************************************************************)
EXTENDS Integers

CONSTANTS Zero, Garbage  \* a cleared byte, and one of uninitialised memory

VARIABLES
  args,    \* the parameters: the array, the bytes of it, and what was asked for
  java,    \* java[o]: the bytes of the array o
  outcome  \* "running", "normal" or "failed"

vars == <<args, java, outcome>>

Init == outcome = "running"

Copies == {i \in DOMAIN args : args[i].way = "copy"}
Pins   == {i \in DOMAIN args : args[i].way = "pin"}
Outs   == {i \in Copies : args[i].out}

Behind(i, o, b) == args[i].o = o /\ b \in args[i].bytes

\* What is in the copy of parameter i when the function that wrote through W
\* returns, at the byte that had the value v in Java.
Held(i, v, W) ==
  IF i \in W THEN i
  ELSE IF args[i].in THEN v
  ELSE IF args[i].clear THEN Zero ELSE Garbage

\* The byte of an array that the function reaches directly: the last write stays.
Through(o, b, v, W) ==
  LET by == {i \in W \cap Pins : Behind(i, o, b)}
  IN  IF by = {} THEN v ELSE CHOOSE i \in by : \A j \in by : j <= i

\* The arrays after the function wrote through W and the copies of the
\* parameters D came back: of those with a byte, the first parameter's stays.
After(old, W, D) ==
  [o \in DOMAIN old |-> [b \in DOMAIN old[o] |->
     LET by == {i \in D : Behind(i, o, b)}
     IN  IF by = {} THEN Through(o, b, old[o][b], W)
         ELSE Held(CHOOSE i \in by : \A j \in by : i <= j, old[o][b], W)]]

Ends(how, new) ==
  /\ outcome = "running"
  /\ outcome' = how
  /\ java' = new
  /\ UNCHANGED args

\* The function only runs when all the copies it reads could be made.
Runs(W) == W \subseteq Copies \cup Pins /\ \A i \in Copies : args[i].in => args[i].fits

\* The call fails before the function runs.
Refuse == Ends("failed", java)

\* The call returns, and every copy that was to come back has.
Return(W) ==
  /\ Runs(W)
  /\ \A i \in Outs : args[i].fits
  /\ Ends("normal", After(java, W, Outs))

\* A callback made by the function threw: nothing comes back.
Throw(W) == Runs(W) /\ Ends("failed", After(java, W, {}))

\* The copy of parameter k does not fit the array: those of later parameters
\* came back before that is found out, those of earlier ones do not.
Misfit(W, k) ==
  /\ Runs(W)
  /\ k \in Outs /\ ~args[k].fits
  /\ \A i \in Outs : i > k => args[i].fits
  /\ Ends("failed", After(java, W, {i \in Outs : i > k}))

Next ==
  \/ Refuse
  \/ \E W \in SUBSET (DOMAIN args) :
       Return(W) \/ Throw(W) \/ \E k \in DOMAIN args : Misfit(W, k)

Spec == Init /\ [][Next]_vars
================================================================================
