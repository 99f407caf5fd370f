--------------------------- MODULE ArrayParamsProofs ---------------------------
(***************************************************************************)
(* Proofs about ArrayParams, for every list of parameters, every array and *)
(* every stack limit: the inductive invariant ArrayInv, and from it that   *)
(* the function is called with all of its pointers, that nothing stays     *)
(* pinned, and what JNI calls are made in a critical region; DeliveryInv,  *)
(* and from it what Java gets to see; and that ArrayParams implements      *)
(* ArrayCall.                                                              *)
(***************************************************************************)
EXTENDS ArrayParams, FiniteSetTheorems, TLAPS

\* A prefix of a sequence.
LEMMA Prefix ==
  ASSUME NEW S, NEW s \in Seq(S), NEW n \in Nat, n <= Len(s)
  PROVE  /\ SubSeq(s, 1, n) \in Seq(S)
         /\ Len(SubSeq(s, 1, n)) = n
         /\ \A k \in 1 .. n : SubSeq(s, 1, n)[k] = s[k]
OBVIOUS

\* One element more.
LEMMA AddLast ==
  ASSUME NEW S, NEW s \in Seq(S), NEW x \in S
  PROVE  LET r == Append(s, x) IN
         /\ Len(s) \in Nat /\ Len(r) = Len(s) + 1 /\ r[Len(s) + 1] = x
         /\ \A k \in 1 .. Len(s) : r[k] = s[k] /\ s[k] \in S
OBVIOUS

\* The array that the loop of jffi_releaseArrays has just dealt with is the last:
\* the others keep their place.
LEMMA DropLast ==
  ASSUME NEW S, NEW s \in Seq(S), Len(s) \in 1 .. Len(s)
  PROVE  LET r == SubSeq(s, 1, Len(s) - 1) \o SubSeq(s, Len(s) + 1, Len(s)) IN
         /\ r \in Seq(S)
         /\ Len(s) \in Nat \ {0}
         /\ Len(r) = Len(s) - 1
         /\ \A k \in 1 .. Len(r) : r[k] = s[k]
<1> DEFINE a == SubSeq(s, 1, Len(s) - 1)
           e == SubSeq(s, Len(s) + 1, Len(s))
<1>1. a \in Seq(S) /\ Len(a) = Len(s) - 1 /\ \A k \in 1 .. Len(a) : a[k] = s[k]
  <2>1. Len(s) - 1 \in Nat /\ Len(s) - 1 <= Len(s)
    OBVIOUS
  <2> QED
    BY <2>1, Prefix
<1>2. e \in Seq(S) /\ Len(e) = 0
  OBVIOUS
<1> HIDE DEF a, e
<1>3. a \o e \in Seq(S) /\ Len(a \o e) = Len(a) /\ \A k \in 1 .. Len(a) : (a \o e)[k] = a[k]
  BY <1>1, <1>2
<1> QED
  BY <1>1, <1>3 DEF a, e

\* Nothing is marshalled yet.
LEMMA InitInv == Init => ArrayInv
<1> SUFFICES ASSUME Init PROVE ArrayInv
  OBVIOUS
<1>1. params \in Seq(Params) /\ N \in Nat
  BY ArrayParamsAssumption DEF Init, N
<1>2. ptr \in [1 .. N -> [to : {"null", "stack", "heap", "pinned", "buffer", "jni"}, at : Nat]]
  BY DEF Init
<1>3. DOMAIN buf = 1 .. N /\ DOMAIN java = Objects
  BY DEF Init
<1>4. TypeOK
  <2>1. called \in BOOLEAN
    BY Zenon DEF Init
  <2>2. arrays \in Seq(1 .. N) /\ pins \in Seq(1 .. N) /\ next \in 1 .. N + 1
    BY <1>1 DEF Init
  <2> QED
    BY <1>1, <1>2, <1>3, <2>1, <2>2 DEF Init, TypeOK, Exceptions
<1> QED
  BY <1>1, <1>4 DEF Init, ArrayInv, PointerInv, PinInv, HeapInv

\* throwException followed by goto cleanup: nothing but pc and the exception
\* changes, and whatever was listed in arrays still is.
Throws(e) ==
  /\ pc \in {"marshal", "pin"}
  /\ Fail(e)
  /\ Jni("throw")
  /\ UNCHANGED <<params, next, arrays, pins, ptr, heap, held, buf, java, outcome>>

\* A failure keeps the invariant.
LEMMA ThrowsInv ==
  ASSUME ArrayInv, NEW e \in Exceptions \ {"none"}, Throws(e)
  PROVE  ArrayInv'
<1> USE DEF ArrayInv, Throws, Fail, Jni, outcome, N
<1>1. TypeOK'
  BY DEF TypeOK
<1>2. PointerInv' /\ PinInv' /\ HeapInv'
  BY DEF PointerInv, PinInv, HeapInv, Listed, Pinned
<1> QED
  BY <1>1, <1>2

\* A parameter that gets its pointer: array says whether an Array struct is used.
Passes(to, at, array) ==
  /\ Marshalling
  /\ Advance(to, at)
  /\ arrays' = IF array THEN Append(arrays, next) ELSE arrays
  /\ critical' = critical
  /\ UNCHANGED <<params, pins, held, outcome>>

\* A parameter that is not pinned keeps the invariant.
LEMMA PassesInv ==
  ASSUME ArrayInv,
         NEW to \in {"stack", "heap", "buffer", "jni"}, NEW at \in Nat, NEW array \in BOOLEAN,
         Passes(to, at, array),
         array => ~Pinned(params[next]),
         heap' = heap \/ (array /\ heap' = heap \cup {next}),
         DOMAIN buf' = 1 .. N, DOMAIN java' = Objects
  PROVE  ArrayInv'
<1> USE DEF ArrayInv, Passes, Marshalling, Advance, outcome, N
<1>1. next \in 1 .. N /\ N \in Nat
  BY DEF TypeOK
<1>2. /\ arrays \in Seq(1 .. N) /\ arrays' \in Seq(1 .. N)
      /\ Len(arrays') \in {Len(arrays), Len(arrays) + 1}
      /\ \A k \in 1 .. Len(arrays) : arrays'[k] = arrays[k]
      /\ array => Len(arrays') = Len(arrays) + 1 /\ arrays'[Len(arrays) + 1] = next
      /\ ~array => arrays' = arrays
  <2>1. CASE array
    BY <1>1, <2>1 DEF TypeOK
  <2>2. CASE ~array
    BY <1>1, <2>2 DEF TypeOK
  <2> QED
    BY <2>1, <2>2
<1>3. TypeOK'
  <2>1. ptr' \in [1 .. N -> [to : {"null", "stack", "heap", "pinned", "buffer", "jni"}, at : Nat]]
    BY DEF TypeOK
  <2>2. next' \in 1 .. N + 1 /\ pc' = pc /\ exception' = exception
    BY <1>1
  <2>3. heap' \subseteq 1 .. N
    BY <1>1 DEF TypeOK
  <2> QED
    BY <1>2, <2>1, <2>2, <2>3 DEF TypeOK
<1>4. PointerInv'
  <2>1. \A i \in 1 .. next : ptr'[i] = IF i = next THEN [to |-> to, at |-> at] ELSE ptr[i]
    BY <1>1 DEF TypeOK
  <2>2. ptr'[next].to # "null"
    BY <1>1, <2>1
  <2>3. \A i \in 1 .. next : ptr'[i].to # "null" \/ Listed(i, pins)
    BY <1>1, <2>1, <2>2 DEF PointerInv
  <2> QED
    BY <1>1, <2>3 DEF PointerInv
<1>5. \A i : Listed(i, arrays) => Listed(i, arrays')
  BY <1>2 DEF Listed
<1>6. \A k \in 1 .. Len(arrays') : ~Pinned(params'[arrays'[k]])
  BY <1>2 DEF PinInv, Pinned
<1>7. PinInv'
  BY <1>5, <1>6 DEF PinInv, Pinned
<1>8. HeapInv'
  <2>1. \A i \in heap : Listed(i, arrays')
    BY <1>5 DEF HeapInv
  <2>2. array => Listed(next, arrays')
    BY <1>2 DEF Listed
  <2> QED
    BY <2>1, <2>2 DEF HeapInv
<1> QED
  BY <1>3, <1>4, <1>7, <1>8

\* Offsets are natural numbers.
LEMMA StartNat == ASSUME NEW p \in Params, Category(p) = ARRAY PROVE Start(p) \in Nat
<1>1. PrimOf(p) \in 1 .. 8
  BY DEF Params, Category, PrimOf, Types, Prims, ARRAY, BUFFER, JNI, JNIENV, JNIOBJECT
<1>2. ElemSize(PrimOf(p)) \in Nat
  BY <1>1 DEF ElemSize
<1> QED
  BY <1>2 DEF Start, Params

\* Every way to marshal a parameter keeps the invariant.
LEMMA MarshalInv == ASSUME ArrayInv, Marshal PROVE ArrayInv'
<1> USE DEF Usable, Indexed, Marshalling
<1>a. ASSUME Marshalling PROVE P \in Params /\ P = params[next] /\ held = {}
  BY <1>a DEF P, ArrayInv, TypeOK, N, PinInv
<1>1. CASE MarshalBadIndex
  BY <1>1, ThrowsInv DEF MarshalBadIndex, Throws, Exceptions
<1>2. CASE MarshalNull
  BY <1>2, ThrowsInv DEF MarshalNull, Throws, Exceptions
<1>3. CASE MarshalNoMemory
  BY <1>3, ThrowsInv DEF MarshalNoMemory, Throws, Exceptions
<1>4. CASE MarshalNoAddress
  BY <1>4, ThrowsInv DEF MarshalNoAddress, Throws, Exceptions
<1>5. CASE MarshalPinned
  <2> USE <1>5 DEF MarshalPinned, Advance, P, ArrayInv, outcome, N
  <2>1. next \in 1 .. N /\ N \in Nat
    BY DEF TypeOK
  <2>2. /\ pins' \in Seq(1 .. N) /\ Len(pins') = Len(pins) + 1 /\ Len(pins) \in Nat
        /\ \A k \in 1 .. Len(pins) : pins'[k] = pins[k]
        /\ pins'[Len(pins) + 1] = next
    BY <2>1 DEF TypeOK
  <2>3. TypeOK'
    <3>1. ptr' \in [1 .. N -> [to : {"null", "stack", "heap", "pinned", "buffer", "jni"}, at : Nat]]
      BY DEF TypeOK
    <3> QED
      BY <2>1, <2>2, <3>1 DEF TypeOK
  <2>4. PointerInv'
    BY <2>1, <2>2 DEF PointerInv, TypeOK, Listed
  <2>5. PinInv' /\ HeapInv'
    BY <2>2 DEF PinInv, HeapInv, Pinned, Listed
  <2> QED
    BY <2>3, <2>4, <2>5
<1>6. CASE MarshalStack
  <2>1. Passes("stack", Start(P), TRUE)
    BY <1>6, <1>a DEF MarshalStack, Passes, Jni
  <2>2. Start(P) \in Nat /\ ~Pinned(params[next])
    BY <1>6, <1>a, StartNat DEF MarshalStack, OnStack
  <2> QED
    BY <1>6, <2>1, <2>2, PassesInv DEF MarshalStack, ArrayInv, TypeOK
<1>7. CASE MarshalHeap
  <2>1. Passes("heap", Start(P), TRUE)
    BY <1>7, <1>a DEF MarshalHeap, Passes, Jni
  <2>2. Start(P) \in Nat /\ ~Pinned(params[next])
    BY <1>7, <1>a, StartNat DEF MarshalHeap, OnHeap
  <2> QED
    BY <1>7, <2>1, <2>2, PassesInv DEF MarshalHeap, ArrayInv, TypeOK
<1>8. CASE MarshalOutOfRange
  <2> USE <1>8 DEF MarshalOutOfRange, Fail, Jni, ArrayInv, outcome, N
  <2>1. TypeOK'
    BY <1>a DEF TypeOK, Exceptions
  <2>2. PointerInv' /\ PinInv' /\ HeapInv'
    BY <1>a DEF PointerInv, PinInv, HeapInv, Listed, Pinned
  <2> QED
    BY <2>1, <2>2
<1>9. CASE MarshalCrash
  <2> USE <1>9 DEF MarshalCrash, ArrayInv, outcome, N
  <2>1. TypeOK'
    BY DEF TypeOK
  <2>2. PointerInv' /\ PinInv' /\ HeapInv'
    BY DEF PointerInv, PinInv, HeapInv, Listed, Pinned
  <2> QED
    BY <2>1, <2>2
<1>10. CASE MarshalBuffer
  <2>1. Passes("buffer", P.offset, FALSE) /\ P.offset \in Nat
    BY <1>10, <1>a DEF MarshalBuffer, Passes, Jni, Params
  <2> QED
    BY <1>10, <2>1, PassesInv DEF MarshalBuffer, ArrayInv, TypeOK
<1>11. CASE MarshalOther
  <2>1. CASE JniAccepts(P)
    <3>1. Passes("jni", 0, FALSE)
      BY <1>11, <2>1 DEF MarshalOther, Passes
    <3> QED
      BY <1>11, <3>1, PassesInv DEF MarshalOther, ArrayInv, TypeOK
  <2>2. CASE ~JniAccepts(P)
    BY <1>11, <2>2, ThrowsInv DEF MarshalOther, Throws, Exceptions
  <2> QED
    BY <2>1, <2>2
<1>12. CASE MarshalDone
  <2> USE <1>12 DEF MarshalDone, ArrayInv, outcome, N
  <2>1. TypeOK'
    BY DEF TypeOK
  <2>2. PointerInv' /\ PinInv' /\ HeapInv'
    <3>1. \A i \in 1 .. N : ptr[i].to # "null" \/ Listed(i, pins)
      BY DEF TypeOK, PointerInv
    <3> QED
      BY <3>1 DEF TypeOK, PointerInv, PinInv, HeapInv, Listed, Pinned
  <2> QED
    BY <2>1, <2>2
<1> QED
  BY <1>1, <1>2, <1>3, <1>4, <1>5, <1>6, <1>7, <1>8, <1>9, <1>10, <1>11, <1>12 DEF Marshal

\* The recorded arrays are appended last to arrays.
LEMMA PinningInv == ASSUME ArrayInv, Pin \/ PinFails \/ PinDone PROVE ArrayInv'
<1>1. CASE Pin
  <2> USE <1>1 DEF Pin, PinnedAt, ArrayInv, outcome, N
  <2> DEFINE i == pins[next]
  <2>1. /\ N \in Nat /\ next \in 1 .. Len(pins) /\ i \in 1 .. N
        /\ Pinned(params[i]) /\ params[i] \in Params
    BY DEF TypeOK, PinInv
  <2>2. /\ arrays' \in Seq(1 .. N) /\ Len(arrays') = Len(arrays) + 1 /\ Len(arrays) \in Nat
        /\ \A k \in 1 .. Len(arrays) : arrays'[k] = arrays[k]
        /\ arrays'[Len(arrays) + 1] = i
    BY <2>1 DEF TypeOK
  <2>3. TypeOK'
    <3>1. ptr' \in [1 .. N -> [to : {"null", "stack", "heap", "pinned", "buffer", "jni"}, at : Nat]]
      BY <2>1 DEF TypeOK, Params
    <3>2. Len(pins) \in Nat /\ Len(pins) <= N
      BY DEF TypeOK, PointerInv
    <3>3. next' \in 1 .. N + 1
      BY <2>1, <3>2
    <3>4. held' \subseteq 1 .. N
      BY <2>1 DEF TypeOK
    <3> QED
      BY <2>1, <2>2, <3>1, <3>3, <3>4 DEF TypeOK
  <2>4. PointerInv'
    BY <2>1 DEF PointerInv, TypeOK
  <2>5. PinInv'
    <3>0. /\ PinInv /\ pc' = "pin" /\ pc = "pin" /\ held' = held \cup {i}
          /\ UNCHANGED <<params, pins, critical, called, exception>>
      OBVIOUS
    <3> HIDE DEF Pin, ArrayInv, i
    <3>1. \A k \in 1 .. Len(arrays) + 1 : k \in 1 .. Len(arrays) \/ k = Len(arrays) + 1
      BY <2>2
    <3>2. \A k \in 1 .. Len(arrays') : Pinned(params[arrays'[k]]) =>
             \A m \in k .. Len(arrays') : Pinned(params[arrays'[m]])
      <4> SUFFICES ASSUME NEW k \in 1 .. Len(arrays'), Pinned(params[arrays'[k]]),
                          NEW m \in k .. Len(arrays'), m # Len(arrays) + 1
                   PROVE  Pinned(params[arrays'[m]])
        BY <2>1, <2>2, <3>0
      <4>1. k \in 1 .. Len(arrays) /\ m \in k .. Len(arrays) /\ m \in 1 .. Len(arrays)
        BY <2>2
      <4>2. arrays'[k] = arrays[k] /\ arrays'[m] = arrays[m]
        BY <2>2, <4>1
      <4> QED BY <3>0, <4>1, <4>2 DEF PinInv
    <3>3. \A j \in held' : Pinned(params[j]) /\ Listed(j, arrays')
      <4>1. i = arrays'[Len(arrays) + 1] /\ Len(arrays) + 1 \in 1 .. Len(arrays')
        BY <2>2
      <4>2. \A j \in held : Listed(j, arrays')
        BY <2>2, <3>0 DEF PinInv, Listed
      <4> QED BY <2>1, <3>0, <4>1, <4>2 DEF PinInv, Listed
    <3> QED BY <3>0, <3>2, <3>3 DEF PinInv, Pinned, Listed
  <2>6. HeapInv'
    BY <2>2 DEF HeapInv, Listed
  <2> QED
    BY <2>3, <2>4, <2>5, <2>6
<1>2. CASE PinFails
  BY <1>2, ThrowsInv DEF PinFails, Throws, Exceptions
<1>3. CASE PinDone
  <2> USE <1>3 DEF PinDone, ArrayInv, outcome, N
  <2>1. TypeOK'
    BY DEF TypeOK
  <2>2. PointerInv' /\ PinInv' /\ HeapInv'
    BY DEF TypeOK, PointerInv, PinInv, HeapInv, Listed, Pinned
  <2> QED
    BY <2>1, <2>2
<1> QED
  BY <1>1, <1>2, <1>3

\* The function changes the contents of arrays only.
LEMMA CallInv ==
  ASSUME ArrayInv, NEW W \in SUBSET (1 .. N), NEW throws \in BOOLEAN, Call(W, throws)
  PROVE  ArrayInv'
<1> USE DEF Call, ArrayInv, outcome, N
<1>1. TypeOK'
  BY DEF TypeOK, Exceptions
<1>2. PointerInv' /\ PinInv' /\ HeapInv'
  BY DEF PointerInv, PinInv, HeapInv, Listed, Pinned
<1> QED
  BY <1>1, <1>2

\* Arrays are released from the last: while one is pinned, the last is, and no
\* copy is made.
LEMMA ReleaseInv == ASSUME ArrayInv, Release \/ ReleaseCrash \/ Return PROVE ArrayInv'
<1>1. CASE Release
  <2> USE <1>1 DEF Release, ReleaseArray, Jni, ArrayInv, outcome, N
  <2> DEFINE i == arrays[Len(arrays)]
  <2>1. /\ arrays' \in Seq(1 .. N) /\ Len(arrays') = Len(arrays) - 1
        /\ Len(arrays) \in Nat \ {0}
        /\ \A k \in 1 .. Len(arrays') : arrays'[k] = arrays[k]
    <3>1. Len(arrays) \in 1 .. Len(arrays) /\ arrays \in Seq(1 .. N)
      BY DEF TypeOK
    <3>2. arrays' = SubSeq(arrays, 1, Len(arrays) - 1) \o SubSeq(arrays, Len(arrays) + 1, Len(arrays))
      OBVIOUS
    <3> HIDE DEF Release, ReleaseArray, Jni, ArrayInv, outcome
    <3> QED
      BY <3>1, <3>2, DropLast
  <2>2. TypeOK'
    BY <2>1 DEF TypeOK, CopiesOut, Exceptions
  <2>3. PointerInv'
    BY DEF PointerInv
  <2>4. \A j : Listed(j, arrays) /\ j # i => Listed(j, arrays')
    BY <2>1 DEF Listed
  <2>5. held # {} => Pinned(params[i])
    BY <2>1 DEF PinInv, Listed
  <2>6. critical' = critical
    BY <2>5 DEF PinInv, CopiesOut
  <2>6a. exception # "none" => exception' # "none"
    BY DEF CopiesOut
  <2>7. PinInv'
    <3>1. critical' \subseteq {"throw"} /\ (critical' # {} => ~called' /\ exception' # "none")
      BY <2>6, <2>6a DEF PinInv
    <3>2. pc' = "release" /\ params' = params /\ pins' = pins /\ held' = held \ {i}
      OBVIOUS
    <3>3. \A k \in 1 .. Len(pins) : Pinned(params[pins[k]])
      BY DEF PinInv
    <3>4. ASSUME NEW k \in 1 .. Len(arrays'), Pinned(params'[arrays'[k]]),
                 NEW l \in k .. Len(arrays')
          PROVE  Pinned(params'[arrays'[l]])
      <4>1. k \in 1 .. Len(arrays) /\ l \in k .. Len(arrays) /\ l \in 1 .. Len(arrays')
        BY <2>1
      <4>2. Pinned(params[arrays[k]])
        BY <2>1, <3>4
      <4>3. \A m \in k .. Len(arrays) : Pinned(params[arrays[m]])
        BY <4>1, <4>2 DEF PinInv
      <4> QED
        BY <2>1, <4>1, <4>3
    <3>5. \A j \in held \ {i} : Pinned(params[j]) /\ Listed(j, arrays')
      BY <2>4 DEF PinInv
    <3>6. /\ \A k \in 1 .. Len(pins') : Pinned(params'[pins'[k]])
          /\ \A j \in held' : Pinned(params'[j]) /\ Listed(j, arrays')
      BY <3>2, <3>3, <3>5
    <3>7. pc' # "marshal"
      BY <3>2
    <3> QED
      BY ONLY <3>1, <3>4, <3>6, <3>7 DEF PinInv, Pinned, Listed
  <2>8. HeapInv'
    BY <2>4 DEF HeapInv, CopiesOut
  <2> QED
    BY <2>2, <2>3, <2>7, <2>8
<1>2. CASE ReleaseCrash
  <2> USE <1>2 DEF ReleaseCrash, ArrayInv, outcome, N
  <2>1. TypeOK'
    BY DEF TypeOK
  <2>2. PointerInv' /\ PinInv' /\ HeapInv'
    BY DEF PointerInv, PinInv, HeapInv, Listed, Pinned, CopiesOut
  <2> QED
    BY <2>1, <2>2
<1>3. CASE Return
  <2> USE <1>3 DEF Return, ArrayInv, outcome, N
  <2>1. TypeOK'
    BY DEF TypeOK
  <2>2. PointerInv' /\ PinInv' /\ HeapInv'
    BY DEF PointerInv, PinInv, HeapInv, Listed, Pinned
  <2> QED
    BY <2>1, <2>2
<1> QED
  BY <1>1, <1>2, <1>3

\* Steps that change nothing.
LEMMA StutterInv == ASSUME ArrayInv, UNCHANGED vars PROVE ArrayInv'
BY DEF ArrayInv, TypeOK, PointerInv, PinInv, HeapInv, vars, N, Listed, Pinned

\* ArrayInv is an invariant of every call, whichever step of it fails.
THEOREM ArrayInvariance == Spec => []ArrayInv
<1>1. ArrayInv /\ [Next]_vars => ArrayInv'
  BY MarshalInv, PinningInv, CallInv, ReleaseInv, StutterInv DEF Next
<1> QED
  BY <1>1, InitInv, PTL DEF Spec

\* The native function is only called with no exception pending and a pointer
\* for every object parameter.
THEOREM CalledReady == Spec => []ReadyToCall
<1>1. ArrayInv => ReadyToCall
  BY DEF ArrayInv, PointerInv, ReadyToCall
<1> QED
  BY <1>1, ArrayInvariance, PTL

\* No array stays pinned after the call, and a heap copy is left only by a copy
\* that threw, before the function was called.
THEOREM BackingBalanced == Spec => []Balanced
<1>1. ArrayInv => Balanced
  BY DEF ArrayInv, PinInv, HeapInv, Balanced, Listed
<1> QED
  BY <1>1, ArrayInvariance, PTL

\* The only JNI calls made with an array pinned are those that report that another
\* could not be, and the function is not called after them.
THEOREM CriticalRegionQuiet == Spec => []JniOnlyAfterFailedPin
<1>1. ArrayInv => JniOnlyAfterFailedPin
  BY DEF ArrayInv, PinInv, JniOnlyAfterFailedPin
<1> QED
  BY <1>1, ArrayInvariance, PTL
(***************************************************************************)
(* What Java gets to see: DeliveryInv is inductive on top of ArrayInv.     *)
(***************************************************************************)
\* Every set of natural numbers has a least element: n is less than m where
\* 1 .. n is a proper subset of 1 .. m, and proper subsets are well-founded.
LEMMA Least ==
  ASSUME NEW T \in SUBSET Nat, T # {}
  PROVE  \E x \in T : \A y \in T : x <= y
<1> DEFINE R == StrictSubsetOrdering(Nat)
           F == FiniteSubsetsOf(Nat)
           I == {1 .. x : x \in T}
<1>1. IsWellFoundedOn(R, F)
  BY FS_StrictSubsetOrderingWellFounded
<1>2. \A x \in Nat : 1 .. x \in F
  <2>1. ASSUME NEW x \in Nat PROVE 1 .. x \in SUBSET Nat /\ IsFiniteSet(1 .. x)
    BY FS_Interval
  <2> QED BY <2>1 DEF FiniteSubsetsOf
<1>3. I \subseteq F /\ I # {}
  BY <1>2
<1>4. PICK m \in I : \A y \in I : <<y, m>> \notin R
  <2> HIDE DEF R, F, I
  <2> QED BY <1>1, <1>3, WFMin
<1>5. PICK x \in T : m = 1 .. x
  OBVIOUS
<1>6. ASSUME NEW y \in T, y < x PROVE FALSE
  <2>1. 1 .. y \in I /\ 1 .. y \in SUBSET Nat /\ 1 .. x \in SUBSET Nat
    BY <1>6
  <2>2. x \in 1 .. x /\ x \notin 1 .. y
    BY <1>6
  <2>3. 1 .. y \subseteq 1 .. x /\ 1 .. y # 1 .. x
    BY <1>6, <2>2
  <2>4. <<1 .. y, 1 .. x>> \in R
    BY <2>1, <2>3 DEF StrictSubsetOrdering
  <2> QED BY <2>1, <2>4, <1>4, <1>5
<1> QED BY <1>6

\* And a set of numbers up to n has a greatest one.
LEMMA Greatest ==
  ASSUME NEW n \in Nat, NEW T \in SUBSET (1 .. n), T # {}
  PROVE  \E x \in T : \A y \in T : y <= x
<1> DEFINE D == {n - x : x \in T}
<1>1. \A x \in T : n - x \in Nat
  OBVIOUS
<1>2. D \in SUBSET Nat /\ D # {}
  BY <1>1
<1>3. PICK d \in D : \A y \in D : d <= y
  <2> HIDE DEF D
  <2> QED BY <1>2, Least
<1>4. PICK x \in T : d = n - x
  OBVIOUS
<1>5. ASSUME NEW y \in T PROVE y <= x
  <2>1. n - y \in D
    OBVIOUS
  <2> QED BY <2>1, <1>3, <1>4
<1> QED BY <1>5

\* Sizes of the primitive types of Java.
LEMMA ElemSizes == ASSUME NEW t \in 1 .. 8 PROVE ElemSize(t) \in {1, 2, 4, 8}
<1>1. CASE t = 1 \/ t = 2 \/ t = 3 \/ t = 4
  BY <1>1 DEF ElemSize
<1>2. CASE t = 5 \/ t = 6 \/ t = 7 \/ t = 8
  BY <1>2 DEF ElemSize
<1> QED BY <1>1, <1>2

\* The bytes of a parameter: Get and Set<Type>ArrayRegion stay inside the array.
LEMMA RegionBytes ==
  ASSUME NEW p \in Params, Category(p) = ARRAY
  PROVE  /\ Size(p) \in Nat /\ Start(p) \in Nat
         /\ \A b \in Region(p) : b - Start(p) \in 0 .. Size(p) - 1
         /\ InRange(p) /\ PrimOf(p) = Prim[p.o] => Region(p) \subseteq Bytes(p.o)
<1>1. PrimOf(p) \in 1 .. 8
  BY DEF Params, Category, PrimOf, Types, Prims, ARRAY, BUFFER, JNI, JNIENV, JNIOBJECT
<1> USE ArrayParamsAssumption
<1>2. p.offset \in Nat /\ p.length \in Nat /\ p.o \in Objects /\ Length[p.o] \in Nat
  BY DEF Params
<1> DEFINE e == ElemSize(PrimOf(p))
<1>3. e \in {1, 2, 4, 8}
  BY <1>1, ElemSizes
<1>4. Size(p) = p.length * e /\ Start(p) = p.offset * e
  BY DEF Size, Start
<1> HIDE DEF e
<1>5. Size(p) \in Nat /\ Start(p) \in Nat
  <2>1. \A n \in Nat : n * e \in Nat
    BY <1>3
  <2> QED BY <1>2, <1>4, <2>1
<1>6. \A b \in Region(p) : b - Start(p) \in 0 .. Size(p) - 1
  BY <1>5 DEF Region
<1>7. ASSUME InRange(p), PrimOf(p) = Prim[p.o] PROVE Region(p) \subseteq Bytes(p.o)
  <2>1. p.offset + p.length <= Length[p.o]
    BY <1>7 DEF InRange
  <2>2. Start(p) + Size(p) <= e * Length[p.o] /\ e * Length[p.o] \in Nat
    <3>1. \A m, n, k \in Nat : m + n <= k => m * e + n * e <= e * k /\ e * k \in Nat
      BY <1>3
    <3> QED BY <1>2, <1>4, <2>1, <3>1
  <2>3. Bytes(p.o) = 0 .. e * Length[p.o] - 1
    BY <1>7 DEF Bytes, e
  <2> QED BY <1>5, <2>2, <2>3 DEF Region
<1> QED BY <1>5, <1>6, <1>7

\* The parameters have the types of their arrays.
LEMMA ParamType ==
  ASSUME ArrayInv, DeliveryInv, NEW i \in 1 .. N
  PROVE  /\ params[i] \in Params /\ params[i].o \in Objects
         /\ Category(params[i]) = ARRAY => PrimOf(params[i]) = Prim[params[i].o]
<1>1. params \in ParamLists /\ params \in Seq(Params) /\ i \in 1 .. Len(params)
  BY DEF DeliveryInv, ArrayInv, TypeOK, N
<1>2. params[i] \in Params
  BY <1>1
<1> QED BY <1>1, <1>2, ArrayTypeAssumption DEF Params

\* No array was copied yet.
LEMMA InitDelivery == Init => DeliveryInv
<1> SUFFICES ASSUME Init PROVE DeliveryInv
  OBVIOUS
<1>1. \A i \in 1 .. N : ptr[i].to = "null"
  BY DEF Init
<1>2. \A o \in Objects : \A b \in Bytes(o) : java[o][b] = FromJava
  BY DEF Init
<1> QED BY <1>1, <1>2 DEF Init, DeliveryInv, OrderInv, ContentInv, Copied, Released,
        GarbageOnlyFromUncleared, Garbage, FromJava

\* A step that touches no pointer, array or byte.
LEMMA QuietDelivery ==
  ASSUME DeliveryInv,
         UNCHANGED <<params, arrays, ptr, buf, java, called, wrote>>,
         pc' = "marshal" => FALSE,
         pc' \in {"pin", "call"} => pc \in {"marshal", "pin", "call"},
         pc' \in {"release", "returned"} /\ ~called => exception' # "none",
         exception' \in {"none", "Callback"} => exception' = exception
  PROVE  DeliveryInv'
<1> USE DEF DeliveryInv
<1>1. Copied' = Copied /\ Released' = Released
  BY DEF Copied, Released, N, Listed
<1>2. OrderInv'
  BY <1>1 DEF OrderInv, N, Pinned, Category
<1>3. \A i : CopiedOut(i)' <=> CopiedOut(i)
  BY <1>1 DEF CopiedOut, Region, Start, Size, PrimOf, Bytes, IsOut
<1>4. ContentInv'
  BY <1>1, <1>3 DEF ContentInv, Size, PrimOf, IsIn, IsOut, Pinned, GarbageOnlyFromUncleared, N
<1> QED BY <1>2, <1>4

\* A parameter that is recorded for pinning or that gets a pointer of its own.
LEMMA PassDelivery ==
  ASSUME ArrayInv, DeliveryInv, Marshalling, NEW to \in {"null", "buffer", "jni"}, NEW at \in Nat,
         Advance(to, at), arrays' = arrays,
         UNCHANGED <<params, buf, java, outcome>>
  PROVE  DeliveryInv'
<1> USE DEF DeliveryInv, Marshalling, Advance, outcome
<1>1. /\ next \in 1 .. N /\ N \in Nat /\ N' = N
      /\ ptr'[next].to = to
      /\ \A i \in 1 .. N : i # next => ptr'[i] = ptr[i]
      /\ ptr[next].to = "null"
      /\ pc' = pc /\ exception' = exception /\ next' = next + 1
  <2>1. next \in 1 .. N /\ N \in Nat /\ N' = N
    BY DEF ArrayInv, TypeOK, N
  <2> QED BY <2>1 DEF ArrayInv, TypeOK, OrderInv
<1>2. Copied' = Copied /\ Released' = Released
  BY <1>1 DEF Copied, Released, Listed
<1>3. OrderInv'
  BY <1>1, <1>2 DEF OrderInv, Pinned, Category
<1>4. \A i : CopiedOut(i)' <=> CopiedOut(i)
  BY <1>2 DEF CopiedOut, Region, Start, Size, PrimOf, Bytes, IsOut
<1>5. ContentInv'
  BY <1>1, <1>2, <1>4 DEF ContentInv, Size, PrimOf, IsIn, IsOut, Pinned, GarbageOnlyFromUncleared
<1> QED BY <1>3, <1>5

\* An array that is copied: what it gets from Java has not been written to yet.
LEMMA CopyDelivery ==
  ASSUME ArrayInv, DeliveryInv, Marshalling, NEW to \in {"stack", "heap"}, NEW at \in Nat,
         Advance(to, at), arrays' = Append(arrays, next),
         Category(P) = ARRAY, ~Pinned(P), ~CopyInFails(P),
         buf' = [buf EXCEPT ![next] = CopyIn(P)],
         UNCHANGED <<params, java, outcome>>
  PROVE  DeliveryInv'
<1> USE DEF DeliveryInv, Marshalling, Advance, outcome
<1>1. /\ next \in 1 .. N /\ N \in Nat /\ N' = N /\ P = params[next]
      /\ ptr'[next].to = to
      /\ \A i \in 1 .. N : i # next => ptr'[i] = ptr[i] /\ buf'[i] = buf[i]
      /\ buf'[next] = CopyIn(P)
      /\ ptr[next].to = "null"
      /\ pc' = "marshal" /\ exception' = exception /\ next' = next + 1
      /\ ~called /\ wrote = {}
  <2>1. next \in 1 .. N /\ N \in Nat /\ N' = N /\ P = params[next]
    BY DEF ArrayInv, TypeOK, N, P
  <2> QED BY <2>1 DEF ArrayInv, TypeOK, OrderInv, ContentInv
<1>2. Copied' = Copied \cup {next} /\ next \notin Copied
  BY <1>1 DEF Copied
<1>3. /\ arrays \in Seq(1 .. N) /\ Len(arrays) \in Nat
      /\ Len(arrays') = Len(arrays) + 1 /\ arrays'[Len(arrays) + 1] = next
      /\ \A k \in 1 .. Len(arrays) : arrays'[k] = arrays[k] /\ arrays[k] \in 1 .. N
  <2>1. arrays \in Seq(1 .. N) /\ next \in 1 .. N /\ arrays' = Append(arrays, next)
    BY <1>1 DEF ArrayInv, TypeOK
  <2> DEFINE S == 1 .. N
  <2>2. arrays \in Seq(S) /\ next \in S
    BY <2>1
  <2> HIDE DEF DeliveryInv, Marshalling, Advance, outcome, S
  <2>3. /\ Len(arrays) \in Nat /\ Len(Append(arrays, next)) = Len(arrays) + 1
        /\ Append(arrays, next)[Len(arrays) + 1] = next
        /\ \A k \in 1 .. Len(arrays) : Append(arrays, next)[k] = arrays[k] /\ arrays[k] \in S
    BY <2>2, AddLast
  <2> QED BY <2>1, <2>3 DEF S
<1>4. \A k \in 1 .. Len(arrays) : arrays[k] \in Copied /\ arrays[k] < next
  <2> SUFFICES ASSUME NEW k \in 1 .. Len(arrays) PROVE arrays[k] \in Copied /\ arrays[k] < next
    OBVIOUS
  <2>1. arrays[k] \in Copied
    BY DEF ArrayInv, PinInv, OrderInv
  <2> QED BY <1>1, <1>3, <2>1 DEF OrderInv, Copied
<1>5. Released' = {}
  BY <1>1, <1>2, <1>3 DEF Released, Listed, OrderInv
<1>6. OrderInv'
  <2>1. \A i \in Copied' : Category(params'[i]) = ARRAY /\ ~Pinned(params'[i])
    BY <1>1, <1>2 DEF OrderInv
  <2>2. \A i \in 1 .. N : ptr'[i].to = "pinned" => Pinned(params'[i])
    BY <1>1 DEF OrderInv
  <2>3. \A k \in 1 .. Len(arrays') : arrays'[k] \in Copied'
    BY <1>2, <1>3, <1>4
  <2>4. \A k, l \in 1 .. Len(arrays') : k < l => arrays'[k] < arrays'[l]
    <3> SUFFICES ASSUME NEW k \in 1 .. Len(arrays'), NEW l \in 1 .. Len(arrays'), k < l
                 PROVE  arrays'[k] < arrays'[l]
      OBVIOUS
    <3>0. Len(arrays) \in Nat /\ Len(arrays') = Len(arrays) + 1
      BY <1>3
    <3>1. k \in 1 .. Len(arrays) /\ (l \in 1 .. Len(arrays) \/ l = Len(arrays) + 1)
      BY <3>0
    <3> QED BY <1>3, <1>4, <3>1 DEF OrderInv
  <2>5. \A i \in 1 .. N : i >= next' => ptr'[i].to = "null"
    BY <1>1 DEF OrderInv
  <2> QED BY <1>1, <1>5, <2>1, <2>2, <2>3, <2>4, <2>5 DEF OrderInv, Pinned, Category
<1>7. \A b \in 0 .. Size(P) - 1 :
        CopyIn(P)[b] = Garbage => ~IsIn(P) /\ "CLEAR" \notin P.flags
  <2> SUFFICES ASSUME NEW b \in 0 .. Size(P) - 1, CopyIn(P)[b] = Garbage
               PROVE  ~IsIn(P) /\ "CLEAR" \notin P.flags
    OBVIOUS
  <2>1. P \in Params /\ P.o \in Objects /\ PrimOf(P) = Prim[P.o]
    BY <1>1, ParamType
  <2>2. ASSUME IsIn(P) PROVE Start(P) + b \in Bytes(P.o)
    <3>1. InRange(P)
      BY <2>2 DEF CopyInFails
    <3>2. Size(P) \in Nat /\ Start(P) \in Nat /\ Region(P) \subseteq Bytes(P.o)
      BY <2>1, <3>1, RegionBytes
    <3> QED BY <3>2 DEF Region
  <2>3. IsIn(P) => java[P.o][Start(P) + b] = FromJava
    BY <1>1, <2>1, <2>2 DEF ContentInv
  <2> QED BY <2>3 DEF CopyIn, Garbage, FromJava, Zero
<1>8. ContentInv'
  <2>1. \A i \in Copied' : \A b \in 0 .. Size(params[i]) - 1 :
          buf'[i][b] = Garbage => ~IsIn(params[i]) /\ "CLEAR" \notin params[i].flags
    BY <1>1, <1>2, <1>7 DEF ContentInv, Copied
  <2> QED BY <1>1, <1>5, <2>1 DEF ContentInv, Size, PrimOf, IsIn, IsOut, Pinned,
          GarbageOnlyFromUncleared
<1> QED BY <1>6, <1>8

\* The next parameter is copied, pinned or put on the list to be pinned.
LEMMA MarshalDelivery == ASSUME ArrayInv, DeliveryInv, Marshal PROVE DeliveryInv'
<1> USE DEF Usable, Indexed, outcome
<1>1. CASE MarshalBadIndex \/ MarshalNull \/ MarshalNoMemory \/ MarshalNoAddress
             \/ MarshalOutOfRange \/ MarshalCrash \/ MarshalDone
  BY <1>1, QuietDelivery DEF MarshalBadIndex, MarshalNull, MarshalNoMemory, MarshalNoAddress,
     MarshalOutOfRange, MarshalCrash, MarshalDone, Fail, Marshalling
<1>2. CASE MarshalPinned
  BY <1>2, PassDelivery DEF MarshalPinned
<1>3. CASE MarshalBuffer
  <2>1. Marshalling
    BY <1>3 DEF MarshalBuffer
  <2>2. P \in Params
    BY <2>1 DEF Marshalling, P, ArrayInv, TypeOK, N
  <2>3. P.offset \in Nat
    BY <2>2 DEF Params
  <2> QED BY <1>3, <2>1, <2>3, PassDelivery DEF MarshalBuffer
<1>4. CASE MarshalOther
  <2>1. CASE JniAccepts(P)
    BY <1>4, <2>1, PassDelivery DEF MarshalOther
  <2>2. CASE ~JniAccepts(P)
    <3>1. UNCHANGED <<params, arrays, ptr, buf, java, called, wrote>>
      BY <1>4, <2>2 DEF MarshalOther
    <3>2. pc' = "release" /\ exception' = "IllegalArgument"
      BY <1>4, <2>2 DEF MarshalOther, Fail
    <3> QED BY <3>1, <3>2, QuietDelivery
  <2> QED BY <2>1, <2>2
<1>5. CASE MarshalStack \/ MarshalHeap
  <2>1. Marshalling /\ Category(P) = ARRAY /\ ~Pinned(P)
    BY <1>5 DEF MarshalStack, MarshalHeap, OnStack, OnHeap
  <2>2. Start(P) \in Nat
    BY <2>1, StartNat DEF Marshalling, P, ArrayInv, TypeOK, N
  <2> QED BY <1>5, <2>1, <2>2, CopyDelivery DEF MarshalStack, MarshalHeap
<1> QED BY <1>1, <1>2, <1>3, <1>4, <1>5 DEF Marshal

\* Pinned arrays are no copies, and are listed after them.
LEMMA PinDelivery == ASSUME ArrayInv, DeliveryInv, Pin PROVE DeliveryInv'
<1> USE DEF DeliveryInv, Pin, outcome
<1> DEFINE i == pins[next]
<1>1. i \in 1 .. N /\ Pinned(params[i]) /\ N \in Nat /\ N' = N
  BY DEF ArrayInv, TypeOK, PinInv, N
<1>2. /\ ptr'[i].to = "pinned"
      /\ \A j \in 1 .. N : j # i => ptr'[j] = ptr[j]
  BY <1>1 DEF ArrayInv, TypeOK
<1>3. Copied' = Copied /\ i \notin Copied
  BY <1>1, <1>2 DEF Copied, OrderInv
<1>4. /\ arrays \in Seq(1 .. N) /\ Len(arrays) \in Nat
      /\ Len(arrays') = Len(arrays) + 1 /\ arrays'[Len(arrays) + 1] = i
      /\ \A k \in 1 .. Len(arrays) : arrays'[k] = arrays[k]
  BY <1>1 DEF ArrayInv, TypeOK
<1> HIDE DEF i
<1>5. Released' = {}
  BY <1>3, <1>4 DEF Released, Listed, OrderInv
<1>6. OrderInv'
  <2>1. \A k \in 1 .. Len(arrays') : k \in 1 .. Len(arrays) \/ arrays'[k] = i
    BY <1>4
  <2>2. \A k \in 1 .. Len(arrays') : arrays'[k] \in Copied \/ Pinned(params[arrays'[k]])
    BY <1>1, <1>4, <2>1 DEF OrderInv
  <2>3. ASSUME NEW k \in 1 .. Len(arrays'), NEW l \in 1 .. Len(arrays'), k < l, arrays'[l] \in Copied
        PROVE  arrays'[k] < arrays'[l]
    <3>1. l \in 1 .. Len(arrays)
      BY <1>3, <2>1, <2>3
    <3>2. k \in 1 .. Len(arrays)
      BY <1>4, <2>3, <3>1
    <3> QED BY <1>4, <2>3, <3>1, <3>2 DEF OrderInv
  <2>4. \A j \in 1 .. N : ptr'[j].to = "pinned" => Pinned(params[j])
    BY <1>1, <1>2 DEF OrderInv
  <2> QED BY <1>1, <1>3, <1>5, <2>2, <2>3, <2>4 DEF OrderInv, Pinned, Category
<1>7. ContentInv'
  BY <1>1, <1>3, <1>5 DEF ContentInv, Size, PrimOf, IsIn, IsOut, Pinned,
     GarbageOnlyFromUncleared, OrderInv
<1> QED BY <1>6, <1>7

\* The function writes to its copies, and to Java through pinned arrays only.
LEMMA CallDelivery ==
  ASSUME ArrayInv, DeliveryInv, NEW W \in SUBSET (1 .. N), NEW throws \in BOOLEAN,
         Call(W, throws)
  PROVE  DeliveryInv'
<1> DEFINE pinnedW == {i \in W : ptr[i].to = "pinned"}
           By(o, b) == {i \in pinnedW : params[i].o = o /\ b \in PinnedRegion(i)}
<1> USE DEF DeliveryInv, Call
<1>1. N' = N /\ N \in Nat /\ ~called /\ Released = {}
  BY DEF N, ArrayInv, TypeOK, OrderInv
<1>2. Copied' = Copied /\ Released' = {}
  BY <1>1 DEF Copied, Released, Listed
<1>3. OrderInv'
  BY <1>1, <1>2 DEF OrderInv, Pinned, Category
<1>4. \A i \in W : i \in Copied \/ (i \in pinnedW /\ Pinned(params[i]))
  BY DEF Copied, OrderInv
<1>5. ASSUME NEW o \in Objects, NEW b \in Bytes(o)
      PROVE  java'[o][b] = FromJava \/ (java'[o][b] \in pinnedW /\ Pinned(params[java'[o][b]]))
  <2>1. java[o][b] = FromJava
    BY <1>1 DEF ContentInv
  <2>2. By(o, b) # {} => \E i \in By(o, b) : \A j \in By(o, b) : j <= i
    <3>1. By(o, b) \in SUBSET (1 .. N)
      OBVIOUS
    <3> HIDE DEF By
    <3> QED BY <1>1, <3>1, Greatest
  <2>3. java'[o][b] = IF By(o, b) = {} THEN java[o][b]
                      ELSE CHOOSE i \in By(o, b) : \A j \in By(o, b) : j <= i
    OBVIOUS
  <2>4. By(o, b) # {} => java'[o][b] \in By(o, b)
    <3>1. \A S : (\E i \in S : \A j \in S : j <= i)
                   => (CHOOSE i \in S : \A j \in S : j <= i) \in S
      BY Zenon
    <3> HIDE DEF By
    <3> QED BY <2>2, <2>3, <3>1
  <2> QED BY <2>1, <2>3, <2>4 DEF OrderInv
<1>6. \A i \in Copied : i \notin pinnedW /\ i \in 1 .. N
  BY DEF Copied
<1>7. \A i \in Copied : \A b \in 0 .. Size(params[i]) - 1 :
        /\ i \in W => buf'[i][b] = i
        /\ i \notin W => buf'[i] = buf[i]
  BY <1>6
<1>8. wrote' = W /\ params' = params /\ called' /\ pc' = "release"
  OBVIOUS
<1>9. ContentInv'
  <2>1. exception' = "Callback" =>
          \A o \in Objects : \A b \in Bytes(o) :
            java'[o][b] # FromJava => java'[o][b] \in W /\ Pinned(params[java'[o][b]])
    BY <1>5
  <2>2. \A i \in Copied : \A b \in 0 .. Size(params[i]) - 1 :
          buf'[i][b] = Garbage => ~IsIn(params[i]) /\ "CLEAR" \notin params[i].flags
    BY <1>6, <1>7 DEF ContentInv, Garbage
  <2> HIDE DEF Call
  <2>3. \A o \in Objects : \A b \in Bytes(o) : java'[o][b] # Garbage
    <3>1. \A i \in pinnedW : i \in 1 .. N
      OBVIOUS
    <3> HIDE DEF pinnedW
    <3> QED BY <1>1, <1>5, <3>1 DEF Garbage, FromJava
  <2> QED BY <1>1, <1>2, <1>4, <1>6, <1>7, <1>8, <2>1, <2>2, <2>3 DEF ContentInv, Size, PrimOf, IsIn,
          IsOut, Pinned, GarbageOnlyFromUncleared, Bytes
<1> QED BY <1>3, <1>9

\* The arrays come back last to first, so what an earlier parameter says of a
\* byte is written after what a later one says.
LEMMA ReleaseDelivery == ASSUME ArrayInv, DeliveryInv, Release PROVE DeliveryInv'
<1> DEFINE i == arrays[Len(arrays)]
           p == params[i]
<1> USE DEF DeliveryInv
<1>1. /\ pc = "release" /\ Len(arrays) \in 1 .. Len(arrays) /\ ~(CopiesOut(p) /\ p.null)
      /\ java' = IF CopiesOut(p) /\ InRange(p)
                 THEN [java EXCEPT ![p.o] = [b \in Bytes(p.o) |->
                         IF b \in Region(p) THEN buf[i][b - Start(p)] ELSE java[p.o][b]]]
                 ELSE java
      /\ exception' = IF CopiesOut(p) /\ ~InRange(p) THEN "OutOfBounds" ELSE exception
      /\ arrays' = SubSeq(arrays, 1, Len(arrays) - 1) \o SubSeq(arrays, Len(arrays) + 1, Len(arrays))
      /\ UNCHANGED <<params, pc, ptr, buf, called, wrote>>
  BY DEF Release, ReleaseArray, outcome
<1>2. /\ Len(arrays') = Len(arrays) - 1 /\ Len(arrays) \in Nat \ {0}
      /\ \A k \in 1 .. Len(arrays') : k \in 1 .. Len(arrays) /\ arrays'[k] = arrays[k]
  <2>1. arrays \in Seq(1 .. N)
    BY DEF ArrayInv, TypeOK
  <2> QED BY <1>1, <2>1, DropLast
<1>3. i \in 1 .. N /\ N \in Nat /\ N' = N /\ p \in Params /\ p.o \in Objects
  <2>1. i \in 1 .. N /\ N \in Nat /\ N' = N
    BY <1>1, <1>2 DEF ArrayInv, TypeOK, N
  <2> QED BY <2>1, ParamType
<1>4. Copied' = Copied
  BY <1>1, <1>3 DEF Copied
<1> HIDE DEF i
<1>5. \A j : Listed(j, arrays) <=> Listed(j, arrays') \/ j = i
  <2>1. \A k \in 1 .. Len(arrays) : k \in 1 .. Len(arrays') \/ k = Len(arrays)
    BY <1>2
  <2> QED BY <1>2, <2>1 DEF Listed, i
<1>6. i \in Copied => \A k \in 1 .. Len(arrays') : arrays'[k] < i
  <2>1. \A k \in 1 .. Len(arrays') : k < Len(arrays) /\ Len(arrays) \in 1 .. Len(arrays)
    BY <1>2
  <2> QED BY <1>2, <2>1 DEF OrderInv, i
<1>7. i \in Copied => ~Listed(i, arrays')
  BY <1>3, <1>6 DEF Listed
<1>8. Released' = IF i \in Copied THEN Released \cup {i} ELSE Released
  <2>1. Released' = {j \in Copied : ~Listed(j, arrays')}
    BY <1>4 DEF Released
  <2> QED BY <1>5, <1>7, <2>1 DEF Released
<1>9. \A j \in Released : i \in Copied => i < j
  <2>1. Listed(i, arrays)
    BY <1>5
  <2> QED BY <2>1 DEF OrderInv, Listed
<1>10. OrderInv'
  <2>1. \A j \in Released', k \in 1 .. Len(arrays') : arrays'[k] \in Copied => arrays'[k] < j
    BY <1>2, <1>6, <1>8 DEF OrderInv
  <2>2. \A k, l \in 1 .. Len(arrays') : k < l /\ arrays'[l] \in Copied => arrays'[k] < arrays'[l]
    BY <1>2 DEF OrderInv
  <2>3. \A k \in 1 .. Len(arrays') : arrays'[k] \in Copied \/ Pinned(params[arrays'[k]])
    BY <1>2 DEF OrderInv
  <2>4. /\ \A j \in Copied : Category(params[j]) = ARRAY /\ ~Pinned(params[j])
        /\ \A j \in 1 .. N : ptr[j].to = "pinned" => Pinned(params[j])
    BY DEF OrderInv
  <2> QED BY <1>1, <1>3, <1>4, <2>1, <2>2, <2>3, <2>4 DEF OrderInv, Pinned, Category
<1>11. CopiesOut(p) => i \in Copied /\ exception = "none" /\ IsOut(p)
  BY <1>1, <1>2 DEF CopiesOut, OrderInv, i
<1>12. ~called => exception # "none" /\ java' = java /\ exception' = exception
  BY <1>1, <1>11 DEF ContentInv
<1> HIDE DEF p
<1>13. CASE ~CopiesOut(p)
  <2>1. java' = java /\ exception' = exception
    BY <1>1, <1>13
  <2>2. exception = "none" /\ i \in Copied => ~IsOut(p)
    BY <1>13 DEF CopiesOut, OrderInv, p
  <2>3. ASSUME exception = "none", NEW j \in Released', IsOut(params[j])
        PROVE  CopiedOut(j)'
    <3>1. j \in Released /\ Released \subseteq Released'
      BY <1>8, <2>2, <2>3 DEF p
    <3>2. CopiedOut(j)
      BY <2>3, <3>1 DEF ContentInv
    <3>3. buf' = buf /\ params' = params /\ java' = java
      BY <1>1, <2>1
    <3>4. ASSUME NEW b \in Region(params[j])
          PROVE  \/ java[params[j].o][b] = buf[j][b - Start(params[j])]
                 \/ \E k \in Released' : /\ k < j /\ params[k].o = params[j].o
                                         /\ IsOut(params[k]) /\ b \in Region(params[k])
      BY <3>1, <3>2 DEF CopiedOut
    <3>5. CopiedOut(j)' <=>
            /\ Region(params[j]) \subseteq Bytes(params[j].o)
            /\ \A b \in Region(params[j]) :
                 \/ java[params[j].o][b] = buf[j][b - Start(params[j])]
                 \/ \E k \in Released' : /\ k < j /\ params[k].o = params[j].o
                                         /\ IsOut(params[k]) /\ b \in Region(params[k])
      BY <3>3 DEF CopiedOut, Region, Start, Size, PrimOf, Bytes, IsOut
    <3> QED BY <3>2, <3>4, <3>5 DEF CopiedOut
  <2> QED BY <1>1, <1>3, <1>4, <1>10, <2>1, <2>3 DEF ContentInv, Size, PrimOf, IsIn, IsOut, Pinned,
        GarbageOnlyFromUncleared
<1>14. CASE CopiesOut(p) /\ ~InRange(p)
  <2>1. java' = java /\ exception' = "OutOfBounds"
    BY <1>1, <1>14
  <2> QED BY <1>1, <1>3, <1>4, <1>10, <2>1 DEF ContentInv, Size, PrimOf, IsIn, IsOut, Pinned,
        GarbageOnlyFromUncleared
<1>15. CASE CopiesOut(p) /\ InRange(p)
  <2>1. i \in Copied /\ exception = "none" /\ exception' = "none" /\ IsOut(p) /\ called
    BY <1>1, <1>11, <1>12, <1>15
  <2>2. Category(p) = ARRAY /\ PrimOf(p) = Prim[p.o]
    BY <1>3, <2>1, ParamType DEF OrderInv, p
  <2>3. /\ Region(p) \subseteq Bytes(p.o)
        /\ \A b \in Region(p) : b - Start(p) \in 0 .. Size(p) - 1
    BY <1>3, <1>15, <2>2, RegionBytes
  <2>4. /\ \A b \in Region(p) : java'[p.o][b] = buf[i][b - Start(p)]
        /\ \A b \in Bytes(p.o) \ Region(p) : java'[p.o][b] = java[p.o][b]
        /\ \A o \in Objects : o # p.o => java'[o] = java[o]
    BY <1>1, <1>3, <1>15, <2>3 DEF ArrayInv, TypeOK
  <2>5. Released' = Released \cup {i} /\ \A j \in Released : i < j
    BY <1>8, <1>9, <2>1
  <2>6. ASSUME NEW j \in Released', IsOut(params[j])
        PROVE  CopiedOut(j)'
    <3>0. CopiedOut(j)' <=>
            /\ Region(params[j]) \subseteq Bytes(params[j].o)
            /\ \A b \in Region(params[j]) :
                 \/ java'[params[j].o][b] = buf[j][b - Start(params[j])]
                 \/ \E k \in Released' : /\ k < j /\ params[k].o = params[j].o
                                         /\ IsOut(params[k]) /\ b \in Region(params[k])
      BY <1>1 DEF CopiedOut, Region, Start, Size, PrimOf, Bytes, IsOut
    <3>1. CASE j = i
      BY <2>3, <2>4, <3>0, <3>1 DEF p
    <3>2. CASE j \in Released
      <4> DEFINE q == params[j]
      <4>1. CopiedOut(j)
        BY <2>1, <2>6, <3>2 DEF ContentInv
      <4>2. q.o \in Objects /\ j \in 1 .. N
        BY <3>2, ParamType DEF Released, Copied
      <4>3. ASSUME NEW b \in Region(q)
            PROVE  \/ java'[q.o][b] = buf[j][b - Start(q)]
                   \/ \E k \in Released' : /\ k < j /\ params[k].o = q.o
                                           /\ IsOut(params[k]) /\ b \in Region(params[k])
        <5>1. b \in Bytes(q.o)
          BY <4>1, <4>3 DEF CopiedOut
        <5>2. CASE q.o = p.o /\ b \in Region(p)
          BY <2>1, <2>5, <3>2, <5>2 DEF p
        <5>3. CASE ~(q.o = p.o /\ b \in Region(p))
          <6>1. java'[q.o][b] = java[q.o][b]
            BY <2>4, <4>2, <5>1, <5>3
          <6> QED BY <2>5, <4>1, <4>3, <6>1 DEF CopiedOut
        <5> QED BY <5>2, <5>3
      <4>4. Region(q) \subseteq Bytes(q.o)
        BY <4>1 DEF CopiedOut
      <4> QED BY <3>0, <4>3, <4>4
    <3> QED BY <2>5, <3>1, <3>2
  <2>7. ASSUME NEW o \in Objects, NEW b \in Bytes(o), java'[o][b] = Garbage
        PROVE  \E j \in 1 .. N : params[j].o = o /\ ~IsIn(params[j]) /\ "CLEAR" \notin params[j].flags
    <3>1. CASE o = p.o /\ b \in Region(p)
      <4>1. buf[i][b - Start(p)] = Garbage /\ b - Start(p) \in 0 .. Size(p) - 1
        BY <2>3, <2>4, <2>7, <3>1
      <4>2. ~IsIn(p) /\ "CLEAR" \notin p.flags
        BY <2>1, <4>1 DEF ContentInv, p
      <4> QED BY <1>3, <3>1, <4>2 DEF p
    <3>2. CASE ~(o = p.o /\ b \in Region(p))
      <4>1. java[o][b] = Garbage
        BY <2>4, <2>7, <3>2
      <4> QED BY <4>1 DEF ContentInv, GarbageOnlyFromUncleared
    <3> QED BY <3>1, <3>2
  <2>8. GarbageOnlyFromUncleared'
    BY <1>1, <1>3, <2>7 DEF GarbageOnlyFromUncleared, Bytes, IsIn
  <2> QED BY <1>1, <1>3, <1>4, <1>10, <2>1, <2>6, <2>8 DEF ContentInv, Size, PrimOf, IsIn, IsOut, Pinned
<1> QED BY <1>13, <1>14, <1>15

\* Every step of the call.
LEMMA NextDelivery == ArrayInv /\ DeliveryInv /\ [Next]_vars => DeliveryInv'
<1> SUFFICES ASSUME ArrayInv, DeliveryInv, [Next]_vars PROVE DeliveryInv'
  OBVIOUS
<1>1. CASE PinFails \/ PinDone \/ ReleaseCrash
  BY <1>1, QuietDelivery DEF PinFails, PinDone, ReleaseCrash, Fail, outcome
<1>2. CASE Return
  BY <1>2, QuietDelivery DEF Return, outcome, DeliveryInv, ContentInv
<1>3. CASE UNCHANGED vars
  <2>1. Copied' = Copied /\ Released' = Released /\ N' = N
    BY <1>3 DEF vars, Copied, Released, N, Listed
  <2> QED BY <1>3, <2>1 DEF vars, DeliveryInv, OrderInv, ContentInv, CopiedOut, Region, Start, Size,
        PrimOf, Bytes, IsIn, IsOut, Pinned, Category, GarbageOnlyFromUncleared
<1> QED BY <1>1, <1>2, <1>3, MarshalDelivery, PinDelivery, CallDelivery, ReleaseDelivery DEF Next

\* DeliveryInv holds of every behaviour: what is in every copy, through
\* marshalling, the call and the release of the arrays.
THEOREM DeliveryInvariance == Spec => []DeliveryInv
<1> QED BY InitDelivery, NextDelivery, ArrayInvariance, PTL DEF Spec

\* After a call that returned normally, every byte of every OUT copy is what Java
\* sees, unless an earlier OUT copy of the same array covers it.
THEOREM EarlierParameterWins == Spec => []FirstParameterWins
<1>1. ASSUME ArrayInv, DeliveryInv PROVE FirstParameterWins
  <2> SUFFICES ASSUME pc = "returned", exception = "none", NEW i \in Copied, IsOut(params[i]),
                      NEW b \in Region(params[i])
               PROVE  \/ java[params[i].o][b] = buf[i][b - Start(params[i])]
                      \/ \E j \in 1 .. i - 1 : /\ params[j].o = params[i].o
                                              /\ ptr[j].to \in {"stack", "heap"}
                                              /\ IsOut(params[j]) /\ b \in Region(params[j])
    BY DEF FirstParameterWins, Copied
  <2>1. arrays = <<>> /\ N \in Nat
    BY <1>1 DEF ArrayInv, TypeOK, N
  <2>2. i \in Released /\ i \in 1 .. N
    BY <2>1 DEF Released, Listed, Copied
  <2>3. CopiedOut(i)
    BY <1>1, <2>2 DEF DeliveryInv, ContentInv
  <2>4. \A j \in Released : j < i => j \in 1 .. i - 1 /\ ptr[j].to \in {"stack", "heap"}
    BY <2>1, <2>2 DEF Released, Copied
  <2> QED BY <2>3, <2>4 DEF CopiedOut
<1> QED BY <1>1, ArrayInvariance, DeliveryInvariance, PTL

\* What the function wrote through an OUT array is in the Java array after a call
\* that returned normally, unless the array was passed twice.
THEOREM WritesDelivered == Spec => []OutDelivered
<1>1. ASSUME ArrayInv, DeliveryInv, FirstParameterWins PROVE OutDelivered
  <2> SUFFICES ASSUME pc = "returned", exception = "none", NEW i \in wrote, IsOut(params[i]),
                      ~Pinned(params[i]),
                      ~\E j \in 1 .. N \ {i} : Category(params[j]) = ARRAY
                                                /\ params[j].o = params[i].o,
                      NEW b \in Region(params[i])
               PROVE  java[params[i].o][b] = i
    BY DEF OutDelivered
  <2>1. i \in Copied /\ i \in 1 .. N /\ N \in Nat
    BY <1>1 DEF DeliveryInv, ContentInv, Copied, ArrayInv, TypeOK, N
  <2>2. Category(params[i]) = ARRAY
    BY <1>1, <2>1 DEF DeliveryInv, OrderInv
  <2>3. b - Start(params[i]) \in 0 .. Size(params[i]) - 1
    BY <1>1, <2>1, <2>2, RegionBytes, ParamType
  <2>4. buf[i][b - Start(params[i])] = i
    BY <1>1, <2>1, <2>3 DEF DeliveryInv, ContentInv
  <2>5. \A j \in 1 .. i - 1 : ptr[j].to \in {"stack", "heap"} =>
          j \in 1 .. N \ {i} /\ Category(params[j]) = ARRAY
    BY <1>1, <2>1 DEF DeliveryInv, OrderInv, Copied
  <2>6. java[params[i].o][b] = buf[i][b - Start(params[i])]
    BY <1>1, <2>1, <2>5 DEF FirstParameterWins, Copied
  <2> QED BY <2>4, <2>6
<1> QED BY <1>1, ArrayInvariance, DeliveryInvariance, EarlierParameterWins, PTL

\* A failed call leaves the Java arrays alone, but for what the function wrote
\* through pinned ones before a callback threw.
THEOREM FailureDeliversNothing == Spec => []NothingDeliveredOnFailure
<1>1. DeliveryInv => NothingDeliveredOnFailure
  BY DEF DeliveryInv, ContentInv, NothingDeliveredOnFailure
<1> QED BY <1>1, DeliveryInvariance, PTL

\* Java sees uninitialised native memory only in an array that it passed as OUT
\* and not CLEAR.
THEOREM GarbageStaysNative == Spec => []GarbageOnlyFromUncleared
<1>1. DeliveryInv => GarbageOnlyFromUncleared
  BY DEF DeliveryInv, ContentInv
<1> QED BY <1>1, DeliveryInvariance, PTL

(***************************************************************************)
(* Refinement: AtomicInv is inductive on top of ArrayInv and DeliveryInv,  *)
(* and every step but Return is a stuttering step of the ArrayCall.        *)
(***************************************************************************)
\* What the ArrayCall says of a parameter is what the code makes of its flags.
LEMMA ArgOf ==
  ASSUME ArrayInv, DeliveryInv, NEW i \in 1 .. N
  PROVE  /\ Args[i].o = params[i].o /\ Args[i].way = Way(params[i])
         /\ Args[i].in = IsIn(params[i]) /\ Args[i].out = IsOut(params[i])
         /\ Args[i].clear = ("CLEAR" \in params[i].flags) /\ Args[i].fits = InRange(params[i])
         /\ i \in Copied => Way(params[i]) = "copy" /\ Args[i].bytes = Region(params[i])
         /\ Way(params[i]) = "pin" =>
              Args[i].bytes = PinnedAt(params[i]) .. PinnedAt(params[i]) + Size(params[i]) - 1
<1>1. Args[i] = Arg(params[i])
  BY DEF Args
<1>2. i \in Copied => Way(params[i]) = "copy"
  BY DEF DeliveryInv, OrderInv, Way
<1> QED BY <1>1, <1>2 DEF Arg

\* The parameters, and what they are parameters of, never change.
LEMMA SameArgs == UNCHANGED params => N' = N /\ Args' = Args /\ Before' = Before
BY DEF N, Args, Before, Bytes, Arg, Way, Category, Pinned, Region, Start, Size, PrimOf, PinnedAt,
       IsIn, IsOut, InRange

\* The bytes of a copy depend on the parameters and on what was written.
LEMMA SameCopies ==
  ASSUME UNCHANGED <<params, wrote>>
  PROVE  /\ \A i : Atomic!Held(i, FromJava, wrote)' = Atomic!Held(i, FromJava, wrote)
         /\ \A D : Atomic!After(Before, wrote, D)' = Atomic!After(Before, wrote, D)
<1>1. Args' = Args /\ Before' = Before
  BY SameArgs
<1> QED BY <1>1 DEF Atomic!Held, Atomic!After, Atomic!Through, Atomic!Behind, Atomic!Pins, FromJava,
        Zero, Garbage

\* Nothing is copied yet, and the arrays are as the caller left them.
LEMMA InitAtomic == Init => AtomicInv
<1> SUFFICES ASSUME Init PROVE AtomicInv
  OBVIOUS
<1>1. N \in Nat /\ \A i \in 1 .. N : ptr[i].to = "null"
  BY ArrayParamsAssumption DEF Init, N
<1>2. WayInv
  BY <1>1 DEF Init, WayInv, Copied
<1>3. CopyInv
  BY <1>1 DEF CopyInv, Copied
<1>4. ResultInv
  BY DEF Init, ResultInv, Before
<1> QED BY <1>2, <1>3, <1>4 DEF AtomicInv

\* A step that changes no byte: before the call it may give a parameter its
\* pointer or note that it is to be pinned, after the call it changes pc only.
LEMMA QuietAtomic ==
  ASSUME AtomicInv, WayInv',
         UNCHANGED <<params, buf, java, called, wrote>>, Copied' = Copied,
         called => UNCHANGED <<arrays, exception>>
  PROVE  AtomicInv'
<1>1. N' = N /\ Args' = Args /\ Before' = Before
  BY SameArgs
<1>2. CopyInv'
  <2>1. \A i : Atomic!Held(i, FromJava, wrote)' = Atomic!Held(i, FromJava, wrote)
    BY SameCopies
  <2>2. \A i \in Copied : Size(params[i])' = Size(params[i])
    BY DEF Size, PrimOf
  <2> QED BY <2>1, <2>2 DEF AtomicInv, CopyInv
<1>3. ResultInv'
  <2>1. CASE ~called
    BY <1>1, <2>1 DEF AtomicInv, ResultInv
  <2>2. CASE called
    <3>1. Outs' = Outs /\ Released' = Released
      BY <2>2 DEF Outs, Released, IsOut, Listed
    <3>2. \A D : Atomic!After(Before, wrote, D)' = Atomic!After(Before, wrote, D)
      BY SameCopies
    <3>3. \A i : InRange(params[i])' = InRange(params[i])
      BY DEF InRange
    <3>4. PICK D \in SUBSET Outs :
            /\ java = Atomic!After(Before, wrote, D)
            /\ \A i \in D : InRange(params[i])
            /\ \/ exception = "none" /\ D = Outs \cap Released
               \/ exception = "Callback" /\ D = {}
               \/ /\ exception = "OutOfBounds"
                  /\ \E k \in Outs : ~InRange(params[k]) /\ D = {i \in Outs : i > k}
      BY <2>2 DEF AtomicInv, ResultInv
    <3> QED BY <2>2, <3>1, <3>2, <3>3, <3>4 DEF ResultInv
  <2> QED BY <2>1, <2>2
<1> QED BY <1>2, <1>3 DEF AtomicInv

\* Steps that change no pointer keep WayInv.
LEMMA SameWays ==
  ASSUME WayInv, UNCHANGED <<params, ptr, pins, called, wrote>>
  PROVE  WayInv' /\ Copied' = Copied
<1>1. Copied' = Copied /\ N' = N
  BY DEF Copied, N
<1> QED BY <1>1 DEF WayInv, Category, PinnedAt, CopyInFails, IsIn, InRange

\* A parameter that is recorded for pinning or that is no array.
LEMMA PassAtomic ==
  ASSUME ArrayInv, DeliveryInv, AtomicInv, Marshalling, NEW to \in {"null", "buffer", "jni"}, NEW at,
         Advance(to, at), UNCHANGED <<params, arrays, buf, java, outcome>>,
         to # "null" => Category(P) # ARRAY,
         pins' = pins \/ (pins' = Append(pins, next) /\ Category(P) = ARRAY)
  PROVE  AtomicInv'
<1> USE DEF Marshalling, Advance, outcome
<1>1. /\ next \in 1 .. N /\ N' = N /\ P = params[next] /\ ~called /\ wrote = {}
      /\ pins \in Seq(1 .. N) /\ ptr[next].to = "null"
      /\ ptr'[next].to = to /\ \A i \in 1 .. N : i # next => ptr'[i] = ptr[i]
  <2>1. next \in 1 .. N /\ N' = N /\ P = params[next]
    BY DEF ArrayInv, TypeOK, N, P
  <2> QED BY <2>1 DEF ArrayInv, TypeOK, DeliveryInv, OrderInv, ContentInv
<1>2. Copied' = Copied
  BY <1>1 DEF Copied
<1>3. \A k \in 1 .. Len(pins') : Category(params[pins'[k]]) = ARRAY
  <2>1. /\ Len(pins) \in Nat /\ Len(Append(pins, next)) = Len(pins) + 1
        /\ Append(pins, next)[Len(pins) + 1] = next
        /\ \A k \in 1 .. Len(pins) : Append(pins, next)[k] = pins[k]
    <3> HIDE DEF Marshalling, Advance, outcome
    <3> QED BY <1>1, AddLast
  <2>2. \A k \in 1 .. Len(pins) : Category(params[pins[k]]) = ARRAY
    BY DEF AtomicInv, WayInv
  <2>3. \A k \in 1 .. Len(pins) + 1 : k \in 1 .. Len(pins) \/ k = Len(pins) + 1
    BY <2>1
  <2> HIDE DEF Marshalling, Advance, outcome
  <2> QED BY <1>1, <2>1, <2>2, <2>3
<1>4. \A i \in 1 .. N :
        /\ ptr'[i].to \in {"buffer", "jni"} => Category(params[i]) # ARRAY
        /\ ptr'[i].to = "pinned" => Category(params[i]) = ARRAY /\ ptr'[i].at = PinnedAt(params[i])
        /\ i \in Copied => ~CopyInFails(params[i])
  BY <1>1 DEF AtomicInv, WayInv
<1>5. WayInv'
  BY <1>1, <1>2, <1>3, <1>4 DEF WayInv, Category, PinnedAt, CopyInFails, IsIn, InRange
<1> QED BY <1>1, <1>2, <1>5, QuietAtomic

\* An array that is copied: Get<Type>ArrayRegion reads what the caller passed.
LEMMA CopyAtomic ==
  ASSUME ArrayInv, DeliveryInv, AtomicInv, Marshalling, NEW to \in {"stack", "heap"}, NEW at,
         Advance(to, at), Category(P) = ARRAY, ~Pinned(P), ~CopyInFails(P),
         buf' = [buf EXCEPT ![next] = CopyIn(P)],
         UNCHANGED <<params, pins, java, outcome>>
  PROVE  AtomicInv'
<1> USE DEF Marshalling, Advance, outcome
<1>1. /\ next \in 1 .. N /\ N' = N /\ P = params[next] /\ ~called /\ wrote = {}
      /\ ptr'[next].to = to /\ \A i \in 1 .. N : i # next => ptr'[i] = ptr[i] /\ buf'[i] = buf[i]
      /\ buf'[next] = CopyIn(P)
  <2>1. next \in 1 .. N /\ N' = N /\ P = params[next]
    BY DEF ArrayInv, TypeOK, N, P
  <2> QED BY <2>1 DEF ArrayInv, TypeOK, DeliveryInv, ContentInv
<1>2. Copied' = Copied \cup {next}
  BY <1>1 DEF Copied
<1>3. WayInv'
  <2>1. \A i \in 1 .. N :
          /\ ptr'[i].to \in {"buffer", "jni"} => Category(params[i]) # ARRAY
          /\ ptr'[i].to = "pinned" => Category(params[i]) = ARRAY /\ ptr'[i].at = PinnedAt(params[i])
          /\ i \in Copied' => ~CopyInFails(params[i])
    BY <1>1, <1>2 DEF AtomicInv, WayInv
  <2> QED BY <1>1, <2>1 DEF AtomicInv, WayInv, Category, PinnedAt, CopyInFails, IsIn, InRange
<1>4. \A b \in 0 .. Size(P) - 1 : CopyIn(P)[b] = Atomic!Held(next, FromJava, wrote)
  <2> SUFFICES ASSUME NEW b \in 0 .. Size(P) - 1
               PROVE  CopyIn(P)[b] = Atomic!Held(next, FromJava, wrote)
    OBVIOUS
  <2>1. P \in Params /\ P.o \in Objects /\ PrimOf(P) = Prim[P.o]
    BY <1>1, ParamType
  <2>2. ASSUME IsIn(P) PROVE Start(P) + b \in Bytes(P.o)
    <3>1. InRange(P)
      BY <2>2 DEF CopyInFails
    <3>2. Size(P) \in Nat /\ Start(P) \in Nat /\ Region(P) \subseteq Bytes(P.o)
      BY <2>1, <3>1, RegionBytes
    <3> QED BY <3>2 DEF Region
  <2>3. IsIn(P) => java[P.o][Start(P) + b] = FromJava
    BY <1>1, <2>1, <2>2 DEF DeliveryInv, ContentInv
  <2>4. Args[next].in = IsIn(P) /\ Args[next].clear = ("CLEAR" \in P.flags)
    BY <1>1, ArgOf
  <2> QED BY <1>1, <2>3, <2>4 DEF CopyIn, Atomic!Held
<1>5. CopyInv'
  <2>1. \A i : Atomic!Held(i, FromJava, wrote)' = Atomic!Held(i, FromJava, wrote)
    BY SameCopies
  <2>2. \A i \in Copied' : \A b \in 0 .. Size(params[i]) - 1 :
          buf'[i][b] = Atomic!Held(i, FromJava, wrote)
    BY <1>1, <1>2, <1>4 DEF AtomicInv, CopyInv, Copied
  <2> QED BY <2>1, <2>2 DEF CopyInv, Size, PrimOf
<1>6. ResultInv'
  <2>1. Before' = Before
    BY SameArgs
  <2> QED BY <1>1, <2>1 DEF AtomicInv, ResultInv
<1> QED BY <1>3, <1>5, <1>6 DEF AtomicInv

\* The next parameter is copied, pinned or put on the list to be pinned.
LEMMA MarshalAtomic == ASSUME ArrayInv, DeliveryInv, AtomicInv, Marshal PROVE AtomicInv'
<1> USE DEF Usable, Indexed, outcome
<1>1. CASE MarshalBadIndex \/ MarshalNull \/ MarshalNoMemory \/ MarshalNoAddress
             \/ MarshalOutOfRange \/ MarshalCrash \/ MarshalDone
  <2>1. UNCHANGED <<params, arrays, pins, ptr, buf, java, called, wrote>> /\ ~called
    BY <1>1 DEF MarshalBadIndex, MarshalNull, MarshalNoMemory, MarshalNoAddress,
       MarshalOutOfRange, MarshalCrash, MarshalDone, Marshalling, ArrayInv
  <2> QED BY <2>1, SameWays, QuietAtomic DEF AtomicInv
<1>2. CASE MarshalPinned
  BY <1>2, PassAtomic DEF MarshalPinned
<1>3. CASE MarshalBuffer
  <2>1. Category(P) # ARRAY /\ Marshalling
    BY <1>3 DEF MarshalBuffer, ARRAY, BUFFER
  <2> QED BY <1>3, <2>1, PassAtomic DEF MarshalBuffer
<1>4. CASE MarshalOther
  <2>1. CASE JniAccepts(P)
    BY <1>4, <2>1, PassAtomic DEF MarshalOther
  <2>2. CASE ~JniAccepts(P)
    <3>1. UNCHANGED <<params, arrays, pins, ptr, buf, java, called, wrote>> /\ ~called
      BY <1>4, <2>2 DEF MarshalOther, Marshalling, ArrayInv
    <3> QED BY <3>1, SameWays, QuietAtomic DEF AtomicInv
  <2> QED BY <2>1, <2>2
<1>5. CASE MarshalStack \/ MarshalHeap
  <2>1. Marshalling /\ Category(P) = ARRAY /\ ~Pinned(P)
    BY <1>5 DEF MarshalStack, MarshalHeap, OnStack, OnHeap
  <2> QED BY <1>5, <2>1, CopyAtomic DEF MarshalStack, MarshalHeap
<1> QED BY <1>1, <1>2, <1>3, <1>4, <1>5 DEF Marshal

\* A pinned array gets its pointer.
LEMMA PinAtomic == ASSUME ArrayInv, DeliveryInv, AtomicInv, Pin PROVE AtomicInv'
<1> DEFINE i == pins[next]
<1>1. /\ next \in 1 .. Len(pins) /\ i \in 1 .. N /\ ~called /\ wrote = {}
      /\ ptr' = [ptr EXCEPT ![i] = [to |-> "pinned", at |-> PinnedAt(params[i])]]
      /\ UNCHANGED <<params, pins, buf, java, called, wrote>>
  <2>1. pc = "pin" /\ next <= Len(pins) /\ UNCHANGED <<params, pins, buf, java, called, wrote>>
    BY DEF Pin, outcome
  <2>2. ptr' = [ptr EXCEPT ![i] = [to |-> "pinned", at |-> PinnedAt(params[i])]]
    BY DEF Pin
  <2>3. ~called /\ wrote = {}
    BY <2>1 DEF ArrayInv, DeliveryInv, ContentInv
  <2>4. next \in 1 .. Len(pins) /\ i \in 1 .. N
    <3>1. next \in 1 .. N + 1 /\ pins \in Seq(1 .. N) /\ N \in Nat
      BY DEF ArrayInv, TypeOK, N
    <3> QED BY <2>1, <3>1
  <2> QED BY <2>1, <2>2, <2>3, <2>4
<1>2. Category(params[i]) = ARRAY /\ Pinned(params[i])
  BY <1>1 DEF AtomicInv, WayInv, ArrayInv, PinInv
<1> HIDE DEF i
<1>3. /\ N' = N /\ ptr'[i] = [to |-> "pinned", at |-> PinnedAt(params[i])]
      /\ \A j \in 1 .. N : j # i => ptr'[j] = ptr[j]
  BY <1>1 DEF ArrayInv, TypeOK, N
<1>4. Copied' = Copied
  <2>1. i \notin Copied
    BY <1>2 DEF DeliveryInv, OrderInv
  <2> QED BY <1>1, <1>3, <2>1 DEF Copied
<1>5. \A j \in 1 .. N :
        /\ ptr'[j].to \in {"buffer", "jni"} => Category(params[j]) # ARRAY
        /\ ptr'[j].to = "pinned" => Category(params[j]) = ARRAY /\ ptr'[j].at = PinnedAt(params[j])
        /\ j \in Copied => ~CopyInFails(params[j])
  BY <1>2, <1>3 DEF AtomicInv, WayInv
<1>6. WayInv'
  BY <1>1, <1>3, <1>4, <1>5 DEF AtomicInv, WayInv, Category, PinnedAt, CopyInFails, IsIn, InRange
<1> QED BY <1>1, <1>4, <1>6, QuietAtomic

\* When every parameter has its pointer, the copies and the pinned arrays are those
\* that the caller asked for.
LEMMA WaysOf ==
  ASSUME ArrayInv, DeliveryInv, WayInv, \A i \in 1 .. N : ptr[i].to # "null"
  PROVE  /\ Atomic!Copies = Copied
         /\ Atomic!Pins = {i \in 1 .. N : ptr[i].to = "pinned"}
         /\ Atomic!Outs = Outs
<1>1. ASSUME NEW i \in 1 .. N
      PROVE  /\ Args[i].way = "copy" <=> i \in Copied
             /\ Args[i].way = "pin" <=> ptr[i].to = "pinned"
             /\ i \in Copied => Args[i].out = IsOut(params[i])
  <2>1. ptr[i].to \in {"stack", "heap", "pinned", "buffer", "jni"}
    BY DEF ArrayInv, TypeOK
  <2>2. Args[i].way = Way(params[i]) /\ Args[i].out = IsOut(params[i])
    BY ArgOf
  <2>3. i \in Copied => Way(params[i]) = "copy"
    BY ArgOf
  <2>4. ptr[i].to = "pinned" => Way(params[i]) = "pin"
    BY DEF WayInv, DeliveryInv, OrderInv, Way
  <2>5. ptr[i].to \in {"buffer", "jni"} => Way(params[i]) = "none"
    BY DEF WayInv, Way
  <2> QED BY <2>1, <2>2, <2>3, <2>4, <2>5 DEF Copied
<1>2. DOMAIN Args = 1 .. N
  BY DEF Args
<1> QED BY <1>1, <1>2 DEF Atomic!Copies, Atomic!Pins, Atomic!Outs, Outs, Copied

\* The function fills copies and pinned arrays; no copy has come back yet.
LEMMA CallAtomic ==
  ASSUME ArrayInv, DeliveryInv, AtomicInv, NEW W \in SUBSET (1 .. N), NEW throws \in BOOLEAN,
         Call(W, throws)
  PROVE  AtomicInv'
<1> DEFINE pinnedW == {i \in W : ptr[i].to = "pinned"}
           By(o, b) == {i \in pinnedW : params[i].o = o /\ b \in PinnedRegion(i)}
<1>1. /\ pc = "call" /\ called' /\ wrote' = W /\ UNCHANGED <<params, ptr, pins, arrays>>
      /\ W \subseteq {i \in 1 .. N : ptr[i].to \in {"stack", "heap", "pinned"}}
      /\ exception' = IF throws THEN "Callback" ELSE "none"
      /\ buf' = [i \in 1 .. N |-> IF i \in W /\ i \notin pinnedW
                                  THEN [b \in 0 .. Size(params[i]) - 1 |-> i] ELSE buf[i]]
      /\ java' = [o \in Objects |-> [b \in Bytes(o) |->
                    IF By(o, b) = {} THEN java[o][b]
                    ELSE CHOOSE i \in By(o, b) : \A j \in By(o, b) : j <= i]]
  BY DEF Call
<1>2. /\ ~called /\ wrote = {} /\ Released = {} /\ java = Before
      /\ \A i \in 1 .. N : ptr[i].to # "null"
  BY <1>1 DEF ArrayInv, PointerInv, DeliveryInv, OrderInv, ContentInv, AtomicInv, ResultInv
<1> HIDE DEF By
<1>3. N' = N /\ Args' = Args /\ Before' = Before
  BY <1>1, SameArgs
<1>4. Copied' = Copied /\ Released' = {} /\ Outs' = Outs
  BY <1>1, <1>2, <1>3 DEF Copied, Released, Outs, Listed, IsOut
<1>5. WayInv'
  BY <1>1, <1>2, <1>3, <1>4 DEF AtomicInv, WayInv, Category, PinnedAt, CopyInFails, IsIn, InRange
<1>6. CopyInv'
  <2>1. ASSUME NEW i \in Copied, NEW b \in 0 .. Size(params[i]) - 1
        PROVE  buf'[i][b] = Atomic!Held(i, FromJava, W)
    <3>1. i \in 1 .. N /\ i \notin pinnedW
      BY DEF Copied
    <3>2. buf[i][b] = Atomic!Held(i, FromJava, {})
      BY <1>2 DEF AtomicInv, CopyInv
    <3>3. buf'[i] = IF i \in W THEN [c \in 0 .. Size(params[i]) - 1 |-> i] ELSE buf[i]
      BY <1>1, <3>1
    <3>4. Atomic!Held(i, FromJava, W) = IF i \in W THEN i ELSE Atomic!Held(i, FromJava, {})
      BY DEF Atomic!Held
    <3>5. i \in W => buf'[i][b] = i
      BY <3>3
    <3>6. i \notin W => buf'[i][b] = buf[i][b]
      BY <3>3
    <3> QED BY <3>2, <3>4, <3>5, <3>6
  <2>2. \A i : Atomic!Held(i, FromJava, wrote)' = Atomic!Held(i, FromJava, W)
    BY <1>1, <1>3 DEF Atomic!Held, FromJava, Zero, Garbage
  <2> QED BY <1>1, <1>4, <2>1, <2>2 DEF CopyInv, Size, PrimOf
<1>7. java' = Atomic!After(Before, W, {})
  <2>1. ASSUME NEW o \in Objects, NEW b \in Bytes(o)
        PROVE  By(o, b) = {i \in W \cap Atomic!Pins : Atomic!Behind(i, o, b)}
    <3>1. W \cap Atomic!Pins = pinnedW
      BY <1>2, WaysOf DEF AtomicInv
    <3>2. ASSUME NEW i \in pinnedW
          PROVE  Atomic!Behind(i, o, b) <=> params[i].o = o /\ b \in PinnedRegion(i)
      <4>1. i \in 1 .. N /\ ptr[i].to = "pinned"
        OBVIOUS
      <4>2. Way(params[i]) = "pin" /\ ptr[i].at = PinnedAt(params[i])
        BY <4>1 DEF AtomicInv, WayInv, DeliveryInv, OrderInv, Way
      <4>3. Args[i].o = params[i].o /\ Args[i].bytes = PinnedRegion(i)
        BY <4>1, <4>2, ArgOf DEF PinnedRegion
      <4> QED BY <4>3 DEF Atomic!Behind
    <3> QED BY <3>1, <3>2 DEF By
  <2>2. \A o \in Objects : \A b \in Bytes(o) :
          (IF By(o, b) = {} THEN FromJava
           ELSE CHOOSE i \in By(o, b) : \A j \in By(o, b) : j <= i)
            = Atomic!Through(o, b, FromJava, W)
    <3> SUFFICES ASSUME NEW o \in Objects, NEW b \in Bytes(o)
                 PROVE  (IF By(o, b) = {} THEN FromJava
                         ELSE CHOOSE i \in By(o, b) : \A j \in By(o, b) : j <= i)
                          = Atomic!Through(o, b, FromJava, W)
      OBVIOUS
    <3> DEFINE T == {i \in W \cap Atomic!Pins : Atomic!Behind(i, o, b)}
    <3>1. Atomic!Through(o, b, FromJava, W)
            = IF T = {} THEN FromJava ELSE CHOOSE i \in T : \A j \in T : j <= i
      BY DEF Atomic!Through
    <3>2. By(o, b) = T
      BY <2>1
    <3> HIDE DEF T
    <3> QED BY <3>1, <3>2, Zenon
  <2>3. Atomic!After(Before, W, {})
          = [o \in Objects |-> [b \in Bytes(o) |-> Atomic!Through(o, b, FromJava, W)]]
    <3>1. DOMAIN Before = Objects /\ \A o \in Objects : DOMAIN Before[o] = Bytes(o)
      BY DEF Before
    <3>2. \A o \in Objects : \A b \in Bytes(o) : Before[o][b] = FromJava
      BY DEF Before
    <3> QED BY <3>1, <3>2 DEF Atomic!After
  <2>4. java' = [o \in Objects |-> [b \in Bytes(o) |->
                   IF By(o, b) = {} THEN FromJava
                   ELSE CHOOSE i \in By(o, b) : \A j \in By(o, b) : j <= i]]
    <3>1. \A o \in Objects : \A b \in Bytes(o) : java[o][b] = FromJava
      BY <1>2 DEF Before
    <3> QED BY <1>1, <3>1
  <2> QED BY <2>2, <2>3, <2>4
<1>8. ResultInv'
  <2>1. Atomic!After(Before, wrote, {})' = Atomic!After(Before, W, {})
    BY <1>1, <1>3 DEF Atomic!After, Atomic!Through, Atomic!Behind, Atomic!Pins, Atomic!Held,
       FromJava, Zero, Garbage
  <2> QED BY <1>1, <1>4, <1>7, <2>1 DEF ResultInv
<1> QED BY <1>5, <1>6, <1>8 DEF AtomicInv

\* One copy more comes back, the first of them all: its bytes are what Java sees.
LEMMA OneMore ==
  ASSUME ArrayInv, DeliveryInv, CopyInv, NEW i \in Copied, NEW D \in SUBSET Copied,
         \A j \in D : i < j, java = Atomic!After(Before, wrote, D)
  PROVE  LET p == params[i] IN
         Atomic!After(Before, wrote, D \cup {i})
           = [java EXCEPT ![p.o] = [b \in Bytes(p.o) |->
                IF b \in Region(p) THEN buf[i][b - Start(p)] ELSE java[p.o][b]]]
<1> DEFINE p == params[i]
           By(S, o, b) == {j \in S : Atomic!Behind(j, o, b)}
           First(T, o, b) == IF T = {} THEN Atomic!Through(o, b, FromJava, wrote)
                             ELSE Atomic!Held(CHOOSE j \in T : \A k \in T : j <= k, FromJava, wrote)
           Val(S, o, b) == First(By(S, o, b), o, b)
<1>1. \A S : Atomic!After(Before, wrote, S) = [o \in Objects |-> [b \in Bytes(o) |-> Val(S, o, b)]]
  <2>1. DOMAIN Before = Objects /\ \A o \in Objects : DOMAIN Before[o] = Bytes(o)
    BY DEF Before
  <2>2. \A o \in Objects : \A b \in Bytes(o) : Before[o][b] = FromJava
    BY DEF Before
  <2> QED BY <2>1, <2>2 DEF Atomic!After
<1> HIDE DEF Val, First
<1>2. i \in 1 .. N /\ \A j \in Copied : j \in 1 .. N
  BY DEF Copied
<1>3. /\ p \in Params /\ p.o \in Objects /\ Category(p) = ARRAY
      /\ Args[i].o = p.o /\ Args[i].bytes = Region(p)
  BY <1>2, ParamType, ArgOf DEF DeliveryInv, OrderInv
<1>4. \A o, b : Atomic!Behind(i, o, b) <=> o = p.o /\ b \in Region(p)
  BY <1>3 DEF Atomic!Behind
<1>5. ASSUME NEW b \in Region(p) PROVE Val(D \cup {i}, p.o, b) = buf[i][b - Start(p)]
  <2> DEFINE T == By(D \cup {i}, p.o, b)
  <2>1. i \in T /\ T \subseteq D \cup {i}
    BY <1>4, <1>5
  <2> HIDE DEF T
  <2>2. \A j \in T : j = i \/ (j \in 1 .. N /\ i < j)
    BY <1>2, <2>1
  <2>3. (CHOOSE j \in T : \A k \in T : j <= k) = i
    <3>1. \A k \in T : i <= k
      BY <1>2, <2>2
    <3>2. ASSUME NEW j \in T, j <= i PROVE j = i
      BY <1>2, <2>2, <3>2
    <3> QED BY <2>1, <3>1, <3>2
  <2>4. Val(D \cup {i}, p.o, b) = Atomic!Held(CHOOSE j \in T : \A k \in T : j <= k, FromJava, wrote)
    <3>1. T # {}
      BY <2>1
    <3> QED BY <3>1 DEF Val, First, T
  <2>5. b - Start(p) \in 0 .. Size(p) - 1
    BY <1>3, <1>5, RegionBytes
  <2>6. buf[i][b - Start(p)] = Atomic!Held(i, FromJava, wrote)
    BY <2>5 DEF CopyInv
  <2> QED BY <2>3, <2>4, <2>6
<1>6. ASSUME NEW o \in Objects, NEW b \in Bytes(o), ~(o = p.o /\ b \in Region(p))
      PROVE  Val(D \cup {i}, o, b) = Val(D, o, b)
  <2>1. By(D \cup {i}, o, b) = By(D, o, b)
    BY <1>4, <1>6
  <2> HIDE DEF By
  <2> QED BY <2>1 DEF Val
<1> HIDE DEF p
<1>7. java = [o \in Objects |-> [b \in Bytes(o) |-> Val(D, o, b)]]
  BY <1>1
<1>8. ASSUME NEW o \in Objects
      PROVE  [b \in Bytes(o) |-> Val(D \cup {i}, o, b)]
               = IF o = p.o THEN [b \in Bytes(o) |->
                     IF b \in Region(p) THEN buf[i][b - Start(p)] ELSE java[o][b]]
                 ELSE java[o]
  <2>1. java[o] = [b \in Bytes(o) |-> Val(D, o, b)]
    BY <1>7
  <2>2. CASE o = p.o
    <3>1. ASSUME NEW b \in Bytes(o)
          PROVE  Val(D \cup {i}, o, b) = IF b \in Region(p) THEN buf[i][b - Start(p)] ELSE java[o][b]
      <4>1. b \in Region(p) => Val(D \cup {i}, o, b) = buf[i][b - Start(p)]
        BY <1>5, <2>2
      <4>2. java[o][b] = Val(D, o, b)
        BY <2>1
      <4>3. b \notin Region(p) => Val(D \cup {i}, o, b) = java[o][b]
        BY <1>6, <4>2
      <4> QED BY <4>1, <4>3
    <3> QED BY <2>2, <3>1
  <2>3. CASE o # p.o
    <3>1. \A b \in Bytes(o) : Val(D \cup {i}, o, b) = Val(D, o, b)
      BY <1>6, <2>3
    <3> QED BY <2>1, <2>3, <3>1
  <2> QED BY <2>2, <2>3
<1>9. DOMAIN java = Objects
  BY <1>7
<1> DEFINE new == [java EXCEPT ![p.o] = [b \in Bytes(p.o) |->
                     IF b \in Region(p) THEN buf[i][b - Start(p)] ELSE java[p.o][b]]]
<1>10. new = [o \in Objects |->
                IF o = p.o THEN [b \in Bytes(o) |->
                     IF b \in Region(p) THEN buf[i][b - Start(p)] ELSE java[o][b]]
                ELSE java[o]]
  BY <1>9
<1>11. Atomic!After(Before, wrote, D \cup {i}) = new
  <2> HIDE DEF new
  <2>1. Atomic!After(Before, wrote, D \cup {i})
          = [o \in Objects |-> [b \in Bytes(o) |-> Val(D \cup {i}, o, b)]]
    BY <1>1
  <2> QED BY <1>8, <1>10, <2>1
<1> QED BY <1>11 DEF p

\* An array that comes back: of the copies with a byte, the one released last is
\* the first parameter's.
LEMMA ReleaseAtomic == ASSUME ArrayInv, DeliveryInv, AtomicInv, Release PROVE AtomicInv'
<1> DEFINE i == arrays[Len(arrays)]
           p == params[i]
<1>1. /\ pc = "release" /\ Len(arrays) \in 1 .. Len(arrays)
      /\ java' = IF CopiesOut(p) /\ InRange(p)
                 THEN [java EXCEPT ![p.o] = [b \in Bytes(p.o) |->
                         IF b \in Region(p) THEN buf[i][b - Start(p)] ELSE java[p.o][b]]]
                 ELSE java
      /\ exception' = IF CopiesOut(p) /\ ~InRange(p) THEN "OutOfBounds" ELSE exception
      /\ arrays' = SubSeq(arrays, 1, Len(arrays) - 1) \o SubSeq(arrays, Len(arrays) + 1, Len(arrays))
      /\ UNCHANGED <<params, ptr, pins, buf, called, wrote>>
  BY DEF Release, ReleaseArray, outcome
<1>2. /\ Len(arrays') = Len(arrays) - 1 /\ Len(arrays) \in Nat \ {0} /\ arrays \in Seq(1 .. N)
      /\ \A k \in 1 .. Len(arrays') : arrays'[k] = arrays[k]
  <2>1. arrays \in Seq(1 .. N)
    BY DEF ArrayInv, TypeOK
  <2> QED BY <1>1, <2>1, DropLast
<1>3. i \in 1 .. N /\ N' = N /\ Args' = Args /\ Before' = Before
  <2>1. i \in 1 .. N
    <3> DEFINE S == 1 .. N
    <3>1. Len(arrays) \in 1 .. Len(arrays) /\ arrays \in Seq(S)
      BY <1>1, <1>2
    <3> HIDE DEF S
    <3>2. arrays[Len(arrays)] \in S
      BY <3>1
    <3> QED BY <3>2 DEF S
  <2>2. UNCHANGED params
    BY <1>1
  <2> QED BY <2>1, <2>2, SameArgs
<1>4. WayInv' /\ Copied' = Copied
  BY <1>1, SameWays DEF AtomicInv
<1> HIDE DEF i
<1>5. CASE ~called
  <2>1. exception # "none"
    BY <1>1, <1>5 DEF DeliveryInv, ContentInv
  <2>2. java' = java
    BY <1>1, <2>1 DEF CopiesOut
  <2> QED BY <1>1, <1>4, <1>5, <2>2, QuietAtomic
<1>6. CASE called
  <2>1. \A j : Listed(j, arrays) <=> Listed(j, arrays') \/ j = i
    <3>1. \A k \in 1 .. Len(arrays) : k \in 1 .. Len(arrays') \/ k = Len(arrays)
      BY <1>2
    <3>2. \A k \in 1 .. Len(arrays') : k \in 1 .. Len(arrays)
      BY <1>2
    <3>3. Len(arrays) \in 1 .. Len(arrays)
      BY <1>1
    <3> QED BY <1>2, <3>1, <3>2, <3>3 DEF Listed, i
  <2>2. i \in Copied => \A j : Listed(j, arrays') => j < i
    <3>1. \A k \in 1 .. Len(arrays') : k < Len(arrays) /\ k \in 1 .. Len(arrays)
      BY <1>2
    <3>2. i \in Copied => \A k \in 1 .. Len(arrays') : arrays'[k] < i
      BY <1>1, <1>2, <3>1 DEF DeliveryInv, OrderInv, i
    <3> QED BY <3>2 DEF Listed
  <2>3. \A j \in Released : i \in Copied => i < j
    <3>1. Listed(i, arrays)
      BY <2>1
    <3> QED BY <3>1 DEF DeliveryInv, OrderInv, Listed
  <2>4. i \in Copied => ~Listed(i, arrays')
    BY <1>3, <2>2
  <2>5. Released' = IF i \in Copied THEN Released \cup {i} ELSE Released
    <3>1. Released' = {j \in Copied : ~Listed(j, arrays')}
      BY <1>4 DEF Released
    <3> QED BY <2>1, <2>4, <3>1 DEF Released
  <2>6. Outs' = Outs /\ Outs \subseteq Copied /\ Copied \subseteq 1 .. N
    BY <1>1, <1>4 DEF Outs, IsOut, Copied
  <2>7. CopiesOut(p) => i \in Outs /\ exception = "none"
    BY <1>1, <1>2 DEF CopiesOut, DeliveryInv, OrderInv, Outs, i
  <2>8. PICK D \in SUBSET Outs :
          /\ java = Atomic!After(Before, wrote, D)
          /\ \A j \in D : InRange(params[j])
          /\ \/ exception = "none" /\ D = Outs \cap Released
             \/ exception = "Callback" /\ D = {}
             \/ /\ exception = "OutOfBounds"
                /\ \E k \in Outs : ~InRange(params[k]) /\ D = {j \in Outs : j > k}
    BY <1>6 DEF AtomicInv, ResultInv
  <2>9. /\ \A E : Atomic!After(Before, wrote, E)' = Atomic!After(Before, wrote, E)
        /\ \A j : InRange(params[j])' = InRange(params[j])
    BY <1>1, SameCopies DEF InRange
  <2>10. CopyInv'
    <3>1. \A j : Atomic!Held(j, FromJava, wrote)' = Atomic!Held(j, FromJava, wrote)
      BY <1>1, SameCopies
    <3>2. \A j \in Copied : Size(params[j])' = Size(params[j])
      BY <1>1 DEF Size, PrimOf
    <3> QED BY <1>1, <1>4, <3>1, <3>2 DEF AtomicInv, CopyInv
  <2> HIDE DEF p
  <2>11. CASE ~CopiesOut(p)
    <3>1. java' = java /\ exception' = exception
      BY <1>1, <2>11
    <3>2. exception = "none" => i \notin Outs
      BY <2>11 DEF CopiesOut, DeliveryInv, OrderInv, Outs, p
    <3>3. exception = "none" => Outs \cap Released' = Outs \cap Released
      BY <2>5, <3>2
    <3>4. ResultInv'
      BY <1>1, <1>6, <2>6, <2>8, <2>9, <3>1, <3>3 DEF ResultInv
    <3> QED BY <1>4, <2>10, <3>4 DEF AtomicInv
  <2>12. CASE CopiesOut(p) /\ ~InRange(p)
    <3>1. java' = java /\ exception' = "OutOfBounds"
      BY <1>1, <2>12
    <3>2. i \in Outs /\ D = Outs \cap Released
      BY <2>7, <2>8, <2>12
    <3>3. D = {j \in Outs : j > i}
      <4>1. ASSUME NEW j \in Outs, j > i PROVE j \in Released
        <5>1. ~Listed(j, arrays') /\ j # i
          BY <1>3, <2>2, <2>6, <3>2, <4>1
        <5> QED BY <2>1, <2>6, <5>1 DEF Released
      <4>2. \A j \in Outs \cap Released : j > i
        BY <1>3, <2>3, <2>6, <3>2
      <4> QED BY <3>2, <4>1, <4>2
    <3>4. ResultInv'
      BY <1>1, <1>6, <2>6, <2>8, <2>9, <2>12, <3>1, <3>2, <3>3 DEF ResultInv, p
    <3> QED BY <1>4, <2>10, <3>4 DEF AtomicInv
  <2>13. CASE CopiesOut(p) /\ InRange(p)
    <3> DEFINE E == D \cup {i}
    <3>1. i \in Outs /\ D = Outs \cap Released /\ exception' = "none"
      BY <1>1, <2>7, <2>8, <2>13
    <3>2. E \in SUBSET Outs /\ E = Outs \cap Released'
      BY <2>5, <2>6, <3>1
    <3>3. \A j \in D : i < j
      BY <1>3, <2>3, <2>6, <3>1
    <3>4. java' = Atomic!After(Before, wrote, E)
      <4>1. i \in Copied /\ D \in SUBSET Copied
        BY <2>6, <3>1
      <4>2. CopyInv
        BY DEF AtomicInv
      <4>3. Atomic!After(Before, wrote, E)
              = [java EXCEPT ![p.o] = [b \in Bytes(p.o) |->
                   IF b \in Region(p) THEN buf[i][b - Start(p)] ELSE java[p.o][b]]]
        BY <2>8, <3>3, <4>1, <4>2, OneMore DEF p
      <4> QED BY <1>1, <2>13, <4>3 DEF p
    <3>5. ResultInv'
      BY <1>1, <1>6, <2>6, <2>8, <2>9, <2>13, <3>1, <3>2, <3>4 DEF ResultInv, p
    <3> QED BY <1>4, <2>10, <3>5 DEF AtomicInv
  <2> QED BY <2>11, <2>12, <2>13
<1> QED BY <1>5, <1>6

\* Every step of the call.
LEMMA NextAtomic == ArrayInv /\ DeliveryInv /\ AtomicInv /\ [Next]_vars => AtomicInv'
<1> SUFFICES ASSUME ArrayInv, DeliveryInv, AtomicInv, [Next]_vars PROVE AtomicInv'
  OBVIOUS
<1>1. CASE PinFails \/ PinDone \/ ReleaseCrash \/ Return \/ UNCHANGED vars
  <2>1. UNCHANGED <<params, arrays, pins, ptr, buf, java, called, wrote>>
    BY <1>1 DEF PinFails, PinDone, ReleaseCrash, Return, vars, outcome
  <2>2. called => exception' = exception
    BY <1>1 DEF PinFails, PinDone, ReleaseCrash, Return, vars, ArrayInv
  <2> QED BY <2>1, <2>2, SameWays, QuietAtomic DEF AtomicInv
<1> QED BY <1>1, MarshalAtomic, PinAtomic, CallAtomic, ReleaseAtomic DEF Next

\* Whatever has come back so far, the arrays are as an ArrayCall would leave them.
THEOREM AtomicInvariance == Spec => []AtomicInv
<1> QED BY InitAtomic, NextAtomic, ArrayInvariance, DeliveryInvariance, PTL DEF Spec

\* Until the invoke method returns nothing is to be seen of the call.
LEMMA InsideStutters ==
  ASSUME UNCHANGED params, pc # "returned", pc' # "returned"
  PROVE  UNCHANGED Atomic!vars
<1>1. Args' = Args /\ Before' = Before
  BY SameArgs
<1> QED BY <1>1 DEF Atomic!vars

\* When it returns, the whole call has happened: the last array is back, so all
\* the copies are, or all that are to come back.
LEMMA ReturnCompletes ==
  ASSUME ArrayInv, DeliveryInv, AtomicInv, Return
  PROVE  Atomic!Next
<1> DEFINE how == IF exception = "none" THEN "normal" ELSE "failed"
<1>1. /\ pc = "release" /\ pc' = "returned" /\ arrays = <<>>
      /\ UNCHANGED <<params, ptr, buf, java, exception, called, wrote>>
  BY DEF Return, outcome
<1>2. N' = N /\ Args' = Args /\ Before' = Before /\ DOMAIN Args = 1 .. N
  <2>1. DOMAIN Args = 1 .. N
    BY DEF Args
  <2> QED BY <1>1, <2>1, SameArgs
<1>3. ASSUME NEW h, NEW new, h = how, java = new
      PROVE  Atomic!Ends(h, new)
  BY <1>1, <1>2, <1>3 DEF Atomic!Ends
<1>4. CASE ~called
  <2>1. exception # "none" /\ java = Before
    BY <1>1, <1>4 DEF DeliveryInv, ContentInv, AtomicInv, ResultInv
  <2>2. Atomic!Refuse
    BY <1>1, <1>3, <2>1 DEF Atomic!Refuse
  <2> QED BY <2>2 DEF Atomic!Next
<1>5. CASE called
  <2>1. /\ \A i \in 1 .. N : ptr[i].to # "null"
        /\ \A i \in wrote : ptr[i].to \in {"stack", "heap", "pinned"}
        /\ wrote \subseteq 1 .. N
    BY <1>5 DEF AtomicInv, WayInv, ArrayInv, TypeOK
  <2>2. /\ Atomic!Copies = Copied /\ Atomic!Outs = Outs
        /\ Atomic!Pins = {i \in 1 .. N : ptr[i].to = "pinned"}
    BY <2>1, WaysOf DEF AtomicInv
  <2>3. \A i \in Copied : /\ i \in 1 .. N
                          /\ Args[i].in = IsIn(params[i]) /\ Args[i].fits = InRange(params[i])
    BY ArgOf DEF Copied
  <2>4. Atomic!Runs(wrote)
    <3>1. wrote \subseteq Copied \cup {i \in 1 .. N : ptr[i].to = "pinned"}
      BY <2>1 DEF Copied
    <3>2. \A i \in Copied : Args[i].in => Args[i].fits
      BY <2>3 DEF AtomicInv, WayInv, CopyInFails
    <3> QED BY <2>2, <3>1, <3>2 DEF Atomic!Runs
  <2>5. Outs \subseteq Copied /\ Outs \cap Released = Outs
    BY <1>1 DEF Outs, Released, Listed
  <2>6. PICK D \in SUBSET Outs :
          /\ java = Atomic!After(Before, wrote, D)
          /\ \A i \in D : InRange(params[i])
          /\ \/ exception = "none" /\ D = Outs \cap Released
             \/ exception = "Callback" /\ D = {}
             \/ /\ exception = "OutOfBounds"
                /\ \E k \in Outs : ~InRange(params[k]) /\ D = {i \in Outs : i > k}
    BY <1>5 DEF AtomicInv, ResultInv
  <2>7. Atomic!Ends(how, Atomic!After(Before, wrote, D))
    BY <1>3, <2>6
  <2>8. CASE exception = "none"
    <3>1. \A i \in Outs : Args[i].fits
      BY <2>3, <2>5, <2>6, <2>8
    <3>2. Atomic!Return(wrote)
      BY <1>1, <2>2, <2>4, <2>5, <2>6, <2>7, <2>8, <3>1 DEF Atomic!Return
    <3> QED BY <1>2, <2>1, <3>2 DEF Atomic!Next
  <2>9. CASE exception = "Callback"
    <3>1. Atomic!Throw(wrote)
      BY <1>1, <2>4, <2>6, <2>7, <2>9 DEF Atomic!Throw
    <3> QED BY <1>2, <2>1, <3>1 DEF Atomic!Next
  <2>10. CASE exception = "OutOfBounds"
    <3>1. PICK k \in Outs : ~InRange(params[k]) /\ D = {i \in Outs : i > k}
      BY <2>6, <2>10
    <3>2. k \in 1 .. N /\ ~Args[k].fits
      BY <2>3, <2>5, <3>1
    <3>3. \A i \in Outs : i > k => Args[i].fits
      BY <2>3, <2>5, <2>6, <3>1
    <3>4. Atomic!Misfit(wrote, k)
      BY <1>1, <2>2, <2>4, <2>7, <2>10, <3>1, <3>2, <3>3 DEF Atomic!Misfit
    <3> QED BY <1>2, <2>1, <3>2, <3>4 DEF Atomic!Next
  <2> QED BY <2>6, <2>8, <2>9, <2>10
<1> QED BY <1>4, <1>5

\* Every step of the code is a step of the ArrayCall, or none.
LEMMA StepCalls ==
  ASSUME ArrayInv, DeliveryInv, AtomicInv, [Next]_vars
  PROVE  [Atomic!Next]_(Atomic!vars)
<1>1. CASE Return
  BY <1>1, ReturnCompletes
<1>2. CASE Marshal
  <2> USE DEF Usable, Indexed, Marshalling, Advance, Fail
  <2>1. CASE MarshalBadIndex \/ MarshalNull \/ MarshalPinned
    BY <2>1, InsideStutters DEF MarshalBadIndex, MarshalNull, MarshalPinned
  <2>2. CASE MarshalStack \/ MarshalHeap \/ MarshalOutOfRange
    BY <2>2, InsideStutters DEF MarshalStack, MarshalHeap, MarshalOutOfRange
  <2>3. CASE MarshalNoMemory \/ MarshalCrash \/ MarshalBuffer
    BY <2>3, InsideStutters DEF MarshalNoMemory, MarshalCrash, MarshalBuffer
  <2>4. CASE MarshalNoAddress \/ MarshalOther \/ MarshalDone
    BY <2>4, InsideStutters DEF MarshalNoAddress, MarshalOther, MarshalDone
  <2> QED BY <1>2, <2>1, <2>2, <2>3, <2>4 DEF Marshal
<1>3. CASE \/ Pin \/ PinFails \/ PinDone \/ Release \/ ReleaseCrash
           \/ \E W \in SUBSET (1 .. N), throws \in BOOLEAN : Call(W, throws)
  <2>1. CASE Pin \/ PinFails \/ PinDone
    BY <2>1, InsideStutters DEF Pin, PinFails, PinDone, Fail
  <2>2. CASE Release \/ ReleaseCrash
    BY <2>2, InsideStutters DEF Release, ReleaseArray, ReleaseCrash
  <2>3. ASSUME NEW W \in SUBSET (1 .. N), NEW throws \in BOOLEAN, Call(W, throws)
        PROVE  UNCHANGED Atomic!vars
    BY <2>3, InsideStutters DEF Call
  <2> QED BY <1>3, <2>1, <2>2, <2>3
<1>4. CASE UNCHANGED vars
  <2>1. UNCHANGED <<params, pc, java, exception>> /\ Args' = Args /\ Before' = Before
    BY <1>4, SameArgs DEF vars
  <2> QED BY <2>1 DEF Atomic!vars
<1> QED BY <1>1, <1>2, <1>3, <1>4 DEF Next

\* On either path, with any objects and whatever fails on the way, what Java sees
\* of a call with array parameters is a call that happens in one step.
THEOREM CallsAtomically == Spec => ImplementsArrayCall
<1>1. Init => Atomic!Init
  BY DEF Init, Atomic!Init
<1> QED BY <1>1, StepCalls, ArrayInvariance, DeliveryInvariance, AtomicInvariance, PTL
       DEF Spec, ImplementsArrayCall, Atomic!Spec

=============================================================================
