------------------------------ MODULE ArrayParams ------------------------------
(***************************************************************************)
(* One call of a native function with Java objects among its parameters:   *)
(* invokeArrayWithObjects_ (Invoke.c), its counterpart for the invokeNnOo  *)
(* methods (FastNumericInvoker.c) and the array handling of Array.c.  The  *)
(* objects are marshalled in order: an array is copied to the C stack or   *)
(* to the heap, or recorded for pinning; then the recorded arrays are      *)
(* pinned, the function is called, and the arrays are copied out and       *)
(* released last to first.  Any step may fail on the way.                  *)
(*                                                                         *)
(* Arrays are kept byte by byte.  A byte holds a tag saying who put it     *)
(* there, so that a property can tell what Java gets to see.  Offsets and  *)
(* lengths are not negative and small enough for the sizes in bytes not to *)
(* overflow.  The other parameters and the result are left out.            *)
(***************************************************************************)
EXTENDS Integers, Sequences

CONSTANTS
  Objects,        \* the Java arrays
  Prim,           \* Prim[o]: component type of the array o, as coded in ObjectBuffer
  Length,         \* Length[o]: its length in elements
  ParamLists,     \* the lists of object parameters of a call
  MaxStackArray   \* MAX_STACK_ARRAY, 1024 in the code

\* ObjectBuffer: the type byte of the flags, shifted right by TYPE_SHIFT.
ARRAY     == 16
BUFFER    == 32
JNI       == 64
JNIENV    == 1
JNIOBJECT == 2
Prims     == 1 .. 8      \* BYTE, SHORT, INT, LONG, FLOAT, DOUBLE, BOOLEAN, CHAR

\* The type bytes that the Java side makes: an array or a buffer, one of the
\* two JNI types, or 0 for a strategy that names no type.
Types == {0} \cup {ARRAY + t : t \in Prims} \cup {BUFFER + t : t \in 0 .. 8}
             \cup {JNI + JNIENV, JNI + JNIOBJECT}

\* sizeof the component type (jffi_arraySize)
ElemSize(prim) == <<1, 2, 4, 8, 4, 8, 1, 2>>[prim]

Bytes(o) == 0 .. ElemSize(Prim[o]) * Length[o] - 1

\* An object parameter: object o (or null), the type byte, the ioflags, and
\* offset and length in elements.  A buffer may not be direct; valid is
\* whether the parameter index is one of the function's parameters.  The call
\* came through an invokeNnOo method (fast) or through a parameter buffer.
Params == [o : Objects, null : BOOLEAN, type : Types,
           flags : SUBSET {"IN", "OUT", "PINNED", "CLEAR"},
           offset : Nat, length : Nat, direct : BOOLEAN, valid : BOOLEAN,
           fast : BOOLEAN]

ASSUME ArrayParamsAssumption ==
  /\ Prim \in [Objects -> Prims]
  /\ Length \in [Objects -> Nat]
  /\ ParamLists \subseteq Seq(Params)
  /\ \A l \in ParamLists : \A i, j \in 1 .. Len(l) : l[i].fast = l[j].fast
  /\ MaxStackArray \in Nat

VARIABLES
  params,    \* the object parameters of the call
  pc,        \* marshal, pin, call, release, returned or crashed
  next,      \* marshal, pin: the next entry of params or pins
  arrays,    \* the Array structs in use: indexes into params
  pins,      \* arrays recorded for pinning: indexes into params
  ptr,       \* ptr[i]: what argument i points to, and where in the array it starts
  heap,      \* parameters whose malloc'ed copy is allocated
  held,      \* parameters whose array is pinned
  buf,       \* buf[i]: the bytes of the native copy of parameter i
  java,      \* java[o]: the bytes of the Java array o
  exception, \* the exception pending in the JNIEnv
  called,    \* history: was the native function called?
  wrote,     \* history: the parameters the native function wrote through
  critical   \* history: kinds of JNI function called while an array was pinned

vars == <<params, pc, next, arrays, pins, ptr, heap, held, buf, java, exception,
          called, wrote, critical>>
outcome == <<called, wrote>>

N == Len(params)

\* Tags of bytes; i > 0 is what the function wrote through parameter i.
FromJava == 0
Zero     == -1
Garbage  == -2

Exceptions == {"none", "NullPointer", "IllegalArgument", "OutOfBounds", "OutOfMemory", "Callback"}

Category(p) == 16 * (p.type \div 16)
PrimOf(p)   == p.type % 16
IsIn(p)     == "OUT" \notin p.flags \/ "IN" \in p.flags
IsOut(p)    == "IN" \notin p.flags \/ "OUT" \in p.flags
Pinned(p)   == "PINNED" \in p.flags
Size(p)     == p.length * ElemSize(PrimOf(p))

\* Where in the array the data of p starts and what Get and Set<Type>ArrayRegion
\* check before they copy.
Start(p)   == p.offset * ElemSize(PrimOf(p))
InRange(p) == p.offset + p.length <= Length[p.o]
Region(p)  == Start(p) .. Start(p) + Size(p) - 1

\* put<Type>Array writes the type of the array it is given; a strategy must
\* declare the type of its arrays, or the JNI function is the wrong one.
ASSUME ArrayTypeAssumption ==
  \A l \in ParamLists : \A i \in 1 .. Len(l) :
    Category(l[i]) = ARRAY => PrimOf(l[i]) = Prim[l[i].o]

OnStack(p) == Category(p) = ARRAY /\ ~Pinned(p) /\ p.length < MaxStackArray
OnHeap(p)  == Category(p) = ARRAY /\ ~Pinned(p) /\ p.length >= MaxStackArray

Init ==
  /\ params \in ParamLists
  /\ pc = "marshal"
  /\ next = 1
  /\ arrays = <<>>
  /\ pins = <<>>
  /\ ptr = [i \in 1 .. N |-> [to |-> "null", at |-> 0]]
  /\ heap = {}
  /\ held = {}
  /\ buf = [i \in 1 .. N |-> <<>>]
  /\ java = [o \in Objects |-> [b \in Bytes(o) |-> FromJava]]
  /\ exception = "none"
  /\ called = FALSE
  /\ wrote = {}
  /\ critical = {}

\* Calling a JNI function of this kind: noted when it happens in a critical region.
Jni(k) == critical' = IF held # {} THEN critical \cup {k} ELSE critical

\* throwException(...); goto cleanup
Fail(e) == pc' = "release" /\ exception' = e

Advance(to, at) ==
  /\ ptr' = [ptr EXCEPT ![next] = [to |-> to, at |-> at]]
  /\ next' = next + 1
  /\ UNCHANGED <<pc, exception>>

(***************************************************************************)
(* Marshalling, one object at a time                                       *)
(***************************************************************************)
Marshalling == pc = "marshal" /\ next <= N
P == params[next]

\* The index check of ADDOBJ.
MarshalBadIndex ==
  /\ Marshalling
  /\ P.fast
  /\ ~P.valid
  /\ Fail("OutOfBounds")
  /\ Jni("throw")
  /\ UNCHANGED <<params, next, arrays, pins, ptr, heap, held, buf, java, outcome>>

Indexed == Marshalling /\ (P.fast => P.valid)

\* The parameters whose object is tested for null before it is used: not the
\* stack arrays of the fast path, nor the JNI parameters.
NullChecked(p) ==
  IF p.fast THEN ~OnStack(p) ELSE Category(p) \in {ARRAY, BUFFER}

MarshalNull ==
  /\ Indexed
  /\ P.null
  /\ NullChecked(P)
  /\ Fail("NullPointer")
  /\ Jni("throw")
  /\ UNCHANGED <<params, next, arrays, pins, ptr, heap, held, buf, java, outcome>>

Usable == Indexed /\ ~(P.null /\ NullChecked(P))

\* Mutant of MarshalPinned: pins the array at once.
MarshalPinnedNow ==
  /\ Usable
  /\ Category(P) = ARRAY
  /\ Pinned(P)
  /\ held' = held \cup {next}
  /\ arrays' = Append(arrays, next)
  /\ Advance("pinned", P.offset)
  /\ UNCHANGED <<params, pins, heap, buf, java, outcome, critical>>

\* A pinned array is only recorded here.
MarshalPinned ==
  /\ Usable
  /\ Category(P) = ARRAY
  /\ Pinned(P)
  /\ pins' = Append(pins, next)
  /\ Advance("null", 0)
  /\ UNCHANGED <<params, arrays, heap, held, buf, java, outcome, critical>>

\* Mutant of CopyIn: CLEAR is not looked at.
CopyInUncleared(p) ==
  [b \in 0 .. Size(p) - 1 |-> IF IsIn(p) THEN java[p.o][Start(p) + b] ELSE Garbage]

\* COPY_DATA: the native copy of an array, before the call.
CopyIn(p) ==
  [b \in 0 .. Size(p) - 1 |->
     IF IsIn(p) THEN java[p.o][Start(p) + b]
     ELSE IF "CLEAR" \in p.flags THEN Zero ELSE Garbage]

\* Get<Type>ArrayRegion throws when the range is not inside the array.
CopyInFails(p) == IsIn(p) /\ ~InRange(p)

\* jffi_getArrayBuffer into memory of the C stack, of length + 1 elements.
MarshalStack ==
  /\ Usable
  /\ OnStack(P)
  /\ ~(P.null /\ IsIn(P))
  /\ ~CopyInFails(P)
  /\ buf' = [buf EXCEPT ![next] = CopyIn(P)]
  /\ arrays' = Append(arrays, next)
  /\ Advance("stack", Start(P))
  /\ (IF IsIn(P) THEN Jni("region") ELSE UNCHANGED critical)
  /\ UNCHANGED <<params, pins, heap, held, java, outcome>>

\* jffi_getArrayHeap: the same into a malloc'ed block.
MarshalHeap ==
  /\ Usable
  /\ OnHeap(P)
  /\ ~CopyInFails(P)
  /\ heap' = heap \cup {next}
  /\ buf' = [buf EXCEPT ![next] = CopyIn(P)]
  /\ arrays' = Append(arrays, next)
  /\ Advance("heap", Start(P))
  /\ (IF IsIn(P) THEN Jni("region") ELSE UNCHANGED critical)
  /\ UNCHANGED <<params, pins, held, java, outcome>>

\* The copy throws; the block of a heap array has been allocated by then.
MarshalOutOfRange ==
  /\ Usable
  /\ Category(P) = ARRAY
  /\ ~Pinned(P)
  /\ ~P.null
  /\ CopyInFails(P)
  /\ heap' = IF OnHeap(P) THEN heap \cup {next} ELSE heap
  /\ Fail("OutOfBounds")
  /\ Jni("region")
  /\ UNCHANGED <<params, next, arrays, pins, ptr, held, buf, java, outcome>>

\* malloc returns NULL.
MarshalNoMemory ==
  /\ Usable
  /\ OnHeap(P)
  /\ Fail("OutOfMemory")
  /\ Jni("throw")
  /\ UNCHANGED <<params, next, arrays, pins, ptr, heap, held, buf, java, outcome>>

\* The fast path copies from a null array: the VM dereferences it.
MarshalCrash ==
  /\ Usable
  /\ OnStack(P)
  /\ P.null
  /\ IsIn(P)
  /\ pc' = "crashed"
  /\ UNCHANGED <<params, next, arrays, pins, ptr, heap, held, buf, java, exception,
                 outcome, critical>>

\* GetDirectBufferAddress
MarshalBuffer ==
  /\ Usable
  /\ Category(P) = BUFFER
  /\ P.direct
  /\ Advance("buffer", P.offset)
  /\ Jni("buffer")
  /\ UNCHANGED <<params, arrays, pins, heap, held, buf, java, outcome>>

MarshalNoAddress ==
  /\ Usable
  /\ Category(P) = BUFFER
  /\ ~P.direct
  /\ Fail("NullPointer")
  /\ Jni("throw")
  /\ UNCHANGED <<params, next, arrays, pins, ptr, heap, held, buf, java, outcome>>

\* The inner switch of the JNI case compares the whole type byte.
JniAccepts(p) == ~p.fast /\ Category(p) = JNI /\ p.type \in {JNIENV, JNIOBJECT}

\* The JNI case, and the default: any type that is not accepted is refused.
MarshalOther ==
  /\ Usable
  /\ Category(P) \notin {ARRAY, BUFFER}
  /\ IF JniAccepts(P)
     THEN Advance("jni", 0) /\ UNCHANGED critical
     ELSE Fail("IllegalArgument") /\ Jni("throw") /\ UNCHANGED <<next, ptr>>
  /\ UNCHANGED <<params, arrays, pins, heap, held, buf, java, outcome>>

MarshalDone ==
  /\ pc = "marshal"
  /\ next > N
  /\ pc' = "pin"
  /\ next' = 1
  /\ UNCHANGED <<params, arrays, pins, ptr, heap, held, buf, java, exception, outcome, critical>>

(***************************************************************************)
(* Pinning and the call                                                    *)
(***************************************************************************)
\* jffi_getArrayCritical returns (char *) elems + offset.
PinnedAt(p) == p.offset

Pin ==
  /\ pc = "pin"
  /\ next <= Len(pins)
  /\ LET i == pins[next] IN
     /\ held' = held \cup {i}
     /\ arrays' = Append(arrays, i)
     /\ ptr' = [ptr EXCEPT ![i] = [to |-> "pinned", at |-> PinnedAt(params[i])]]
  /\ next' = next + 1
  /\ UNCHANGED <<params, pc, pins, heap, buf, java, exception, outcome, critical>>

\* GetPrimitiveArrayCritical returns NULL: an exception is thrown here.
PinFails ==
  /\ pc = "pin"
  /\ next <= Len(pins)
  /\ Fail("NullPointer")
  /\ Jni("throw")
  /\ UNCHANGED <<params, next, arrays, pins, ptr, heap, held, buf, java, outcome>>

PinDone ==
  /\ pc = "pin"
  /\ next > Len(pins)
  /\ pc' = "call"
  /\ UNCHANGED <<params, next, arrays, pins, ptr, heap, held, buf, java, exception, outcome, critical>>

\* The bytes of the Java array that the function reaches through a pinned pointer.
PinnedRegion(i) == ptr[i].at .. ptr[i].at + Size(params[i]) - 1

\* ffi_call: the function fills some of the arrays, whatever their direction,
\* and may call back into Java code that throws.
Call(W, throws) ==
  LET pinnedW == {i \in W : ptr[i].to = "pinned"} IN
  /\ pc = "call"
  /\ W \subseteq {i \in 1 .. N : ptr[i].to \in {"stack", "heap", "pinned"}}
  /\ buf' = [i \in 1 .. N |-> IF i \in W /\ i \notin pinnedW
                              THEN [b \in 0 .. Size(params[i]) - 1 |-> i] ELSE buf[i]]
  /\ java' = [o \in Objects |-> [b \in Bytes(o) |->
                LET by == {i \in pinnedW : params[i].o = o /\ b \in PinnedRegion(i)} IN
                IF by = {} THEN java[o][b] ELSE CHOOSE i \in by : \A j \in by : j <= i]]
  /\ called' = TRUE
  /\ wrote' = W
  /\ exception' = IF throws THEN "Callback" ELSE "none"
  /\ pc' = "release"
  /\ UNCHANGED <<params, next, arrays, pins, ptr, heap, held, critical>>

(***************************************************************************)
(* jffi_releaseArrays, from the last array to the first                    *)
(***************************************************************************)
\* Mutant of CopiesOut: heap arrays are not copied out.
CopiesOutStack(p) == IsOut(p) /\ ~Pinned(p) /\ exception = "none" /\ OnStack(p)

\* Set<Type>ArrayRegion is called for these.  Pinned arrays have no copyout.
CopiesOut(p) == IsOut(p) /\ ~Pinned(p) /\ exception = "none"

\* Array k: copied out, then freed or unpinned.
ReleaseArray(k) ==
  LET i == arrays[k]
      p == params[i]
  IN
  /\ pc = "release"
  /\ k \in 1 .. Len(arrays)
  /\ ~(CopiesOut(p) /\ p.null)
  /\ java' = IF CopiesOut(p) /\ InRange(p)
             THEN [java EXCEPT ![p.o] = [b \in Bytes(p.o) |->
                     IF b \in Region(p) THEN buf[i][b - Start(p)] ELSE java[p.o][b]]]
             ELSE java
  /\ exception' = IF CopiesOut(p) /\ ~InRange(p) THEN "OutOfBounds" ELSE exception
  /\ heap' = heap \ {i}
  /\ held' = held \ {i}
  /\ arrays' = SubSeq(arrays, 1, k - 1) \o SubSeq(arrays, k + 1, Len(arrays))
  /\ (IF CopiesOut(p) THEN Jni("region") ELSE UNCHANGED critical)
  /\ UNCHANGED <<params, pc, next, pins, ptr, buf, outcome>>

\* Mutant of Release: from the first array to the last.
ReleaseForward == ReleaseArray(1)

Release == ReleaseArray(Len(arrays))

\* Copying out to a null array that the fast path did not test.
ReleaseCrash ==
  /\ pc = "release"
  /\ arrays # <<>>
  /\ LET p == params[arrays[Len(arrays)]] IN CopiesOut(p) /\ p.null
  /\ pc' = "crashed"
  /\ UNCHANGED <<params, next, arrays, pins, ptr, heap, held, buf, java, exception,
                 outcome, critical>>

\* Mutant of Return: the loop stops before the first array.
ReturnEarly ==
  /\ pc = "release"
  /\ Len(arrays) <= 1
  /\ pc' = "returned"
  /\ UNCHANGED <<params, next, arrays, pins, ptr, heap, held, buf, java, exception,
                 outcome, critical>>

Return ==
  /\ pc = "release"
  /\ arrays = <<>>
  /\ pc' = "returned"
  /\ UNCHANGED <<params, next, arrays, pins, ptr, heap, held, buf, java, exception,
                 outcome, critical>>

Marshal ==
  \/ MarshalBadIndex \/ MarshalNull \/ MarshalPinned \/ MarshalStack \/ MarshalHeap
  \/ MarshalOutOfRange \/ MarshalNoMemory \/ MarshalCrash \/ MarshalBuffer
  \/ MarshalNoAddress \/ MarshalOther \/ MarshalDone

Next ==
  \/ Marshal
  \/ Pin \/ PinFails \/ PinDone
  \/ \E W \in SUBSET (1 .. N), throws \in BOOLEAN : Call(W, throws)
  \/ Release \/ ReleaseCrash \/ Return

Spec == Init /\ [][Next]_vars

(***************************************************************************)
(* Properties                                                              *)
(***************************************************************************)
TypeOK ==
  /\ params \in Seq(Params)
  /\ pc \in {"marshal", "pin", "call", "release", "returned", "crashed"}
  /\ next \in 1 .. N + 1
  /\ arrays \in Seq(1 .. N)
  /\ pins \in Seq(1 .. N)
  /\ ptr \in [1 .. N -> [to : {"null", "stack", "heap", "pinned", "buffer", "jni"}, at : Nat]]
  /\ heap \subseteq 1 .. N
  /\ held \subseteq 1 .. N
  /\ DOMAIN buf = 1 .. N
  /\ DOMAIN java = Objects
  /\ exception \in Exceptions
  /\ called \in BOOLEAN
  /\ wrote \subseteq 1 .. N
  /\ critical \subseteq {"region", "throw", "buffer"}

Listed(i, s) == \E k \in 1 .. Len(s) : s[k] = i

\* What each argument has become: while marshalling, an argument without a
\* pointer is recorded for pinning; while pinning, it is still to be pinned.
PointerInv ==
  /\ pc = "marshal" => Len(pins) < next
  /\ pc = "pin" => Len(pins) <= N
  /\ pc = "marshal" => \A i \in 1 .. next - 1 : ptr[i].to # "null" \/ Listed(i, pins)
  /\ pc = "pin" => \A i \in 1 .. N : ptr[i].to # "null" \/ \E k \in next .. Len(pins) : pins[k] = i
  /\ pc = "call" => \A i \in 1 .. N : ptr[i].to # "null"

\* The pinned arrays come last in arrays, and whatever is pinned is listed there.
PinInv ==
  /\ pc = "marshal" => held = {} /\ \A k \in 1 .. Len(arrays) : ~Pinned(params[arrays[k]])
  /\ \A k \in 1 .. Len(pins) : Pinned(params[pins[k]])
  /\ \A k \in 1 .. Len(arrays) : Pinned(params[arrays[k]]) =>
        \A l \in k .. Len(arrays) : Pinned(params[arrays[l]])
  /\ \A i \in held : Pinned(params[i]) /\ Listed(i, arrays)
  /\ critical \subseteq {"throw"}
  /\ critical # {} => ~called /\ exception # "none"

\* Whatever is allocated is listed in arrays, except the block whose copy threw.
HeapInv ==
  \/ \A i \in heap : Listed(i, arrays)
  \/ /\ pc \in {"release", "returned"} /\ ~called /\ exception = "OutOfBounds"
     /\ \A i \in heap : i = next \/ Listed(i, arrays)

\* The inductive invariant of a call.
ArrayInv ==
  /\ TypeOK /\ PointerInv /\ PinInv /\ HeapInv
  /\ pc \in {"marshal", "pin", "call"} => exception = "none" /\ ~called
  /\ pc = "returned" => arrays = <<>>

\* The function is called with no exception pending and with every object
\* parameter turned into a pointer: an array copied or pinned, never a null
\* left behind by the recording of a pinned array.
ReadyToCall ==
  pc = "call" => exception = "none" /\ \A i \in 1 .. N : ptr[i].to # "null"

\* However the call ends, no array stays pinned, and a heap copy stays allocated
\* only when copying into it threw, in which case the function was not called.
Balanced ==
  pc = "returned" =>
    /\ held = {}
    /\ heap # {} => ~called /\ exception = "OutOfBounds" /\ heap = {next}

\* "JNI operations [are not allowed] once any array has been pinned": arrays are
\* copied in before the first is pinned and copied out after the last is released,
\* although one loop releases both kinds.  The one JNI call made with an array
\* pinned throws because another could not be, and then the function is not called.
JniOnlyAfterFailedPin ==
  critical # {} => critical = {"throw"} /\ ~called /\ exception # "none"

\* When the call returns normally, what the function wrote through an OUT
\* array is in the Java array, unless the array was passed twice.
OutDelivered ==
  pc = "returned" /\ exception = "none" =>
    \A i \in wrote : LET p == params[i] IN
      \/ ~IsOut(p) \/ Pinned(p)
      \/ \E j \in 1 .. N \ {i} : Category(params[j]) = ARRAY /\ params[j].o = p.o
      \/ \A b \in Region(p) : java[p.o][b] = i

\* Of two OUT copies of the same bytes, the one of the first parameter is what
\* Java sees, whether or not the function wrote through it.
FirstParameterWins ==
  pc = "returned" /\ exception = "none" =>
    \A i \in 1 .. N : LET p == params[i] IN
      \/ ptr[i].to \notin {"stack", "heap"} \/ ~IsOut(p)
      \/ \A b \in Region(p) :
           \/ java[p.o][b] = buf[i][b - Start(p)]
           \/ \E j \in 1 .. i - 1 : params[j].o = p.o /\ ptr[j].to \in {"stack", "heap"}
                                      /\ IsOut(params[j]) /\ b \in Region(params[j])

\* A call that fails before the function runs leaves every Java array as it was,
\* and one that a callback made fail changes pinned arrays only.
NothingDeliveredOnFailure ==
  exception # "none" /\ (~called \/ exception = "Callback") =>
    \A o \in Objects : \A b \in Bytes(o) :
      java[o][b] # FromJava => java[o][b] \in wrote /\ Pinned(params[java[o][b]])

\* Uninitialised native memory reaches Java only through an array that is OUT,
\* not IN and not CLEAR.
GarbageOnlyFromUncleared ==
  \A o \in Objects : \A b \in Bytes(o) :
    java[o][b] = Garbage =>
      \E i \in 1 .. N : params[i].o = o /\ ~IsIn(params[i]) /\ "CLEAR" \notin params[i].flags

(***************************************************************************)
(* The inductive invariant behind the four properties above: the copies    *)
(* come before the pinned arrays and in the order of the parameters, so    *)
(* they are copied out in the reverse order.                               *)
(***************************************************************************)
Copied == {i \in 1 .. N : ptr[i].to \in {"stack", "heap"}}

Released == {i \in Copied : ~Listed(i, arrays)}

OrderInv ==
  /\ \A i \in Copied : Category(params[i]) = ARRAY /\ ~Pinned(params[i])
  /\ \A i \in 1 .. N : ptr[i].to = "pinned" => Pinned(params[i])
  /\ \A k \in 1 .. Len(arrays) : arrays[k] \in Copied \/ Pinned(params[arrays[k]])
  /\ \A k, l \in 1 .. Len(arrays) : k < l /\ arrays[l] \in Copied => arrays[k] < arrays[l]
  /\ pc = "marshal" => \A i \in 1 .. N : i >= next => ptr[i].to = "null"
  /\ pc \in {"marshal", "pin", "call"} => Released = {}
  /\ \A i \in Released, k \in 1 .. Len(arrays) : arrays[k] \in Copied => arrays[k] < i

\* The copy of parameter i has reached Java, but for the bytes that an earlier
\* parameter of the same array has overwritten.
CopiedOut(i) ==
  LET p == params[i] IN
  /\ Region(p) \subseteq Bytes(p.o)
  /\ \A b \in Region(p) :
       \/ java[p.o][b] = buf[i][b - Start(p)]
       \/ \E j \in Released : /\ j < i /\ params[j].o = p.o
                               /\ IsOut(params[j]) /\ b \in Region(params[j])

ContentInv ==
  /\ ~called => wrote = {} /\ \A o \in Objects : \A b \in Bytes(o) : java[o][b] = FromJava
  /\ pc \in {"release", "returned"} /\ ~called => exception # "none"
  /\ exception = "Callback" =>
       \A o \in Objects : \A b \in Bytes(o) :
         java[o][b] # FromJava => java[o][b] \in wrote /\ Pinned(params[java[o][b]])
  /\ \A i \in wrote : i \in Copied \/ Pinned(params[i])
  /\ \A i \in wrote \cap Copied : \A b \in 0 .. Size(params[i]) - 1 : buf[i][b] = i
  /\ \A i \in Copied : \A b \in 0 .. Size(params[i]) - 1 :
       buf[i][b] = Garbage => ~IsIn(params[i]) /\ "CLEAR" \notin params[i].flags
  /\ GarbageOnlyFromUncleared
  /\ exception = "none" => \A i \in Released : IsOut(params[i]) => CopiedOut(i)

DeliveryInv == params \in ParamLists /\ OrderInv /\ ContentInv

(***************************************************************************)
(* Refinement: a call is an ArrayCall, which ends when the invoke method   *)
(* returns to Java.                                                        *)
(***************************************************************************)
Way(p) == IF Category(p) # ARRAY THEN "none" ELSE IF Pinned(p) THEN "pin" ELSE "copy"

Arg(p) ==
  [o     |-> p.o,
   way   |-> Way(p),
   bytes |-> CASE Way(p) = "copy" -> Region(p)
               [] Way(p) = "pin"  -> PinnedAt(p) .. PinnedAt(p) + Size(p) - 1
               [] OTHER           -> {},
   in    |-> IsIn(p), out |-> IsOut(p), clear |-> "CLEAR" \in p.flags, fits |-> InRange(p)]

Args == [i \in 1 .. N |-> Arg(params[i])]

Before == [o \in Objects |-> [b \in Bytes(o) |-> FromJava]]

Atomic == INSTANCE ArrayCall WITH
  args    <- Args,
  java    <- IF pc = "returned" THEN java ELSE Before,
  outcome <- IF pc # "returned" THEN "running" ELSE IF exception = "none" THEN "normal" ELSE "failed"

\* The arrays a caller sees after an invoke method, on either path and whatever
\* fails on the way, are those of a call that happens at once: exactly the
\* bytes that were passed for output have changed, to what the function
\* wrote, what was copied in, zero or, if nothing of this applies, garbage.
ImplementsArrayCall == Atomic!Spec

\* What a pointer is follows from its parameter, and the function has them all.
WayInv ==
  /\ \A i \in 1 .. N :
       /\ ptr[i].to \in {"buffer", "jni"} => Category(params[i]) # ARRAY
       /\ ptr[i].to = "pinned" => Category(params[i]) = ARRAY /\ ptr[i].at = PinnedAt(params[i])
       /\ i \in Copied => ~CopyInFails(params[i])
  /\ \A k \in 1 .. Len(pins) : Category(params[pins[k]]) = ARRAY
  /\ called => \A i \in 1 .. N : ptr[i].to # "null"
  /\ \A i \in wrote : ptr[i].to \in {"stack", "heap", "pinned"}

\* Every byte of a copy is what the ArrayCall says.
CopyInv ==
  \A i \in Copied : \A b \in 0 .. Size(params[i]) - 1 :
    buf[i][b] = Atomic!Held(i, FromJava, wrote)

\* Every byte of an array is what the ArrayCall makes of the copies that have
\* come back so far: all of those released, or those after the one that threw.
Outs == {i \in Copied : IsOut(params[i])}

ResultInv ==
  /\ ~called => java = Before
  /\ called => \E D \in SUBSET Outs :
    /\ java = Atomic!After(Before, wrote, D)
    /\ \A i \in D : InRange(params[i])
    /\ \/ exception = "none" /\ D = Outs \cap Released
       \/ exception = "Callback" /\ D = {}
       \/ /\ exception = "OutOfBounds"
          /\ \E k \in Outs : ~InRange(params[k]) /\ D = {i \in Outs : i > k}

AtomicInv == WayInv /\ CopyInv /\ ResultInv

(***************************************************************************)
(* Properties the code does not have                                       *)
(***************************************************************************)
\* Invoke.c: "Release any array backing memory".
BackingReleased == pc = "returned" => heap = {} /\ held = {}

\* ObjectBuffer.java: the descriptor "stores the offset within the array the data
\* starts"; a copied and a pinned array start at the same element.
PointsToOffset ==
  pc = "call" => \A i \in 1 .. N : Category(params[i]) = ARRAY => ptr[i].at = Start(params[i])
=============================================================================
