------------------------------ MODULE Invocation ------------------------------
(***************************************************************************)
(* One call from Java to a C function and back, over each of the entry     *)
(* points of Invoker.  The context is prepared natively (newCallContext),  *)
(* the parameters are encoded in Java, picked up again in C at positions   *)
(* that C computes for itself, and the result travels back.                *)
(***************************************************************************)
EXTENDS NativeValues, FiniteSets, Functions

CONSTANTS
  Machines,     \* [be, addr, cpu]: byte order, size of a pointer, processor
  Signatures    \* [ret, params]: params a sequence of [type, how]

Types == {"void", "i8", "i32", "i64", "f32", "ptr", "struct"}
Hows == {"value", "direct", "object"}

\* A processor's own fast path goes with its byte order and address size; Java
\* gives objects for parameters that are addresses or structs.
ASSUME InvocationAssumption ==
  /\ \A m \in Machines : /\ m.be \in BOOLEAN /\ m.addr \in {4, 8}
                         /\ m.cpu \in {"x86_64", "i386", "other"}
                         /\ m.be => m.cpu = "other"
                         /\ m.cpu = "i386" => m.addr = 4
  /\ \A s \in Signatures :
       /\ s.ret \in Types
       /\ s.params \in Seq([type : Types \ {"void"}, how : Hows])
       /\ \A i \in DOMAIN s.params : s.params[i].how # "value" => s.params[i].type \in {"ptr", "struct"}

VARIABLES
  sig, road,
  pc,           \* "context", "encode", "done", "failed"
  ctx,          \* the CallContext in C: [fastInt, fastLong]
  buf,          \* HeapInvocationBuffer with its ObjectBuffer
  objCount,     \* the object count that the caller of invokeN passes
  passed,       \* the objects it hands to C, in order
  exception,    \* the Java exception that ended the call, or "none"
  received,     \* what the function got for each parameter
  result        \* the eight bytes of the returned jlong, least first

vars == <<machine, sig, road, pc, ctx, buf, objCount, passed, exception, received, result>>

Roads == {"int", "long", "numeric", "buffer", "heap"}
IsInt(t) == t \in {"i8", "i32", "i64", "ptr"}
Params == DOMAIN sig.params
TypeOf(i) == sig.params[i].type
HowOf(i) == sig.params[i].how

\* The members of a set of positions in ascending order.
Rank(S, i) == Cardinality({j \in S : j <= i})
Ascending(S) == [k \in 1..Cardinality(S) |-> CHOOSE i \in S : Rank(S, i) = k]

\* The parameters that are Java objects, and those of them C has to resolve.
Objects == Ascending({i \in Params : HowOf(i) # "value"})
NonDirect == Ascending({i \in Params : HowOf(i) = "object"})

(* ---- What Java holds -------------------------------------------------- *)

Junk == [a \in 0..7 |-> Unset]

\* What Java holds for parameter i: a number of the parameter's type or the
\* native address of a direct object, and the address C finds for an object.
Number(i, n) == Value(<<"n", i>>, Size(machine, IF TypeOf(i) = "struct" THEN "ptr" ELSE TypeOf(i)), n)
Pointer(i) == Value(<<"o", i>>, machine.addr, 8)

(* ---- newCallContext --------------------------------------------------- *)

\* All of the types allow a direct C call with jint, or with jlong, arguments.
FastInt(t) == t \in {"i8", "i32"} \/ (t = "ptr" /\ machine.cpu = "i386")

\* Mutant of FastLong: the default case of the switch does not clear the flag.
FastLongUnlessStruct(t) == machine.cpu = "x86_64" /\ t # "struct"
FastLong(t) == machine.cpu = "x86_64" /\ IsInt(t)

AllTypes == {sig.ret} \cup {TypeOf(i) : i \in Params}

Classified ==
  IF machine.cpu = "other" THEN [fastInt |-> FALSE, fastLong |-> FALSE]
  ELSE [fastInt  |-> \A t \in AllTypes : FastInt(t) \/ t = "void",
        fastLong |-> \A t \in AllTypes : FastLong(t) \/ t = "void"]

NewCallContext ==
  /\ pc = "context"
  /\ \/ ctx' = Classified /\ pc' = "encode" /\ UNCHANGED exception
     \* no memory, a type handle of 0, or ffi_prep_cif refuses: cleanup frees all
     \/ exception' = "context" /\ pc' = "failed" /\ UNCHANGED ctx
  /\ UNCHANGED <<machine, sig, road, buf, objCount, passed, received, result>>

(* ---- HeapInvocationBuffer: one put per parameter ---------------------- *)

PARAM_SIZE == 8

NewBuffer(capacity) ==
  [bytes |-> [a \in 0..(Len(sig.params) * PARAM_SIZE - 1) |-> Zero],
   paramOffset |-> 0, paramIndex |-> 0, objects |-> <<>>, length |-> capacity]

\* The Encoder writes the number with the width of its type (putAddress with
\* that of a pointer); every put moves on by PARAM_SIZE.
PutWidth(i) == IF TypeOf(i) \in {"ptr", "struct"} THEN machine.addr ELSE Size(machine, TypeOf(i))
Encoded(b, i) ==
  [b EXCEPT !.bytes = Store(@, b.paramOffset, PutWidth(i), Number(i, PutWidth(i))),
            !.paramOffset = @ + PARAM_SIZE, !.paramIndex = @ + 1]

EnsureSpace(b) == IF b.length <= Len(b.objects) + 1 THEN 2 * b.length ELSE b.length

\* Mutant of PutObject: the index stays behind the offset.
PutObjectUncounted(b, i) ==
  [b EXCEPT !.paramOffset = @ + PARAM_SIZE, !.length = EnsureSpace(b),
            !.objects = Append(@, [index |-> b.paramIndex, object |-> <<"o", i>>])]

PutObject(b, i) ==
  [b EXCEPT !.paramOffset = @ + PARAM_SIZE, !.paramIndex = @ + 1,
            !.length = EnsureSpace(b),
            !.objects = Append(@, [index |-> b.paramIndex, object |-> <<"o", i>>])]

Put ==
  /\ pc = "encode" /\ road = "buffer"
  /\ buf.paramIndex < Len(sig.params)
  /\ LET i == buf.paramIndex + 1 IN
     IF HowOf(i) # "object"
     THEN buf' = Encoded(buf, i) /\ UNCHANGED <<exception, pc>>
     ELSE IF Len(buf.objects) < EnsureSpace(buf)
          THEN buf' = PutObject(buf, i) /\ UNCHANGED <<exception, pc>>
          ELSE exception' = "bounds" /\ pc' = "failed" /\ UNCHANGED buf
  /\ UNCHANGED <<machine, sig, road, ctx, objCount, passed, received, result>>

\* The fallback for old native libraries: 32 bits for every small type.
EncodedAll ==
  [NewBuffer(0) EXCEPT
     !.bytes = [a \in DOMAIN @ |->
       LET i == a \div PARAM_SIZE + 1
           w == IF Size(machine, TypeOf(i)) <= 4 THEN 4 ELSE 8
       IN  Store([k \in 0..7 |-> Zero], 0, w, Number(i, 8))[a % PARAM_SIZE]],
     !.objects = [k \in 1..Len(NonDirect) |->
                    [index |-> NonDirect[k] - 1, object |-> <<"o", NonDirect[k]>>]]]

(* ---- Invoker.invokeN1 ... invokeN6: which objects go to C ------------- *)

\* dir[i]: the i-th object has a direct strategy; m: the caller's objCount.
\* The answer names the objects passed on, or the exception thrown.
Pass(places) == [places |-> places, throws |-> "none"]
Throw(what) == [places |-> <<>>, throws |-> what]

\* Mutant of Stage: a case without its next++.
StageStays(st, p, dir) ==
  LET others == {c \in st.next..Len(dir) : ~dir[c]}
      c == CHOOSE o \in others : \A q \in others : o <= q
  IN  IF others = {} THEN st ELSE [next |-> c, places |-> [st.places EXCEPT ![p] = c]]

\* Stage p of the sort: a switch on `next' that falls through the direct
\* objects and moves the first other one to place p.
Stage(st, p, dir) ==
  LET others == {c \in st.next..Len(dir) : ~dir[c]}
      c == CHOOSE o \in others : \A q \in others : o <= q
  IN  IF st.next > Len(dir) THEN st
      ELSE IF others = {} THEN [st EXCEPT !.next = Len(dir) + 1]
      ELSE [next |-> c + 1, places |-> [st.places EXCEPT ![p] = c]]

Sorted(dir, stages) ==
  LET st[p \in 0..stages] ==
        IF p = 0 THEN [next |-> 1, places |-> [i \in DOMAIN dir |-> i]]
        ELSE Stage(st[p - 1], p, dir)
  IN  st[stages]

FirstOf(dir, m) == SubSeq(Sorted(dir, m).places, 1, m)

OneObject(dir, m) == IF m = 1 THEN Pass(<<1>>) ELSE Throw("count")

TwoObjects(dir, m) ==
  CASE m = 1 -> Pass(IF dir[1] /\ ~dir[2] THEN <<2>> ELSE <<1>>)
    [] m = 2 -> Pass(<<1, 2>>)
    [] OTHER -> Throw("count")

ManyObjects(dir, m) == IF m <= Len(dir) THEN Pass(FirstOf(dir, m)) ELSE Throw("count")

invokeN1(dir, m) == OneObject(dir, m)
invokeN2(dir, m) == IF Len(dir) = 1 THEN OneObject(dir, m) ELSE TwoObjects(dir, m)

\* Three objects: the last candidate is taken unseen, and a count above three
\* is taken for three.
invokeN3(dir, m) ==
  LET first == IF ~dir[1] THEN 1 ELSE IF ~dir[2] THEN 2 ELSE 3
      second == IF (first = 1 /\ ~dir[2]) \/ first = 3 THEN 2 ELSE 3
  IN  CASE Len(dir) = 1 -> IF m = 1 /\ dir[1] THEN Throw("insufficient") ELSE OneObject(dir, m)
        [] Len(dir) = 2 -> TwoObjects(dir, m)
        [] Len(dir) = 3 -> Pass(SubSeq(IF m < 3 THEN <<first, second>> ELSE <<1, 2, 3>>, 1,
                                       IF m < 3 THEN m ELSE 3))

\* The only overloads that notice when there are fewer objects than counted,
\* though only once as many as there are parameters are asked for.
invokeN4(dir, m) ==
  LET k == Len(dir) IN
  CASE k = 1 -> OneObject(dir, m)
    [] k = 2 -> TwoObjects(dir, m)
    [] k >= 3 /\ m >= k /\ (Sorted(dir, k - 1).next # k \/ dir[k]) -> Throw("insufficient")
    [] OTHER -> ManyObjects(dir, m)

invokeN5(dir, m) ==
  CASE Len(dir) = 1 -> OneObject(dir, m)
    [] Len(dir) = 2 -> IF m = 1 /\ dir[1] THEN Pass(<<2>>) ELSE TwoObjects(dir, m)
    [] OTHER -> ManyObjects(dir, m)

invokeN6(dir, m) == invokeN5(dir, m)

Overload(dir, m) ==
  LET n == Len(sig.params)
  IN  IF m = 0 THEN Pass(<<>>)
      ELSE CASE n = 1 -> invokeN1(dir, m) [] n = 2 -> invokeN2(dir, m)
             [] n = 3 -> invokeN3(dir, m) [] n = 4 -> invokeN4(dir, m)
             [] n = 5 -> invokeN5(dir, m) [] n = 6 -> invokeN6(dir, m)

\* A direct strategy has no object, offset or length to give: it throws.
invokeN(dir, m) ==
  LET got == Overload(dir, m)
  IN  IF \E i \in DOMAIN got.places : dir[got.places[i]] THEN Throw("direct") ELSE got

(* ---- The C side ------------------------------------------------------- *)

\* Numeric entry points: one jlong (jint on the int road) per parameter; a
\* resolved object replaces the number at the index its info names.
Words(objects) ==
  [i \in Params |-> IF i \in objects THEN Pointer(i) ELSE Number(i, 8)]

\* ffi_call reads the low bytes of the word, through ARGPTR on a big-endian
\* machine; a direct C call puts the word into an integer register.
FfiArgument(word, i, n) ==
  LET w == Size(machine, TypeOf(i))
  IN  Read(Order(n, word), IF machine.be THEN n - w ELSE 0, w)

DirectArgument(word, i, n) ==
  [j \in 0..(Size(machine, TypeOf(i)) - 1) |->
     IF IsInt(TypeOf(i)) /\ j < n THEN word[j] ELSE Unset]

\* How the function is called; FastIntInvoke.c and FastLongInvoke.c do not
\* look at the flags of the context.
Way ==
  CASE road = "int" -> IF machine.cpu # "other" THEN "jint" ELSE "ffi"
    [] road = "long" -> IF machine.cpu = "x86_64" THEN "jlong" ELSE "ffi"
    [] road = "numeric" -> IF ctx.fastLong THEN "jlong"
                           ELSE IF ctx.fastInt THEN "jint" ELSE "ffi"
    [] OTHER -> "ffi"

NumericArguments(objects) ==
  [i \in Params |->
     CASE Way = "jint" -> DirectArgument(Words(objects)[i], i, 4)
       [] Way = "jlong" -> DirectArgument(Words(objects)[i], i, 8)
       [] Way = "ffi" -> FfiArgument(Words(objects)[i], i, IF road = "int" THEN 4 ELSE 8)]

\* COPY_ARGS follows the pointer kept for a struct; an object's address goes
\* into the word of a pointer and stands in for the word of any other type.
BufferArguments(b) ==
  [i \in Params |->
     LET at == (i - 1) * PARAM_SIZE
         own == {e \in Range(b.objects) : e.index = i - 1}
         ptr(e) == Value(e.object, machine.addr, machine.addr)
     IN  IF own # {}
         THEN LET e == CHOOSE x \in own : TRUE
              IN  IF TypeOf(i) = "ptr"
                  THEN Read(Store(b.bytes, at, machine.addr, ptr(e)), at, machine.addr)
                  ELSE Memory(ptr(e))
         ELSE IF TypeOf(i) = "struct" THEN Memory(Read(b.bytes, at, machine.addr))
         ELSE Read(b.bytes, at, Size(machine, TypeOf(i)))]

(* ---- The result ------------------------------------------------------- *)

\* sizeof(ffi_arg): libffi widens integers, and only those, to it.
ArgSize == machine.addr

Answer(w, n) == [j \in 0..(n - 1) |-> IF j < w THEN <<"r", 0, j>> ELSE Unset]
Widen(num, n) == [j \in 0..7 |-> IF j < n THEN num[j] ELSE <<"r", 0, Sign>>]

\* FFIValue after the call: ffi_call stores the result at its start, a direct
\* call assigns the register to the jlong member.
ReturnValue ==
  LET w == Size(machine, sig.ret)
      n == IF IsInt(sig.ret) /\ w < ArgSize THEN ArgSize ELSE w
  IN  CASE sig.ret = "void" -> Junk
        [] Way = "ffi" /\ sig.ret # "void" -> Store(Junk, 0, n, Value(<<"r", 0>>, w, n))
        [] Way # "ffi" /\ sig.ret # "void" ->
             Order(8, IF IsInt(sig.ret) THEN Answer(w, 8) ELSE Answer(0, 8))

\* RETVAL: the jlong when the result is wider than ffi_sarg, else the ffi_sarg.
RETVAL ==
  IF Size(machine, sig.ret) > ArgSize THEN Read(ReturnValue, 0, 8)
  ELSE Widen(Read(ReturnValue, 0, ArgSize), ArgSize)

\* Mutant of ReturnInt: the byte order is not looked at.
ReturnIntLittle == Widen(Read(ReturnValue, 0, 4), 4)

\* return_int: the jint on a little-endian machine, else the low half of a long.
ReturnInt ==
  IF machine.be THEN Widen(Read(ReturnValue, 0, ArgSize), 4)
  ELSE Widen(Read(ReturnValue, 0, 4), 4)

\* invokeInt, invokeLong, invokeFloat and ILP32's or LP64's invokeAddress.
BufferResult ==
  CASE sig.ret = "i64" -> Read(ReturnValue, 0, 8)
    [] sig.ret = "f32" -> Widen(Read(ReturnValue, 0, 4), 4)
    [] sig.ret = "ptr" -> IF machine.addr = 8 THEN Read(ReturnValue, 0, 8)
                          ELSE [j \in 0..7 |-> IF j < 4 THEN ReturnInt[j] ELSE Zero]
    [] OTHER -> ReturnInt

Result ==
  CASE road = "int" -> Widen(Read(ReturnValue, 0, ArgSize), 4)
    [] road = "long" -> IF machine.be THEN RETVAL ELSE Read(ReturnValue, 0, 8)
    [] road = "numeric" -> RETVAL
    [] road = "buffer" -> BufferResult
    [] road = "heap" -> IF Size(machine, sig.ret) = 8 THEN Read(ReturnValue, 0, 8) ELSE ReturnInt

(* ---- The calls -------------------------------------------------------- *)

Called(args) ==
  /\ received' = args
  /\ result' = Result
  /\ pc' = "done"

\* invokeI0 ... invokeI6 and invokeL0 ... invokeL6: numbers only.
InvokeInt ==
  /\ pc = "encode" /\ road = "int"
  /\ Called(NumericArguments({}))
  /\ UNCHANGED <<machine, sig, road, ctx, buf, objCount, passed, exception>>

InvokeLong ==
  /\ pc = "encode" /\ road = "long"
  /\ Called(NumericArguments({}))
  /\ UNCHANGED <<machine, sig, road, ctx, buf, objCount, passed, exception>>

\* What Java does for each count that the caller may give.
Outcomes ==
  LET dir == [k \in DOMAIN Objects |-> HowOf(Objects[k]) = "direct"]
  IN  {[count |-> m, got |-> invokeN(dir, m)] :
         m \in IF Objects = <<>> THEN {0} ELSE 0..(Len(Objects) + 1)}

InvokeNumeric ==
  /\ pc = "encode" /\ road = "numeric"
  /\ \E o \in Outcomes :
       /\ objCount' = o.count
       /\ passed' = [k \in DOMAIN o.got.places |-> Objects[o.got.places[k]]]
       /\ \/ /\ o.got.throws = "none"
             /\ Called(NumericArguments(Range(passed')))
             /\ UNCHANGED exception
          \/ /\ o.got.throws # "none"
             /\ exception' = o.got.throws /\ pc' = "failed"
             /\ UNCHANGED <<received, result>>
  /\ UNCHANGED <<machine, sig, road, ctx, buf>>

InvokeBuffer ==
  /\ pc = "encode" /\ road = "buffer"
  /\ buf.paramIndex = Len(sig.params)
  /\ Called(BufferArguments(buf))
  /\ UNCHANGED <<machine, sig, road, ctx, buf, objCount, passed, exception>>

InvokeHeap ==
  /\ pc = "encode" /\ road = "heap"
  /\ buf' = EncodedAll
  /\ Called(BufferArguments(EncodedAll))
  /\ UNCHANGED <<machine, sig, road, ctx, objCount, passed, exception>>

\* What each entry point is for; the deprecated ObjectParameterInvoker takes
\* one to three objects among at most six parameters.
Takes(r, s) ==
  LET types == {s.params[i].type : i \in DOMAIN s.params}
      hows == {s.params[i].how : i \in DOMAIN s.params}
      objects == Cardinality({i \in DOMAIN s.params : s.params[i].how # "value"})
      upTo(n) == Len(s.params) <= n
  IN  CASE r = "int" -> types \cup {s.ret} \subseteq {"i8", "i32", "void"} /\ hows \subseteq {"value"} /\ upTo(6)
        [] r = "long" -> (\A t \in types \cup {s.ret} : IsInt(t) \/ t = "void") /\ hows \subseteq {"value"} /\ upTo(6)
        [] r = "numeric" -> "struct" \notin types \cup {s.ret} /\ upTo(6)
        [] r = "buffer" -> s.ret # "struct"
        [] r = "heap" -> /\ "struct" \notin types \cup {s.ret}
                         /\ "direct" \notin hows /\ objects \in 1..3

Init ==
  /\ machine \in Machines
  /\ sig \in Signatures
  /\ road \in Roads /\ Takes(road, sig)
  /\ pc = "context"
  /\ ctx = [fastInt |-> FALSE, fastLong |-> FALSE]
  /\ \E capacity \in IF road = "buffer" THEN 0..2 ELSE {1} : buf = NewBuffer(capacity)
  /\ objCount = 0 /\ passed = <<>> /\ exception = "none" /\ received = <<>> /\ result = Junk

Done == pc \in {"done", "failed"} /\ UNCHANGED vars

Next == NewCallContext \/ Put \/ InvokeInt \/ InvokeLong \/ InvokeNumeric \/ InvokeBuffer \/ InvokeHeap \/ Done

Spec == Init /\ [][Next]_vars

(* ---- Properties ------------------------------------------------------- *)

\* What putObject records for parameter i.
Entry(i) == [index |-> i - 1, object |-> <<"o", i>>]

TypeOK ==
  /\ machine \in Machines /\ sig \in Signatures /\ road \in Roads
  /\ pc \in {"context", "encode", "done", "failed"}
  /\ buf = [bytes |-> buf.bytes, paramOffset |-> buf.paramOffset, paramIndex |-> buf.paramIndex,
            objects |-> buf.objects, length |-> buf.length]
  /\ DOMAIN buf.bytes = 0..(Len(sig.params) * PARAM_SIZE - 1)
  /\ buf.paramIndex \in 0..Len(sig.params)
  /\ buf.objects \in Seq({Entry(i) : i \in Params})
  /\ buf.length \in Nat

\* What the caller means parameter i to be.
Meant(i) ==
  LET own == <<IF HowOf(i) = "object" THEN "o" ELSE "n", i>>
      address == Value(own, machine.addr, machine.addr)
  IN  CASE TypeOf(i) = "struct" -> Memory(address)
        [] TypeOf(i) = "ptr" -> address
        [] OTHER -> Value(own, Size(machine, TypeOf(i)), Size(machine, TypeOf(i)))

\* HeapObjectParameterInvoker stores small numbers with putInt, which is
\* wrong for one-byte parameters of a big-endian machine.
MisplacedByHeap(i) == road = "heap" /\ machine.be /\ TypeOf(i) = "i8"

\* The function receives every parameter as the caller meant it, whatever
\* machine, entry point and mixture of direct and other objects.
ArgumentsDelivered ==
  pc = "done" /\ (road = "numeric" => objCount = Len(NonDirect)) =>
    \A i \in Params : MisplacedByHeap(i) \/ received[i] = Meant(i)

\* A float goes back to Java as an integer on these roads, and is read from
\* the wrong half of the union on a 64-bit big-endian machine.
FloatFromWrongHalf ==
  sig.ret = "f32" /\ road \in {"numeric", "heap"} /\ machine.be /\ machine.addr = 8

\* Java receives the function's result in the low bytes of what C returns,
\* and invokeAddress never sign-extends an address.
ResultDelivered ==
  pc = "done" /\ sig.ret # "void" /\ ~FloatFromWrongHalf =>
    /\ \A j \in 0..(Size(machine, sig.ret) - 1) : result[j] = <<"r", 0, j>>
    /\ road = "buffer" /\ sig.ret = "ptr" =>
         \A j \in machine.addr..7 : result[j] = Zero

\* An object is handed to C once, or two copies of it would be copied back,
\* and the right count of objects is never refused.  From invokeN4 on a count
\* that is too high repeats the last object; the overloads for fewer
\* parameters then meet a direct strategy, which throws.
ResolvedOnce ==
  /\ Len(sig.params) <= 3 \/ objCount <= Len(NonDirect) => IsInjective(passed)
  /\ pc = "failed" /\ exception # "context" /\ road = "numeric" => objCount # Len(NonDirect)

\* A parameter's object carries the index at which the Encoder stands, and
\* ObjectBuffer has room for it unless it was created for no object at all.
PositionsAgree ==
  /\ road = "buffer" => buf.paramOffset = PARAM_SIZE * buf.paramIndex
  /\ \A k \in DOMAIN buf.objects : buf.objects[k].object = <<"o", buf.objects[k].index + 1>>
  /\ road = "buffer" => Len(buf.objects) <= buf.length
  /\ exception = "bounds" => buf.length = 0

(* ---- The inductive invariant ------------------------------------------ *)

\* An entry point is used for what it takes, with the context made for it.
Prepared ==
  /\ Takes(road, sig)
  /\ pc \in {"encode", "done"} => ctx = Classified

\* Every parameter that was put is in its word, or recorded as an object.
EncodingInv ==
  road = "buffer" =>
    /\ \A i \in 1..buf.paramIndex : HowOf(i) # "object" =>
         \A k \in 0..(PutWidth(i) - 1) :
           buf.bytes[(i - 1) * PARAM_SIZE + k] = Order(PutWidth(i), Number(i, PutWidth(i)))[k]
    /\ \A i \in Params : i <= buf.paramIndex /\ HowOf(i) = "object" <=> Entry(i) \in Range(buf.objects)

InvocationInv ==
  /\ TypeOK
  /\ Prepared
  /\ EncodingInv
  /\ PositionsAgree
  /\ ResultDelivered
  /\ ResolvedOnce
  /\ ArgumentsDelivered
=============================================================================
