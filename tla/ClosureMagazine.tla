---------------------------- MODULE ClosureMagazine ----------------------------
(***************************************************************************)
(* Closure magazines: native blocks with room for N trampolines, made for  *)
(* a ClosurePool, which takes all the closures at once, or for the         *)
(* application, which allocates them one by one through ClosureMagazine    *)
(* and has to dispose of the magazine.  And a call through a trampoline:   *)
(* what closure_invoke passes to Java and gives back to C, with primitive  *)
(* parameters or through DirectClosureBuffer, while other threads allocate *)
(* and dispose.  Attaching threads is part of NativeThread.                *)
(***************************************************************************)
EXTENDS NativeValues, FiniteSets

CONSTANTS Threads, Magazines, N, Proxies, None,
  Machines,     \* [be, addr], see NativeValues
  Signatures    \* [ret, params]: params a sequence of types

ASSUME MagazineAssumption == N \in Nat \ {0} /\ None \notin Magazines \cup Proxies

Types == {"i8", "i32", "i64", "f32", "f64", "ptr", "struct"}

ASSUME SignatureAssumption ==
  /\ \A m \in Machines : m.be \in BOOLEAN /\ m.addr \in {4, 8}
  /\ \A s \in Signatures : s.ret \in Types \cup {"void"} /\ s.params \in Seq(Types)

VARIABLES
  pinned,       \* the thunks of magazines refer to the magazines themselves
  confined,     \* allocate is called in one thread at a time
  maker,        \* Magazine -> "none", "pool" or "app"
  blocks,       \* Magazine -> its native blocks; "corrupt" if freed twice
  nextclosure, javaObject,
  globals,      \* Magazine -> global references that its closures hold
  held,         \* magazines that the application or a pool can reach
  registered,   \* magazines with a thunk at the Cleaner
  disposed,
  handles,      \* [m, k, x]: closure k of m was allocated for the proxy x
  th,           \* each thread's place in a method of a magazine
  sig,          \* the signature of the native functions
  call          \* the call through a trampoline: [pc, m, prim, seen, retval]

lifeVars == <<maker, blocks, nextclosure, javaObject, globals, held, registered, disposed, handles, th>>
vars == <<machine, pinned, confined, sig, call, lifeVars>>

Blocks == {"magazine", "list", "code"}
Closures == 1..N
Idle == [pc |-> "idle", m |-> None, k |-> 1, x |-> None]
At(t, pc) == th[t].pc = pc
Within(m) == {t \in Threads : th[t].m = m}
GoTo(t, pc) == th' = [th EXCEPT ![t].pc = pc]
Return(t) == th' = [th EXCEPT ![t] = Idle]

\* free() of all blocks.
Freed(m) == IF blocks[m] = Blocks THEN {} ELSE {"corrupt"}

(* ---- newClosureMagazine ----------------------------------------------- *)

\* Each of the three allocations may fail.
NewClosureMagazine(t, m, by) ==
  /\ At(t, "idle") /\ maker[m] = "none"
  /\ maker' = [maker EXCEPT ![m] = by]
  /\ \E got \in SUBSET Blocks :
       /\ blocks' = [blocks EXCEPT ![m] = got]
       /\ \E pc \in {"prepare", "error"} :
            /\ pc = "prepare" <=> got = Blocks
            /\ th' = [th EXCEPT ![t] = [pc |-> pc, m |-> m, k |-> 1, x |-> None]]
  /\ UNCHANGED <<machine, pinned, confined, sig, call, nextclosure, javaObject, globals, held, registered, disposed, handles>>

\* Preparing a closure, making the page executable or finding the method
\* fails; or the magazine goes to its maker.
Prepare(t) ==
  LET m == th[t].m IN
  /\ At(t, "prepare")
  /\ \/ GoTo(t, "error") /\ UNCHANGED <<held, registered>>
     \/ maker[m] = "app" /\ Return(t) /\ held' = held \cup {m} /\ registered' = registered \cup {m}
     \/ maker[m] = "pool" /\ GoTo(t, "proxy") /\ UNCHANGED <<held, registered>>
  /\ UNCHANGED <<machine, pinned, confined, sig, call, maker, blocks, nextclosure, javaObject, globals, disposed, handles>>

\* Mutant of Error: the page is left allocated.
ErrorKeepsPage(t) ==
  LET m == th[t].m IN
  /\ At(t, "error") /\ Return(t)
  /\ blocks' = [blocks EXCEPT ![m] = @ \ {"list", "magazine"}]
  /\ maker' = [maker EXCEPT ![m] = "none"]
  /\ UNCHANGED <<machine, pinned, confined, sig, call, nextclosure, javaObject, globals, held, registered, disposed, handles>>

\* error: frees the three blocks, the page only if there is one, and throws.
Error(t) ==
  LET m == th[t].m IN
  /\ At(t, "error") /\ Return(t)
  /\ blocks' = [blocks EXCEPT ![m] = @ \ {"list", "magazine", "code"}]
  /\ maker' = [maker EXCEPT ![m] = "none"]
  /\ UNCHANGED <<machine, pinned, confined, sig, call, nextclosure, javaObject, globals, held, registered, disposed, handles>>

(* ---- closureMagazineGet ----------------------------------------------- *)

\* allocate does not ask whether the magazine was disposed of.
Allocate(t, m, x) ==
  /\ At(t, "idle") /\ maker[m] = "app" /\ m \in held \ disposed
  /\ confined => Within(m) = {}
  /\ th' = [th EXCEPT ![t] = [pc |-> "get", m |-> m, k |-> 1, x |-> x]]
  /\ UNCHANGED <<machine, pinned, confined, sig, call, maker, blocks, nextclosure, javaObject, globals, held, registered, disposed, handles>>

\* The loop in the constructor of ClosurePool's Magazine.
NextProxy(t, x) ==
  /\ At(t, "proxy")
  /\ th' = [th EXCEPT ![t] = [pc |-> "get", m |-> th[t].m, k |-> th[t].k, x |-> x]]
  /\ UNCHANGED <<machine, pinned, confined, sig, call, maker, blocks, nextclosure, javaObject, globals, held, registered, disposed, handles>>

\* The next closure gets a global reference to the proxy.
Get(t) ==
  LET m == th[t].m  k == nextclosure[m] + 1 IN
  /\ At(t, "get") /\ k <= N
  /\ javaObject' = [javaObject EXCEPT ![m][k] = th[t].x]
  /\ globals' = [globals EXCEPT ![m] = @ + 1]
  /\ th' = [th EXCEPT ![t] = [pc |-> "count", m |-> m, k |-> k, x |-> th[t].x]]
  /\ UNCHANGED <<machine, pinned, confined, sig, call, maker, blocks, nextclosure, held, registered, disposed, handles>>

\* NewGlobalRef fails.  The exception ends the constructor of a pool's
\* Magazine, which has not registered itself with the Cleaner yet.
GetFails(t) ==
  LET m == th[t].m  k == nextclosure[m] + 1 IN
  /\ At(t, "get") /\ k <= N /\ Return(t)
  /\ javaObject' = [javaObject EXCEPT ![m][k] = None]
  /\ UNCHANGED <<machine, pinned, confined, sig, call, maker, blocks, nextclosure, globals, held, registered, disposed, handles>>

\* No closure is left: null for the application, the end of a pool's loop.
GetNone(t) ==
  LET m == th[t].m IN
  /\ At(t, "get") /\ nextclosure[m] >= N /\ Return(t)
  /\ IF maker[m] = "pool" THEN held' = held \cup {m} /\ registered' = registered \cup {m}
                          ELSE UNCHANGED <<held, registered>>
  /\ UNCHANGED <<machine, pinned, confined, sig, call, maker, blocks, nextclosure, javaObject, globals, disposed, handles>>

\* Mutant of Count: nextclosure++ is gone.
CountNot(t) ==
  LET m == th[t].m IN
  /\ At(t, "count")
  /\ handles' = handles \cup {[m |-> m, k |-> th[t].k, x |-> th[t].x]}
  /\ IF maker[m] = "pool" THEN GoTo(t, "proxy") ELSE Return(t)
  /\ UNCHANGED <<machine, pinned, confined, sig, call, maker, blocks, nextclosure, javaObject, globals, held, registered, disposed>>

\* nextclosure++, which reads nextclosure again.
Count(t) ==
  LET m == th[t].m IN
  /\ At(t, "count")
  /\ nextclosure' = [nextclosure EXCEPT ![m] = @ + 1]
  /\ handles' = handles \cup {[m |-> m, k |-> th[t].k, x |-> th[t].x]}
  /\ IF maker[m] = "pool" THEN GoTo(t, "proxy") ELSE Return(t)
  /\ UNCHANGED <<machine, pinned, confined, sig, call, maker, blocks, javaObject, globals, held, registered, disposed>>

(* ---- Disposal --------------------------------------------------------- *)

\* ClosureMagazine.dispose: the thread that sets the flag frees the magazine.
\* Any thread may dispose of it again, but none while allocate runs, which
\* would use what is freed.
Dispose(t, m) ==
  /\ At(t, "idle") /\ maker[m] = "app" /\ m \in held
  /\ \A u \in Within(m) : At(u, "free")
  /\ disposed' = disposed \cup {m}
  /\ IF m \in disposed THEN UNCHANGED th
     ELSE th' = [th EXCEPT ![t] = [pc |-> "free", m |-> m, k |-> 1, x |-> None]]
  /\ UNCHANGED <<machine, pinned, confined, sig, call, maker, blocks, nextclosure, javaObject, globals, held, registered, handles>>

FreeClosureMagazine(m) ==
  /\ globals' = [globals EXCEPT ![m] = @ - nextclosure[m]]
  /\ blocks' = [blocks EXCEPT ![m] = Freed(m)]

Free(t) ==
  /\ At(t, "free") /\ Return(t)
  /\ FreeClosureMagazine(th[t].m)
  /\ UNCHANGED <<machine, pinned, confined, sig, call, maker, nextclosure, javaObject, held, registered, disposed, handles>>

\* The application drops a magazine with its Handles, or the pool one.
Forget(m) ==
  /\ m \in held /\ held' = held \ {m}
  /\ UNCHANGED <<machine, pinned, confined, sig, call, maker, blocks, nextclosure, javaObject, globals, registered, disposed, handles, th>>

\* The thunk, of an unreachable magazine.  The one of a pool's magazine
\* frees nothing if a slot is not to be released.
Clean(m) ==
  /\ ~pinned /\ m \in registered \ held /\ Within(m) = {}
  /\ registered' = registered \ {m}
  /\ \/ m \notin disposed /\ FreeClosureMagazine(m) /\ disposed' = disposed \cup {m}
     \/ (m \in disposed \/ maker[m] = "pool") /\ UNCHANGED <<blocks, globals, disposed>>
  /\ UNCHANGED <<machine, pinned, confined, sig, call, maker, nextclosure, javaObject, held, handles, th>>

(* ---- A call through a trampoline -------------------------------------- *)

NoCall == [pc |-> "none", m |-> None, prim |-> FALSE, seen |-> <<>>, retval |-> <<>>]
Word == machine.addr
JavaSize(t) == IF t = "struct" THEN 8 ELSE Size(machine, t)

\* Parameter i as C passes it, and the address of it.
Passed(i) == LET n == Size(machine, sig.params[i])
             IN  Order(n, Value(<<"n", i>>, n, n))
Address(i) == Value(<<"o", i>>, machine.addr, 8)

\* Mutant of Jvalue: a pointer is stored as a jlong on every machine.
JvalueLong(i) ==
  LET t == sig.params[i]
      n == Size(machine, t)
      num == CASE t = "struct" -> Address(i)
               [] t \in {"f32", "f64"} -> Value(<<"converted", i>>, 4, 4)
               [] t = "ptr" -> Value(<<"n", i>>, n, 8)
               [] OTHER -> Read(Passed(i), 0, n)
  IN  Store([a \in 0..7 |-> Zero], 0, Cardinality(DOMAIN num), num)

\* The jvalue for parameter i: a member is set, the rest is zero.  A float
\* or double is converted to the jint member.
Jvalue(i) ==
  LET t == sig.params[i]
      num == CASE t = "struct" -> Address(i)
               [] t \in {"f32", "f64"} -> Value(<<"converted", i>>, 4, 4)
               [] OTHER -> Read(Passed(i), 0, Size(machine, t))
  IN  Store([a \in 0..7 |-> Zero], 0, Cardinality(DOMAIN num), num)

\* DirectClosureBuffer reads through the array of pointers to parameters.
PARAM_SIZE == machine.addr
Parameter(i) == CHOOSE j \in DOMAIN sig.params : (j - 1) * machine.addr = (i - 1) * PARAM_SIZE
FromBuffer(i) ==
  IF sig.params[i] = "struct" THEN Address(Parameter(i))
  ELSE Read(Passed(Parameter(i)), 0, Size(machine, sig.params[i]))

\* What Java sees of the parameters.
Seen(prim) ==
  [i \in DOMAIN sig.params |->
     IF prim THEN Read(Jvalue(i), 0, JavaSize(sig.params[i])) ELSE FromBuffer(i)]

\* C calls the trampoline of a Handle while its magazine is there.
ClosureInvoke(h) ==
  /\ call.pc = "none" /\ blocks[h.m] = Blocks
  /\ LET prim == maker[h.m] = "app" IN
     call' = [pc |-> "java", m |-> h.m, prim |-> prim, seen |-> Seen(prim),
              retval |-> [a \in 0..15 |-> Unset]]
  /\ UNCHANGED <<machine, pinned, confined, sig, lifeVars>>

\* Mutant of Put: a narrow number is not widened.
PutNarrow(x) == Store(call.retval, 0, Size(machine, sig.ret), Value(x, Size(machine, sig.ret), Size(machine, sig.ret)))

\* A reply is stored as an ffi_sarg if it is narrower; no reply is a zero.
Put(x) ==
  LET n == Size(machine, sig.ret) IN
  CASE sig.ret = "void" -> Store(call.retval, 0, Word, [j \in 0..(Word - 1) |-> Zero])
    [] sig.ret \in {"i8", "i32", "ptr"} -> Store(call.retval, 0, Word, Value(x, n, Word))
    [] OTHER -> Store(call.retval, 0, n, Value(x, n, n))

\* memset(retval, 0, cif->rtype->size)
Cleared(mem) == [a \in DOMAIN mem |-> IF a < Size(machine, sig.ret) THEN Zero ELSE mem[a]]

\* The Java method is done.  One with primitive parameters always gives a
\* value, what value if it throws JNI does not say, but only a structure
\* that it has set; one with a Buffer may have set its result or not.
JavaReplies(set, throws) ==
  /\ call.pc = "java"
  /\ call.prim /\ sig.ret # "struct" => set
  /\ call' = [call EXCEPT !.pc = IF throws THEN "thrown" ELSE IF set THEN "returned" ELSE "silent",
                          !.retval = IF set THEN Put(<<IF throws /\ call.prim THEN "junk" ELSE "r", 0>>) ELSE @]
  /\ UNCHANGED <<machine, pinned, confined, sig, lifeVars>>

After == [returned |-> "reply", silent |-> "noreply", thrown |-> "failed"]

\* Back in closure_invoke, which clears the result if there is an exception,
\* and then reads the magazine, even if it was disposed of meanwhile.
ClosureReturn ==
  /\ call.pc \in DOMAIN After
  /\ call' = IF blocks[call.m] = Blocks
             THEN [call EXCEPT !.pc = After[@],
                               !.retval = IF call.pc = "thrown" THEN Cleared(@) ELSE @]
             ELSE [NoCall EXCEPT !.pc = "crashed"]
  /\ UNCHANGED <<machine, pinned, confined, sig, lifeVars>>

CGoesOn ==
  /\ call.pc \in {"reply", "noreply", "failed"}
  /\ call' = NoCall
  /\ UNCHANGED <<machine, pinned, confined, sig, lifeVars>>

Init ==
  /\ machine \in Machines /\ sig \in Signatures
  /\ pinned \in BOOLEAN /\ confined \in BOOLEAN
  /\ maker = [m \in Magazines |-> "none"] /\ blocks = [m \in Magazines |-> {}]
  /\ nextclosure = [m \in Magazines |-> 0] /\ globals = [m \in Magazines |-> 0]
  /\ javaObject = [m \in Magazines |-> [k \in Closures |-> None]]
  /\ held = {} /\ registered = {} /\ disposed = {} /\ handles = {}
  /\ th = [t \in Threads |-> Idle] /\ call = NoCall

Step(t) ==
  \/ Prepare(t) \/ Error(t) \/ Get(t) \/ GetFails(t) \/ GetNone(t) \/ Count(t) \/ Free(t)
  \/ \E x \in Proxies : NextProxy(t, x)
  \/ \E m \in Magazines :
       \/ Dispose(t, m)
       \/ \E by \in {"app", "pool"} : NewClosureMagazine(t, m, by)
       \/ \E x \in Proxies : Allocate(t, m, x)

Collector == \E m \in Magazines : Forget(m) \/ Clean(m)

Callback ==
  \/ \E h \in handles : ClosureInvoke(h)
  \/ \E set, throws \in BOOLEAN : JavaReplies(set, throws)
  \/ ClosureReturn \/ CGoesOn

Next == (\E t \in Threads : Step(t)) \/ Collector \/ Callback

Spec == Init /\ [][Next]_vars

(* ---- Properties ------------------------------------------------------- *)

TypeOK ==
  /\ pinned \in BOOLEAN /\ confined \in BOOLEAN
  /\ maker \in [Magazines -> {"none", "pool", "app"}]
  /\ blocks \in [Magazines -> SUBSET (Blocks \cup {"corrupt"})]
  /\ nextclosure \in [Magazines -> Nat] /\ globals \in [Magazines -> Int]
  /\ javaObject \in [Magazines -> [Closures -> Proxies \cup {None}]]
  /\ held \in SUBSET Magazines /\ registered \in SUBSET Magazines /\ disposed \in SUBSET Magazines
  /\ handles \in SUBSET [m : Magazines, k : Closures, x : Proxies]
  /\ th \in [Threads -> [pc : {"idle", "prepare", "error", "proxy", "get", "count", "free"},
                         m : Magazines \cup {None}, k : Closures, x : Proxies \cup {None}]]

\* When no thread is at work on it, a magazine is there as a whole or not at
\* all, whichever allocation failed; it was never freed twice, by dispose,
\* another dispose or the Cleaner; one that the application made will be
\* freed by its thunk at the latest; and the global references are those of
\* the closures allocated, none after the magazine is freed.
MagazineAccounted ==
  \A m \in Magazines :
    /\ "corrupt" \notin blocks[m]
    /\ Within(m) = {} =>
         /\ blocks[m] \in {{}, Blocks}
         /\ blocks[m] = Blocks /\ maker[m] = "app" => m \in registered \ disposed
         /\ confined => globals[m] = IF blocks[m] = {} THEN 0 ELSE nextclosure[m]

\* A trampoline reaches the proxy it was allocated for, and no other, as long
\* as its magazine lives.
CallReachesProxy ==
  confined => \A h \in handles : blocks[h.m] = Blocks => javaObject[h.m][h.k] = h.x

\* A primitive float or double arrives in the wrong form.
FloatAsInt(i) == call.prim /\ sig.params[i] \in {"f32", "f64"}

\* Java sees every parameter as C passed it, and the address of a structure,
\* whatever machine and whichever way.
ParametersDelivered ==
  call.pc = "java" => \A i \in DOMAIN sig.params : LET t == sig.params[i] IN
    \/ FloatAsInt(i)
    \/ call.seen[i] = IF t = "struct" THEN Address(i) ELSE Value(<<"n", i>>, Size(machine, t), Size(machine, t))

\* What C reads: of a narrow integer the low end of an ffi_arg.
Got ==
  LET n == Size(machine, sig.ret)
      at == IF machine.be /\ sig.ret \in {"i8", "i32", "ptr"} THEN Word - n ELSE 0
  IN  Read(call.retval, at, n)

\* The clearing of a narrow result misses its low end.
ClearedAtWrongEnd == machine.be /\ sig.ret \in {"i8", "i32"} /\ Size(machine, sig.ret) < Word

\* C gets what the Java method returned, and zero if it threw, whatever it
\* had set its result to by then.
ReplyDelivered ==
  LET n == Size(machine, sig.ret) IN
  /\ call.pc = "reply" /\ sig.ret # "void" => Got = Value(<<"r", 0>>, n, n)
  /\ call.pc = "failed" /\ ~ClearedAtWrongEnd => Got = [j \in 0..(n - 1) |-> Zero]

(* The inductive invariant behind the accounting of magazines. *)

Working(m) == \E t \in Threads : th[t].m = m
\* One of its references is not in nextclosure yet.
Uncounted(m) == \E t \in Threads : At(t, "count") /\ th[t].m = m
Sole(t) == \A u \in Threads : th[u].m = th[t].m => u = t

\* A magazine that is being made belongs to one thread; one that nobody has
\* made, or whose making failed, is as it was.
Untouched(m) ==
  /\ nextclosure[m] = 0 /\ globals[m] = 0 /\ m \notin held /\ m \notin registered /\ m \notin disposed
  /\ \A h \in handles : h.m # m

ThreadOK(t) ==
  LET m == th[t].m IN
  /\ At(t, "idle") <=> m = None
  /\ At(t, "error") \/ At(t, "prepare") => Sole(t) /\ Untouched(m) /\ maker[m] # "none"
  /\ At(t, "error") => blocks[m] \subseteq Blocks
  /\ At(t, "prepare") \/ At(t, "proxy") \/ At(t, "get") \/ At(t, "count") => blocks[m] = Blocks
  /\ At(t, "proxy") => maker[m] = "pool"
  /\ At(t, "get") \/ At(t, "count") => maker[m] # "none" /\ th[t].x # None
  /\ At(t, "proxy") \/ ((At(t, "get") \/ At(t, "count")) /\ maker[m] = "pool") =>
       Sole(t) /\ m \notin held /\ m \notin registered /\ m \notin disposed
  /\ (At(t, "get") \/ At(t, "count")) /\ maker[m] = "app" => m \in registered /\ m \notin disposed
  /\ At(t, "free") => Sole(t) /\ maker[m] = "app" /\ m \in registered /\ m \in disposed /\ blocks[m] = Blocks
  /\ confined /\ (At(t, "get") \/ At(t, "count")) => Sole(t)
  /\ confined /\ At(t, "count") =>
       th[t].k = nextclosure[m] + 1 /\ javaObject[m][th[t].k] = th[t].x

MagazineOK(m) ==
  /\ maker[m] = "none" => blocks[m] = {} /\ Untouched(m) /\ ~Working(m)
  /\ ~Working(m) =>
       /\ blocks[m] \in {{}, Blocks}
       /\ maker[m] = "app" => m \in registered \/ blocks[m] = {}
       /\ m \in disposed => blocks[m] = {}
  /\ "corrupt" \notin blocks[m]
  /\ m \in registered /\ m \notin disposed => blocks[m] = Blocks
  /\ m \in held => m \in registered

CountOK(m) ==
  confined =>
    /\ nextclosure[m] <= N
    /\ globals[m] = (IF blocks[m] = Blocks \/ Working(m) THEN nextclosure[m] ELSE 0)
                      + (IF Uncounted(m) THEN 1 ELSE 0)
    /\ \A h \in handles : h.m = m => h.k <= nextclosure[m] /\ (blocks[m] = Blocks => javaObject[m][h.k] = h.x)

MagazineInv ==
  /\ TypeOK
  /\ \A t \in Threads : ThreadOK(t)
  /\ \A m \in Magazines : MagazineOK(m) /\ CountOK(m)

(* The inductive invariant behind the two properties of a call: a reply is *)
(* right from the moment the Java method gives it.                         *)

CallInv ==
  /\ machine \in Machines /\ sig \in Signatures /\ DOMAIN call = DOMAIN NoCall
  /\ ParametersDelivered
  /\ call.pc \in {"java"} \cup DOMAIN After => DOMAIN call.retval = 0..15
  /\ LET n == Size(machine, sig.ret) IN
     /\ call.pc \in {"returned", "reply"} /\ sig.ret # "void" => Got = Value(<<"r", 0>>, n, n)
     /\ call.pc = "failed" /\ ~ClearedAtWrongEnd => Got = [j \in 0..(n - 1) |-> Zero]
=============================================================================
