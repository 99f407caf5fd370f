------------------------------- MODULE Aggregates -------------------------------
(***************************************************************************)
(* Struct, Union and Array layouts (Aggregate.java and its subclasses),    *)
(* the ffi_types made for them (Struct.c) and the cache of Struct.newStruct*)
(*                                                                         *)
(* newStruct looks up Arrays.asList(fields), a view of the caller's array, *)
(* in a ConcurrentHashMap of weak references and puts that same view into  *)
(* it.  The application may store other types into the array afterwards:   *)
(* an entry keeps the hash of its key as it was, and compares the types    *)
(* the array holds now.  Lists of different types are taken to have        *)
(* different hashes.  No array changes while a call is reading it.         *)
(*                                                                         *)
(* An Aggregate, its ffi_type and its StructReference share one identity,  *)
(* reused when all three are gone.                                         *)
(***************************************************************************)
EXTENDS Integers, Sequences, FiniteSets, FiniteSetsExt, Functions

CONSTANTS
  Threads,
  Arrays,       \* the Type[] objects that callers pass
  Objs,         \* Aggregate objects
  Builtin,      \* layout [size, alignment] of every type that libffi has
  Lists(_),     \* bound: the lists of types that are used, over a set of Aggregates
  Lengths,      \* bound: the lengths of Arrays
  SizeBits,     \* width of size_t
  None

Names == DOMAIN Builtin
Modulus == 2^SizeBits

ASSUME AggregatesAssumption ==
  /\ Names \cap Objs = {} /\ None \notin Objs \cup Arrays /\ Lengths \subseteq Nat
  /\ \A objs \in SUBSET Objs : Lists(objs) \subseteq Seq(Names \cup objs)

\* Alignments are powers of two, of which size_t holds whole multiples.
Alignments == {1, 2, 4, 8, 16}
Layouts == {l \in [size : 0 .. Modulus - 1, alignment : Alignments] : l.size % l.alignment = 0}

ASSUME LayoutAssumption ==
  /\ Modulus \in Nat \ {0} /\ Modulus % 16 = 0
  /\ Builtin \in [Names -> Layouts]

VARIABLES
  thunkHolds,   \* does the thunk an Aggregate registers refer to the Aggregate?
                \* Aggregate.java:65 does: TRUE.  FALSE is the rest on its own.
  content,      \* the types in every array
  obj,          \* every Aggregate, Gone before it is made and when it is gone
  freed,        \* those whose ffi_type was freed
  ref,          \* state of every StructReference
  structCache,  \* entries [hash, key, o]
  held,         \* Aggregates the application refers to
  th            \* program counter and locals of every thread

vars == <<thunkHolds, content, obj, freed, ref, structCache, held, th>>

Gone == [kind |-> "none", fields |-> <<>>, array |-> None, layout |-> None]
Exists(o) == obj[o].kind # "none"

(***************************************************************************)
(* Layout                                                                  *)
(***************************************************************************)
LayoutOf(type) == IF type \in Objs THEN obj[type].layout ELSE Builtin[type]

\* The layouts behind the ffi_types of the fields.
NativeHandles(fields) == [i \in 1..Len(fields) |-> LayoutOf(fields[i])]

Greater(x, y) == IF x > y THEN x ELSE y

\* What size_t keeps of a number.
Wrap(n) == n % Modulus

\* FFI_ALIGN: (v - 1 | a - 1) + 1 in size_t, where `|' with a - 1 sets the low
\* bits, a being a power of two.  For v = 0 both - 1 and + 1 wrap.
FFI_ALIGN(v, a) ==
  LET x == Wrap(v - 1) IN Wrap((x - (x % a)) + a)

NoFields == [size |-> 0, alignment |-> 0]

\* One turn of the loop over the fields.
AddField(s, elem, isUnion) ==
  [size |-> IF isUnion THEN Greater(s.size, elem.size)
                       ELSE Wrap(FFI_ALIGN(s.size, elem.alignment) + elem.size),
   alignment |-> Greater(s.alignment, elem.alignment)]

\* The struct, or the union, as it is after every turn.
Turns(elems, isUnion) ==
  LET s[i \in 0..Len(elems)] ==
        IF i = 0 THEN NoFields ELSE AddField(s[i - 1], elems[i], isUnion)
  IN s
AllFields(elems, isUnion) == Turns(elems, isUnion)[Len(elems)]

\* Mutant of NativeStruct: no tail padding.
NativeStructUnpadded(elems, isUnion) == AllFields(elems, isUnion)

\* Foreign.newStruct, ...
NativeStruct(elems, isUnion) ==
  LET s == AllFields(elems, isUnion) IN [s EXCEPT !.size = FFI_ALIGN(s.size, s.alignment)]

\* ... of no empty list, no element and no struct of size zero.
CanBeStruct(elems, isUnion) ==
  /\ elems # <<>> /\ \A e \in Range(elems) : e.size # 0
  /\ AllFields(elems, isUnion).size # 0

\* Foreign.newArray
NativeArray(elem, length) ==
  [size |-> Wrap(length * elem.size), alignment |-> elem.alignment]

(***************************************************************************)
(* Reachability                                                            *)
(***************************************************************************)
\* Mutant of Kept: the fields are kept in the caller's array, not in a clone.
KeptInArray(o) ==
  Objs \cap Range(IF obj[o].array = None THEN obj[o].fields ELSE content[obj[o].array])

\* `fields', the clone that keeps the types of the fields; elementType.
Kept(o) == Objs \cap Range(obj[o].fields)

\* Everything reached from the set R over the Aggregates that Next(o) names:
\* what is in every set that has R and is closed.
Closure(R, Next(_)) ==
  {x \in Objs : \A S \in SUBSET Objs :
                  R \subseteq S /\ (\A o \in S : Next(o) \subseteq S) => x \in S}

\* Arrays are kept by the application or by the keys of the map, a new
\* Aggregate by the thread that makes it, any by its Cleaner thunk.
Roots ==
  {o \in Objs : /\ Exists(o)
                /\ \/ thunkHolds
                   \/ o \in held
                   \/ \E a \in Arrays : o \in Range(content[a])
                   \/ \E t \in Threads : th[t].pc = "put" /\ th[t].o = o}

StronglyReachable == Closure(Roots, Kept)

\* What the collector may not free yet: weak references that are not cleared
\* can still be followed.
Reachable ==
  Closure(Roots \cup {o \in Objs : Exists(o) /\ ref[o] = "live"}, Kept)

\* The StructReference of o is in the map or in a local variable.
RefReachable(o) ==
  \/ \E e \in structCache : e.o = o
  \/ \E t \in Threads : th[t].o = o

(***************************************************************************)
(* Struct.newStruct                                                        *)
(***************************************************************************)
Idle == [pc |-> "idle", array |-> None, o |-> None]
Goto(t, pc, o) == th' = [th EXCEPT ![t] = [pc |-> pc, array |-> @.array, o |-> o]]
Fields(t) == content[th[t].array]

\* Mutant of Matches: the keys are compared, whatever their hashes were.
MatchesByContent(e, list) == content[e.key] = list

\* The node e of the map is found for a list: its hash is the list's, and so
\* are the types its key holds now.
Matches(e, list) == e.hash = list /\ content[e.key] = list

\* structCache.get(Arrays.asList(fields))
NewStruct(t, a) ==
  /\ th[t].pc = "idle"
  /\ \/ \E e \in structCache : /\ Matches(e, content[a])
                              /\ th' = [th EXCEPT ![t] = [pc |-> "deref", array |-> a, o |-> e.o]]
     \/ /\ \A e \in structCache : ~Matches(e, content[a])
        /\ th' = [th EXCEPT ![t] = [pc |-> "cull", array |-> a, o |-> None]]
  /\ UNCHANGED <<content, obj, freed, ref, structCache, held>>

Return(t, o) ==
  /\ held' = held \cup {o}
  /\ th' = [th EXCEPT ![t] = Idle]

\* ref.get()
Deref(t) ==
  LET o == th[t].o IN
  /\ th[t].pc = "deref"
  /\ \/ ref[o] = "live" /\ Return(t, o)
     \/ ref[o] # "live" /\ Goto(t, "cull", None) /\ UNCHANGED held
  /\ UNCHANGED <<content, obj, freed, ref, structCache>>

\* structReferenceQueue.poll(), the condition of the culling loop.
Cull(t) ==
  /\ th[t].pc = "cull"
  /\ \/ \E o \in Objs : /\ ref[o] = "queued"
                        /\ ref' = [ref EXCEPT ![o] = "done"]
                        /\ Goto(t, "remove", o)
     \/ /\ \A o \in Objs : ref[o] # "queued"
        /\ Goto(t, "create", None)
        /\ UNCHANGED ref
  /\ UNCHANGED <<content, obj, freed, structCache, held>>

\* structCache.remove(ref.fieldsList): what the list, as it is now, maps to.
RemoveDead(t) ==
  LET list == content[obj[th[t].o].array] IN
  /\ th[t].pc = "remove"
  /\ \/ \E e \in structCache : Matches(e, list) /\ structCache' = structCache \ {e}
     \/ (\A e \in structCache : ~Matches(e, list)) /\ UNCHANGED structCache
  /\ Goto(t, "cull", None)
  /\ UNCHANGED <<content, obj, freed, ref, held>>

\* new Struct(...): the ffi_type, the clone of the fields and the thunk.
CreateStruct(t) ==
  /\ th[t].pc = "create"
  /\ CanBeStruct(NativeHandles(Fields(t)), FALSE)
  /\ \E o \in Objs :
       /\ ~Exists(o)
       /\ obj' = [obj EXCEPT ![o] =
            [kind |-> "struct", fields |-> Fields(t), array |-> th[t].array,
             layout |-> NativeStruct(NativeHandles(Fields(t)), FALSE)]]
       /\ ref' = [ref EXCEPT ![o] = "live"]
       /\ Goto(t, "put", o)
  /\ UNCHANGED <<content, freed, structCache, held>>

\* newStruct refuses the fields, or there is no memory: an exception.
CreateFails(t) ==
  /\ th[t].pc = "create"
  /\ th' = [th EXCEPT ![t] = Idle]
  /\ UNCHANGED <<content, obj, freed, ref, structCache, held>>

\* structCache.put(fieldsList, ...): an equal key that is there stays, and gets
\* the new value.
Put(t) ==
  LET list == Fields(t)  o == th[t].o IN
  /\ th[t].pc = "put"
  /\ \/ \E e \in structCache :
          Matches(e, list) /\ structCache' = (structCache \ {e}) \cup {[e EXCEPT !.o = o]}
     \/ /\ \A e \in structCache : ~Matches(e, list)
        /\ structCache' = structCache \cup {[hash |-> list, key |-> th[t].array, o |-> o]}
  /\ Return(t, o)
  /\ UNCHANGED <<content, obj, freed, ref>>

(***************************************************************************)
(* Union, Array and the deprecated constructor of Struct: not cached       *)
(***************************************************************************)
Make(o, new) ==
  /\ ~Exists(o)
  /\ obj' = [obj EXCEPT ![o] = new]
  /\ ref' = [ref EXCEPT ![o] = "done"]
  /\ held' = held \cup {o}
  /\ UNCHANGED <<content, freed, structCache, th>>

NewAggregate(o, a, isUnion) ==
  /\ CanBeStruct(NativeHandles(content[a]), isUnion)
  /\ Make(o, [kind |-> IF isUnion THEN "union" ELSE "struct", fields |-> content[a],
              array |-> a, layout |-> NativeStruct(NativeHandles(content[a]), isUnion)])

NewArray(o, type, length) ==
  /\ LayoutOf(type).size # 0 /\ length >= 1
  /\ Make(o, [kind |-> "array", fields |-> [i \in 1..length |-> type], array |-> None,
              layout |-> NativeArray(LayoutOf(type), length)])

(***************************************************************************)
(* The application and the collector                                       *)
(***************************************************************************)
\* The application stores types it knows into an array of its own.
Store(a, list) ==
  /\ \A t \in Threads : th[t].array # a
  /\ content' = [content EXCEPT ![a] = list]
  /\ UNCHANGED <<obj, freed, ref, structCache, held, th>>

Drop(o) ==
  /\ o \in held
  /\ held' = held \ {o}
  /\ UNCHANGED <<content, obj, freed, ref, structCache, th>>

\* The weak reference to o is cleared, and at once those to the Aggregates
\* from which o is reachable.
Clear(o) ==
  LET dead == {p \in Objs : Exists(p) /\ ref[p] = "live" /\ o \in Closure({p}, Kept)} IN
  /\ Exists(o) /\ ref[o] = "live" /\ o \notin StronglyReachable
  /\ ref' = [p \in Objs |-> IF p \notin dead THEN ref[p]
                            ELSE IF RefReachable(p) THEN "pending" ELSE "done"]
  /\ UNCHANGED <<content, obj, freed, structCache, held, th>>

Enqueue(o) ==
  /\ ref[o] = "pending"
  /\ ref' = [ref EXCEPT ![o] = "queued"]
  /\ UNCHANGED <<content, obj, freed, structCache, held, th>>

\* The thunk of an unreachable Aggregate runs: freeAggregate.
Free(o) ==
  /\ Exists(o) /\ o \notin Reachable \cup freed
  /\ freed' = freed \cup {o}
  /\ UNCHANGED <<content, obj, ref, structCache, held, th>>

\* Nothing is left of o: its identity can be used again.
Forget(o) ==
  /\ o \in freed
  /\ ref[o] = "done" /\ ~RefReachable(o)
  /\ \A p \in Objs : Exists(p) => o \notin Range(obj[p].fields)
  /\ obj' = [obj EXCEPT ![o] = Gone]
  /\ freed' = freed \ {o}
  /\ UNCHANGED <<content, ref, structCache, held, th>>

Init ==
  /\ thunkHolds \in BOOLEAN
  /\ content = [a \in Arrays |-> <<>>]
  /\ obj = [o \in Objs |-> Gone]
  /\ freed = {} /\ structCache = {} /\ held = {}
  /\ ref = [o \in Objs |-> "done"]
  /\ th = [t \in Threads |-> Idle]

Next ==
  /\ UNCHANGED thunkHolds
  /\ \/ \E t \in Threads :
          \/ \E a \in Arrays : NewStruct(t, a)
          \/ Deref(t) \/ Cull(t) \/ RemoveDead(t) \/ CreateStruct(t) \/ CreateFails(t) \/ Put(t)
     \/ \E o \in Objs, a \in Arrays, isUnion \in BOOLEAN : NewAggregate(o, a, isUnion)
     \/ \E o \in Objs, type \in DOMAIN Builtin \cup held, n \in Lengths : NewArray(o, type, n)
     \/ \E a \in Arrays, list \in Lists(held) : Store(a, list)
     \/ \E o \in Objs : Drop(o) \/ Clear(o) \/ Enqueue(o) \/ Free(o) \/ Forget(o)

Spec == Init /\ [][Next]_vars

----------------------------------------------------------------------------
(***************************************************************************)
(* Properties                                                              *)
(***************************************************************************)
\* C's rule, member by member: where each ends if it begins at the first
\* multiple of its alignment at or after the end of the one before it.
RoundUp(n, a) == ((n + a - 1) \div a) * a

Ends(elems) ==
  LET end[i \in 0..Len(elems)] ==
        IF i = 0 THEN 0 ELSE RoundUp(end[i - 1], elems[i].alignment) + elems[i].size
  IN end

LayoutInC(kind, elems) ==
  LET align == Max({e.alignment : e \in Range(elems)})
      end == IF kind = "union" THEN Max({e.size : e \in Range(elems)})
                               ELSE Ends(elems)[Len(elems)]
  IN [size |-> RoundUp(end, align), alignment |-> align]

\* A layout as size_t keeps it.
InSizeT(layout) == [layout EXCEPT !.size = Wrap(@)]

\* The size and the alignment of every Aggregate are those the C compiler gives
\* the type, nested ones included: it is aligned for its widest member, its
\* size is a multiple of that, and its members end within it, none too early.
\* newStruct gets there with the wrapping arithmetic of FFI_ALIGN, and keeps of
\* a size that no object can have what size_t does.
LayoutOfC ==
  \A o \in {p \in Objs : Exists(p)} :
    obj[o].layout = InSizeT(LayoutInC(obj[o].kind, NativeHandles(obj[o].fields)))

\* newStruct returns a Struct of the fields that were asked for, although the
\* keys of the cache are arrays that their owners may have changed since.
StructAsRequested ==
  \A t \in Threads :
    \/ th[t].pc = "put"
    \/ th[t].pc = "deref" /\ ref[th[t].o] = "live"
    => obj[th[t].o].fields = Fields(t)

\* An ffi_type refers to those of its fields: none that native code can get to
\* from an Aggregate in use was freed, whatever became of the caller's array,
\* and however reading a weak reference races with clearing it.
ElementsOutliveUse ==
  LET Elements(o) == Objs \cap Range(obj[o].fields)
  IN Closure(Roots, Elements) \cap freed = {}

(* Refinement: newStruct asks a WeakCache for a Struct of the types it is given. *)

Cached(o) == ref[o] = "live"

Requests == {[by |-> t, key |-> Fields(t)] : t \in {u \in Threads : th[u].pc # "idle"}}
Alive == {[o |-> o, key |-> obj[o].fields] : o \in {p \in Objs : Cached(p)}}
Fresh == {[by |-> t, o |-> th[t].o] : t \in {u \in Threads : th[u].pc = "put"}}
HeldCached == {o \in held : Cached(o)}

Cache == INSTANCE WeakCache WITH
  Objects <- Objs, requests <- Requests, alive <- Alive, fresh <- Fresh, held <- HeldCached

\* Whatever becomes of the arrays that are its keys, and however clearing and
\* culling interleave with it, newStruct returns a Struct of the types that were
\* asked for and whose references are not cleared: the one it made if it did,
\* and none that is not in the map yet.
ImplementsWeakCache == Cache!Spec

\* What a thread is about to put is referred to by nothing but its own stack.
UnpublishedInv ==
  \A t \in Threads : th[t].pc = "put" =>
    /\ Cached(th[t].o)
    /\ \A e \in structCache : e.o # th[t].o
    /\ \A u \in Threads \ {t} : th[u].o # th[t].o

\* What the cache is for: while a Struct is in use, newStruct makes no other of
\* the same types (with one thread).  It fails once an array that is a key of
\* the map was changed, and as the thunks keep all Structs, every one stays.
OneStructPerList ==
  \A o1, o2 \in {o \in Objs : Exists(o) /\ ref[o] = "live"} :
    obj[o1].fields = obj[o2].fields => o1 = o2

(* The inductive invariant behind StructAsRequested and ElementsOutliveUse. *)

TypeOK ==
  /\ thunkHolds \in BOOLEAN
  /\ content \in [Arrays -> Seq(Names \cup Objs)]
  /\ DOMAIN obj = Objs /\ \A o \in Objs : obj[o].fields \in Seq(Names \cup Objs)
  /\ freed \subseteq Objs /\ held \subseteq Objs
  /\ ref \in [Objs -> {"live", "pending", "queued", "done"}]
  /\ structCache \subseteq [hash : Seq(Names \cup Objs), key : Arrays, o : Objs]
  /\ th \in [Threads -> [pc : {"idle", "deref", "cull", "remove", "create", "put"},
                         array : Arrays \cup {None}, o : Objs \cup {None}]]

\* Whatever refers to an Aggregate refers to one that exists, ...
Existing ==
  /\ \A o \in held \cup freed : Exists(o)
  /\ \A o \in Objs : ref[o] # "done" => Exists(o)
  /\ \A a \in Arrays : \A o \in Objs \cap Range(content[a]) : Exists(o)
  /\ \A p \in Objs : Exists(p) => \A o \in Kept(p) : Exists(o)

\* ... an entry of the map, with its hash, to a Struct of those types, ...
EntryOK(e) == Exists(e.o) /\ obj[e.o].fields = e.hash

\* ... and a thread to a Struct of the types its array holds.
ThreadOK(t) ==
  /\ th[t].pc # "idle" => th[t].array \in Arrays
  /\ th[t].o # None => Exists(th[t].o)
  /\ th[t].pc \in {"deref", "put"} => th[t].o # None /\ obj[th[t].o].fields = Fields(t)
  /\ th[t].pc = "remove" => th[t].o # None

AggregateInv ==
  /\ TypeOK /\ Existing
  /\ \A e \in structCache : EntryOK(e)
  /\ \A t \in Threads : ThreadOK(t)
  /\ Reachable \cap freed = {}

\* The inductive invariant behind LayoutOfC: an Aggregate's layout can be that
\* of an element of another.
LayoutInv ==
  /\ LayoutOfC
  /\ \A o \in Objs : Exists(o) => obj[o].layout \in Layouts
=============================================================================
