---------------------------- MODULE AggregatesProofs ----------------------------
(***************************************************************************)
(* Proofs about Aggregates, for any number of threads, arrays, types and   *)
(* Aggregates: AggregateInv is inductive, and with it the cache gives the  *)
(* Struct that was asked for and no ffi_type is freed under one in use;    *)
(* LayoutInv is inductive, and with it every layout is that of C.  At the  *)
(* end, newStruct implements WeakCache.                                    *)
(*                                                                         *)
(* What can be reached is the least set that has the anchors and is closed *)
(* under Kept.  So an action is done with when a set is named that has     *)
(* both after it: mostly what could be reached before it.                  *)
(***************************************************************************)
EXTENDS Aggregates, FiniteSetTheorems, TLAPS

\* What keeps an Aggregate by itself: roots, and references not yet cleared.
Anchors == Roots \cup {o \in Objs : Exists(o) /\ ref[o] = "live"}

(***************************************************************************)
(* Reachability                                                            *)
(***************************************************************************)

\* Aggregate.fields, StructReference: what is anchored can be reached.
LEMMA AnchorsReachable == Anchors \subseteq Reachable
BY DEF Anchors, Reachable, Closure, Roots

\* Struct.fields: an Aggregate that can be reached keeps its fields.
LEMMA KeptReachable ==
  ASSUME NEW o \in Reachable
  PROVE  Kept(o) \subseteq Reachable
<1>1. o \in Objs
  BY DEF Reachable, Closure
<1>2. Kept(o) \subseteq Objs
  BY DEF Kept
<1>3. ASSUME NEW p \in Kept(o), NEW S \in SUBSET Objs, Anchors \subseteq S, \A q \in S : Kept(q) \subseteq S
      PROVE  p \in S
  BY <1>1, <1>3 DEF Reachable, Closure, Anchors
<1> QED BY <1>2, <1>3 DEF Reachable, Closure, Anchors

\* A set that has the anchors after a step, and is closed then, has what can
\* be reached then.
LEMMA ReachableNext ==
  ASSUME NEW S \in SUBSET Objs, Anchors' \subseteq S, \A o \in S : Kept(o)' \subseteq S
  PROVE  Reachable' \subseteq S
BY DEF Reachable, Closure, Anchors

\* All that can be reached from the roots alone can be reached.
LEMMA RootsReach == Closure(Roots, Kept) \subseteq Reachable
<1>1. Anchors \subseteq Reachable /\ \A o \in Reachable : Kept(o) \subseteq Reachable
  BY AnchorsReachable, KeptReachable
<1>2. Reachable \in SUBSET Objs /\ Roots \subseteq Anchors
  BY DEF Reachable, Closure, Anchors
<1> HIDE DEF Reachable
<1> QED BY <1>1, <1>2 DEF Closure

\* What could not be reached, and is not anchored by the step, still cannot.
LEMMA Unreached ==
  ASSUME Anchors' \subseteq Reachable, \A o \in Reachable : Kept(o)' = Kept(o),
         Reachable \cap freed = {}, freed' \cap Reachable \subseteq freed
  PROVE  Reachable' \cap freed' = {}
<1>1. Reachable \in SUBSET Objs
  BY DEF Reachable, Closure
<1>2. \A o \in Reachable : Kept(o)' \subseteq Reachable
  BY KeptReachable
<1>3. Reachable' \subseteq Reachable
  BY <1>1, <1>2, ReachableNext
<1> QED BY <1>3

(***************************************************************************)
(* Steps that make and forget no Aggregate                                 *)
(***************************************************************************)

\* All steps of newStruct but the making, Drop, and the collector's but
\* Forget: they hold no more than could be reached, no reference comes back
\* to life, and nothing that can be reached is freed.
LEMMA Quiet ==
  ASSUME AggregateInv, UNCHANGED <<thunkHolds, content, obj>>, TypeOK',
         held' \subseteq held \cup {o \in Anchors : Exists(o)},
         \A o \in Objs : /\ ref'[o] = "live" => ref[o] = "live"
                         /\ ref'[o] # "done" => ref[o] # "done",
         \A t \in Threads : \/ th'[t] = th[t]
                            \/ th'[t].pc # "put" /\ ThreadOK(t)',
         \A e \in structCache' \ structCache : EntryOK(e),
         freed' \subseteq freed \cup {o \in Objs : Exists(o) /\ o \notin Reachable}
  PROVE  AggregateInv'
<1>1. \A o : Exists(o)' = Exists(o) /\ Kept(o)' = Kept(o)
  BY DEF Exists, Kept
<1>2. Existing /\ TypeOK /\ (\A t \in Threads : ThreadOK(t)) /\ (\A e \in structCache : EntryOK(e))
      /\ Reachable \cap freed = {}
  BY DEF AggregateInv
<1>3. Existing'
  BY <1>1, <1>2 DEF Existing
<1>4. \A e \in structCache' : EntryOK(e)'
  BY <1>1, <1>2 DEF EntryOK
<1>5. ASSUME NEW t \in Threads PROVE ThreadOK(t)'
  <2>1. CASE th'[t] = th[t]
    BY <2>1, <1>1, <1>2 DEF ThreadOK, Fields
  <2> QED BY <2>1
<1>6. Anchors' \subseteq Anchors
  <2>1. ASSUME NEW o \in Objs, Exists(o), o \in Roots' PROVE o \in Anchors
    <3>1. CASE o \in held'
      BY <3>1, <2>1 DEF Anchors, Roots
    <3>2. CASE \E t \in Threads : th'[t].pc = "put" /\ th'[t].o = o
      <4>1. PICK t \in Threads : th'[t].pc = "put" /\ th'[t].o = o
        BY <3>2
      <4>2. th[t].pc = "put" /\ th[t].o = o
        BY <4>1
      <4> QED BY <4>2, <2>1 DEF Anchors, Roots
    <3>3. CASE thunkHolds \/ \E a \in Arrays : o \in Range(content[a])
      BY <3>3, <2>1 DEF Anchors, Roots
    <3> QED BY <3>1, <3>2, <3>3, <2>1 DEF Roots
  <2> QED BY <2>1, <1>1 DEF Anchors, Roots
<1>7. Reachable' \cap freed' = {}
  <2>1. Anchors' \subseteq Reachable
    BY <1>6, AnchorsReachable
  <2>2. freed' \cap Reachable \subseteq freed
    OBVIOUS
  <2> QED BY <2>1, <2>2, <1>1, <1>2, Unreached
<1> QED BY <1>3, <1>4, <1>5, <1>7 DEF AggregateInv

\* What the types of the program counters and the constants say of a thread.
LEMMA ThreadTyped ==
  ASSUME AggregateInv, NEW t \in Threads
  PROVE  /\ TypeOK /\ ThreadOK(t) /\ None \notin Objs /\ None \notin Arrays
         /\ th[t].o \in Objs \cup {None} /\ th[t].array \in Arrays \cup {None}
         /\ DOMAIN th = Threads /\ DOMAIN ref = Objs /\ DOMAIN content = Arrays
         /\ \A a \in Arrays : content[a] \in Seq(Names \cup Objs)
BY AggregatesAssumption DEF AggregateInv, TypeOK

\* Goto: the thread's new record is of its type.
LEMMA GotoTyped ==
  ASSUME AggregateInv, NEW t \in Threads, NEW o \in Objs \cup {None},
         NEW pc \in {"idle", "deref", "cull", "remove", "create", "put"}, Goto(t, pc, o)
  PROVE  /\ th' \in [Threads -> [pc : {"idle", "deref", "cull", "remove", "create", "put"},
                                 array : Arrays \cup {None}, o : Objs \cup {None}]]
         /\ th'[t] = [pc |-> pc, array |-> th[t].array, o |-> o]
         /\ \A u \in Threads \ {t} : th'[u] = th[u]
BY ThreadTyped DEF Goto, AggregateInv, TypeOK

\* The thread returns.
LEMMA IdleTyped ==
  ASSUME AggregateInv, NEW t \in Threads, th' = [th EXCEPT ![t] = Idle]
  PROVE  /\ th' \in [Threads -> [pc : {"idle", "deref", "cull", "remove", "create", "put"},
                                 array : Arrays \cup {None}, o : Objs \cup {None}]]
         /\ th'[t] = Idle /\ ThreadOK(t)' /\ th'[t].pc = "idle"
         /\ \A u \in Threads \ {t} : th'[u] = th[u]
<1>1. Idle \in [pc : {"idle", "deref", "cull", "remove", "create", "put"},
                array : Arrays \cup {None}, o : Objs \cup {None}]
  BY DEF Idle
<1>2. th'[t] = Idle /\ (\A u \in Threads \ {t} : th'[u] = th[u])
  BY ThreadTyped
<1>3. th'[t].pc = "idle" /\ th'[t].o = None
  BY <1>2 DEF Idle
<1>4. ThreadOK(t)'
  BY <1>3 DEF ThreadOK
<1> QED BY <1>1, <1>2, <1>3, <1>4 DEF AggregateInv, TypeOK

\* structCache.get
LEMMA NewStructStep ==
  ASSUME AggregateInv, NEW t \in Threads, NEW a \in Arrays, NewStruct(t, a), thunkHolds' = thunkHolds
  PROVE  AggregateInv'
<1>1. /\ UNCHANGED <<thunkHolds, content, obj, freed, ref, structCache, held>> /\ th[t].pc = "idle"
  BY DEF NewStruct
<1>2. CASE \E e \in structCache : /\ Matches(e, content[a])
                                  /\ th' = [th EXCEPT ![t] = [pc |-> "deref", array |-> a, o |-> e.o]]
  <2>1. PICK e \in structCache : /\ Matches(e, content[a])
                                 /\ th' = [th EXCEPT ![t] = [pc |-> "deref", array |-> a, o |-> e.o]]
    BY <1>2
  <2>2. e.o \in Objs /\ EntryOK(e) /\ e.o # None
    BY AggregatesAssumption DEF AggregateInv, TypeOK
  <2>3. th'[t] = [pc |-> "deref", array |-> a, o |-> e.o] /\ \A u \in Threads \ {t} : th'[u] = th[u]
    BY <2>1, ThreadTyped
  <2>4. ThreadOK(t)'
    BY <1>1, <2>1, <2>2, <2>3 DEF ThreadOK, EntryOK, Matches, Fields, Exists
  <2>5. TypeOK'
    BY <1>1, <2>1, <2>2 DEF AggregateInv, TypeOK
  <2> QED BY <1>1, <2>3, <2>4, <2>5, Quiet
<1>3. CASE th' = [th EXCEPT ![t] = [pc |-> "cull", array |-> a, o |-> None]]
  <2>1. th'[t] = [pc |-> "cull", array |-> a, o |-> None] /\ \A u \in Threads \ {t} : th'[u] = th[u]
    BY <1>3, ThreadTyped
  <2>2. ThreadOK(t)'
    BY <2>1 DEF ThreadOK
  <2>3. TypeOK'
    BY <1>1, <1>3 DEF AggregateInv, TypeOK
  <2> QED BY <1>1, <2>1, <2>2, <2>3, Quiet
<1> QED BY <1>2, <1>3 DEF NewStruct

\* ref.get(): a reference that was not cleared holds an Aggregate that could
\* be reached all the time.
LEMMA DerefStep ==
  ASSUME AggregateInv, NEW t \in Threads, Deref(t), thunkHolds' = thunkHolds
  PROVE  AggregateInv'
<1>1. /\ UNCHANGED <<thunkHolds, content, obj, freed, ref, structCache>> /\ th[t].pc = "deref"
  BY DEF Deref
<1>2. th[t].o \in Objs /\ Exists(th[t].o) /\ th[t].array \in Arrays
  BY <1>1, ThreadTyped DEF ThreadOK
<1>3. CASE ref[th[t].o] = "live" /\ Return(t, th[t].o)
  <2>1. held' = held \cup {th[t].o} /\ th' = [th EXCEPT ![t] = Idle]
    BY <1>3 DEF Return
  <2>2. TypeOK'
    BY <1>1, <1>2, <2>1, IdleTyped DEF AggregateInv, TypeOK
  <2>3. th[t].o \in Anchors
    BY <1>2, <1>3 DEF Anchors
  <2>4. ThreadOK(t)' /\ th'[t].pc # "put" /\ \A u \in Threads \ {t} : th'[u] = th[u]
    BY <2>1, IdleTyped
  <2> QED BY <1>1, <1>2, <2>1, <2>2, <2>3, <2>4, Quiet
<1>4. CASE Goto(t, "cull", None) /\ UNCHANGED held
  <2>1. TypeOK'
    BY <1>1, <1>4, GotoTyped DEF AggregateInv, TypeOK
  <2>2. th'[t] = [pc |-> "cull", array |-> th[t].array, o |-> None] /\ \A u \in Threads \ {t} : th'[u] = th[u]
    BY <1>4, GotoTyped
  <2>3. ThreadOK(t)'
    BY <1>2, <2>2 DEF ThreadOK
  <2> QED BY <1>1, <1>4, <2>1, <2>2, <2>3, Quiet
<1> QED BY <1>3, <1>4 DEF Deref

\* structReferenceQueue.poll()
LEMMA CullStep ==
  ASSUME AggregateInv, NEW t \in Threads, Cull(t), thunkHolds' = thunkHolds
  PROVE  AggregateInv'
<1>1. /\ UNCHANGED <<thunkHolds, content, obj, freed, structCache, held>> /\ th[t].pc = "cull"
  BY DEF Cull
<1>2. th[t].array \in Arrays
  BY <1>1, ThreadTyped DEF ThreadOK
<1>3. CASE \E o \in Objs : ref[o] = "queued" /\ ref' = [ref EXCEPT ![o] = "done"] /\ Goto(t, "remove", o)
  <2>1. PICK o \in Objs : ref[o] = "queued" /\ ref' = [ref EXCEPT ![o] = "done"] /\ Goto(t, "remove", o)
    BY <1>3
  <2>2. TypeOK'
    BY <1>1, <2>1, GotoTyped DEF AggregateInv, TypeOK
  <2>3. th'[t] = [pc |-> "remove", array |-> th[t].array, o |-> o] /\ \A u \in Threads \ {t} : th'[u] = th[u]
    BY <2>1, GotoTyped
  <2>4. Exists(o)' /\ o # None
    BY <1>1, <2>1, ThreadTyped DEF AggregateInv, Existing, Exists
  <2>5. ThreadOK(t)'
    BY <1>2, <2>3, <2>4 DEF ThreadOK, Exists
  <2>6. \A p \in Objs : ref'[p] = IF p = o THEN "done" ELSE ref[p]
    BY <2>1, ThreadTyped
  <2> QED BY <1>1, <2>2, <2>3, <2>5, <2>6, Quiet
<1>4. CASE Goto(t, "create", None) /\ UNCHANGED ref
  <2>1. TypeOK'
    BY <1>1, <1>4, GotoTyped DEF AggregateInv, TypeOK
  <2>2. th'[t] = [pc |-> "create", array |-> th[t].array, o |-> None] /\ \A u \in Threads \ {t} : th'[u] = th[u]
    BY <1>4, GotoTyped
  <2>3. ThreadOK(t)'
    BY <1>2, <2>2 DEF ThreadOK
  <2> QED BY <1>1, <1>4, <2>1, <2>2, <2>3, Quiet
<1> QED BY <1>3, <1>4 DEF Cull

\* structCache.remove(ref.fieldsList)
LEMMA RemoveDeadStep ==
  ASSUME AggregateInv, NEW t \in Threads, RemoveDead(t), thunkHolds' = thunkHolds
  PROVE  AggregateInv'
<1>1. /\ UNCHANGED <<thunkHolds, content, obj, freed, ref, held>> /\ th[t].pc = "remove"
      /\ structCache' \subseteq structCache /\ Goto(t, "cull", None)
  BY DEF RemoveDead
<1>2. th[t].array \in Arrays
  BY <1>1, ThreadTyped DEF ThreadOK
<1>3. TypeOK'
  BY <1>1, GotoTyped DEF AggregateInv, TypeOK
<1>4. th'[t] = [pc |-> "cull", array |-> th[t].array, o |-> None] /\ \A u \in Threads \ {t} : th'[u] = th[u]
  BY <1>1, GotoTyped
<1>5. ThreadOK(t)'
  BY <1>2, <1>4 DEF ThreadOK
<1> QED BY <1>1, <1>3, <1>4, <1>5, Quiet

\* The constructor throws.
LEMMA CreateFailsStep ==
  ASSUME AggregateInv, NEW t \in Threads, CreateFails(t), thunkHolds' = thunkHolds
  PROVE  AggregateInv'
<1>1. /\ UNCHANGED <<thunkHolds, content, obj, freed, ref, structCache, held>>
      /\ th' = [th EXCEPT ![t] = Idle]
  BY DEF CreateFails
<1>2. TypeOK'
  BY <1>1, IdleTyped DEF AggregateInv, TypeOK
<1>3. ThreadOK(t)' /\ th'[t].pc # "put" /\ \A u \in Threads \ {t} : th'[u] = th[u]
  BY <1>1, IdleTyped
<1> QED BY <1>1, <1>2, <1>3, Quiet

\* structCache.put: the entry gets the Struct of the types its hash is for.
LEMMA PutStep ==
  ASSUME AggregateInv, NEW t \in Threads, Put(t), thunkHolds' = thunkHolds
  PROVE  AggregateInv'
<1>1. /\ UNCHANGED <<thunkHolds, content, obj, freed, ref>> /\ th[t].pc = "put"
      /\ held' = held \cup {th[t].o} /\ th' = [th EXCEPT ![t] = Idle]
  BY DEF Put, Return
<1>2. /\ th[t].o \in Objs /\ Exists(th[t].o) /\ th[t].array \in Arrays
      /\ obj[th[t].o].fields = Fields(t) /\ Fields(t) \in Seq(Names \cup Objs)
  BY <1>1, ThreadTyped DEF ThreadOK, Fields
<1>3. PICK e : /\ e.o = th[t].o /\ e.hash = Fields(t) /\ e \in [hash : Seq(Names \cup Objs), key : Arrays, o : Objs]
               /\ structCache' \subseteq structCache \cup {e}
  <2>1. CASE \E e \in structCache :
               Matches(e, Fields(t)) /\ structCache' = (structCache \ {e}) \cup {[e EXCEPT !.o = th[t].o]}
    <3>1. PICK e \in structCache :
               Matches(e, Fields(t)) /\ structCache' = (structCache \ {e}) \cup {[e EXCEPT !.o = th[t].o]}
      BY <2>1
    <3>2. e \in [hash : Seq(Names \cup Objs), key : Arrays, o : Objs] /\ e.hash = Fields(t)
      BY <3>1 DEF AggregateInv, TypeOK, Matches
    <3> WITNESS [e EXCEPT !.o = th[t].o]
    <3> QED BY <3>1, <3>2, <1>2
  <2>2. CASE structCache' = structCache \cup {[hash |-> Fields(t), key |-> th[t].array, o |-> th[t].o]}
    <3> WITNESS [hash |-> Fields(t), key |-> th[t].array, o |-> th[t].o]
    <3> QED BY <2>2, <1>2
  <2> QED BY <2>1, <2>2 DEF Put
<1>4. TypeOK'
  BY <1>1, <1>2, <1>3, IdleTyped DEF AggregateInv, TypeOK
<1>5. EntryOK(e)
  BY <1>2, <1>3 DEF EntryOK
<1>6. th[t].o \in Anchors
  BY <1>1, <1>2 DEF Anchors, Roots
<1>7. ThreadOK(t)' /\ th'[t].pc # "put" /\ \A u \in Threads \ {t} : th'[u] = th[u]
  BY <1>1, IdleTyped
<1> QED BY <1>1, <1>2, <1>3, <1>4, <1>5, <1>6, <1>7, Quiet

\* The application drops an Aggregate.
LEMMA DropStep ==
  ASSUME AggregateInv, NEW o \in Objs, Drop(o), thunkHolds' = thunkHolds
  PROVE  AggregateInv'
<1>1. UNCHANGED <<thunkHolds, content, obj, freed, ref, structCache, th>> /\ held' \subseteq held
  BY DEF Drop
<1>2. TypeOK'
  BY <1>1 DEF AggregateInv, TypeOK
<1> QED BY <1>1, <1>2, Quiet

\* The collector clears weak references.
LEMMA ClearStep ==
  ASSUME AggregateInv, NEW o \in Objs, Clear(o), thunkHolds' = thunkHolds
  PROVE  AggregateInv'
<1>1. UNCHANGED <<thunkHolds, content, obj, freed, structCache, held, th>>
  BY DEF Clear
<1> DEFINE dead == {p \in Objs : Exists(p) /\ ref[p] = "live" /\ o \in Closure({p}, Kept)}
<1>2. ref' = [p \in Objs |-> IF p \notin dead THEN ref[p]
                             ELSE IF RefReachable(p) THEN "pending" ELSE "done"]
  BY DEF Clear
<1>3. \A p \in dead : ref[p] = "live"
  OBVIOUS
<1> HIDE DEF dead
<1>4. \A p \in Objs : ref'[p] = ref[p] \/ (ref[p] = "live" /\ ref'[p] \in {"pending", "done"})
  BY <1>2, <1>3
<1>5. TypeOK'
  BY <1>1, <1>2 DEF AggregateInv, TypeOK
<1> QED BY <1>1, <1>4, <1>5, Quiet

\* The ReferenceHandler enqueues a cleared reference.
LEMMA EnqueueStep ==
  ASSUME AggregateInv, NEW o \in Objs, Enqueue(o), thunkHolds' = thunkHolds
  PROVE  AggregateInv'
<1>1. /\ UNCHANGED <<thunkHolds, content, obj, freed, structCache, held, th>>
      /\ ref[o] = "pending" /\ ref' = [ref EXCEPT ![o] = "queued"]
  BY DEF Enqueue
<1>2. \A p \in Objs : ref'[p] = IF p = o THEN "queued" ELSE ref[p]
  BY <1>1 DEF AggregateInv, TypeOK
<1>3. TypeOK'
  BY <1>1 DEF AggregateInv, TypeOK
<1> QED BY <1>1, <1>2, <1>3, Quiet

\* freeAggregate: of one that cannot be reached.
LEMMA FreeStep ==
  ASSUME AggregateInv, NEW o \in Objs, Free(o), thunkHolds' = thunkHolds
  PROVE  AggregateInv'
<1>1. /\ UNCHANGED <<thunkHolds, content, obj, ref, structCache, held, th>>
      /\ Exists(o) /\ o \notin Reachable /\ freed' = freed \cup {o}
  BY DEF Free
<1>2. TypeOK'
  BY <1>1 DEF AggregateInv, TypeOK
<1> QED BY <1>1, <1>2, Quiet

(***************************************************************************)
(* Steps that make or forget an Aggregate, or change an array              *)
(***************************************************************************)

\* The constructors: the fields of a new Aggregate can be reached already, and
\* nothing refers to it but the thread that makes it.
LEMMA Creation ==
  ASSUME AggregateInv, TypeOK', NEW o \in Objs, ~Exists(o), NEW new, obj' = [obj EXCEPT ![o] = new],
         new.kind # "none", Objs \cap Range(new.fields) \subseteq Roots,
         UNCHANGED <<thunkHolds, content, freed, structCache>>,
         held' \subseteq held \cup {o}, \A p \in Objs \ {o} : ref'[p] = ref[p],
         \A t \in Threads : \/ th'[t] = th[t]
                            \/ ThreadOK(t)' /\ (th'[t].pc = "put" => th'[t].o = o)
  PROVE  AggregateInv'
<1>1. Existing /\ TypeOK /\ (\A t \in Threads : ThreadOK(t)) /\ (\A e \in structCache : EntryOK(e))
      /\ Reachable \cap freed = {} /\ Reachable \subseteq Objs /\ DOMAIN obj = Objs
  BY DEF AggregateInv, Reachable, Closure, TypeOK
<1>2. obj'[o] = new /\ \A p \in Objs \ {o} : obj'[p] = obj[p]
  BY <1>1
<1>3. Exists(o)' /\ \A p \in Objs \ {o} : Exists(p)' = Exists(p) /\ Kept(p)' = Kept(p)
  BY <1>2 DEF Exists, Kept
<1>4. Kept(o)' \subseteq Roots
  BY <1>2 DEF Kept
<1>5. Existing'
  <2>1. \A p \in held' \cup freed' : Exists(p)'
    BY <1>1, <1>3 DEF Existing, TypeOK
  <2>2. \A p \in Objs : ref'[p] # "done" => Exists(p)'
    BY <1>1, <1>3 DEF Existing
  <2>3. \A a \in Arrays : \A p \in Objs \cap Range(content'[a]) : Exists(p)'
    BY <1>1, <1>3 DEF Existing
  <2>4. \A q \in Objs : Exists(q)' => \A p \in Kept(q)' : Exists(p)'
    <3>1. \A p \in Kept(o)' : Exists(p)'
      BY <1>3, <1>4 DEF Roots
    <3>2. \A q \in Objs \ {o} : Exists(q) => \A p \in Kept(q) : p \in Objs /\ Exists(p)
      BY <1>1 DEF Existing, Kept
    <3> QED BY <3>1, <3>2, <1>3
  <2> QED BY <2>1, <2>2, <2>3, <2>4 DEF Existing
<1>6. ASSUME NEW e \in structCache' PROVE EntryOK(e)'
  <2>1. e.o \in Objs /\ e.o # o /\ EntryOK(e)
    BY <1>1 DEF EntryOK, TypeOK
  <2> QED BY <2>1, <1>2, <1>3 DEF EntryOK
<1>7. ASSUME NEW t \in Threads PROVE ThreadOK(t)'
  <2>1. CASE th'[t] = th[t]
    <3>1. ThreadOK(t) /\ th[t].o \in Objs \cup {None} /\ th[t].o # o
      BY <1>1, ThreadTyped DEF ThreadOK
    <3>2. ASSUME th[t].o # None PROVE Exists(th[t].o)' /\ obj'[th[t].o] = obj[th[t].o]
      <4>1. th[t].o \in Objs \ {o} /\ Exists(th[t].o)
        BY <3>1, <3>2 DEF ThreadOK
      <4> QED BY <2>1, <4>1, <1>2 DEF Exists
    <3> QED BY <2>1, <3>1, <3>2 DEF ThreadOK, Fields, Exists
  <2> QED BY <2>1
<1>8. Reachable' \cap freed' = {}
  <2> DEFINE S == Reachable \cup {o}
  <2>1. Anchors' \subseteq S
    <3>1. ASSUME NEW p \in Roots', p # o PROVE p \in Anchors
      <4>1. p \in Objs /\ Exists(p)
        BY <1>3, <3>1 DEF Roots
      <4>2. CASE thunkHolds \/ p \in held' \/ \E a \in Arrays : p \in Range(content'[a])
        BY <4>1, <4>2, <3>1 DEF Roots, Anchors
      <4>3. CASE \E t \in Threads : th'[t].pc = "put" /\ th'[t].o = p
        BY <4>1, <4>3, <3>1 DEF Roots, Anchors
      <4> QED BY <4>2, <4>3 DEF Roots
    <3>2. ASSUME NEW p \in Objs, p # o, Exists(p)', ref'[p] = "live" PROVE p \in Anchors
      BY <1>3, <3>2 DEF Anchors
    <3> QED BY <3>1, <3>2, AnchorsReachable DEF Anchors
  <2>2. \A p \in S : Kept(p)' \subseteq S
    <3>1. Roots \subseteq Reachable
      BY AnchorsReachable DEF Anchors
    <3>2. ASSUME NEW p \in Reachable, p # o PROVE Kept(p)' \subseteq Reachable
      BY <1>1, <1>3, <3>2, KeptReachable
    <3> QED BY <3>1, <3>2, <1>4
  <2>a. S \in SUBSET Objs
    BY <1>1
  <2>3. Reachable' \subseteq S
    <3> HIDE DEF S
    <3> QED BY <2>a, <2>1, <2>2, ReachableNext
  <2>4. o \notin freed
    BY <1>1 DEF Existing
  <2> QED BY <2>3, <2>4, <1>1
<1> QED BY <1>5, <1>6, <1>7, <1>8 DEF AggregateInv

\* new Struct(...): its fields are in the caller's array.
LEMMA CreateStructStep ==
  ASSUME AggregateInv, NEW t \in Threads, CreateStruct(t), thunkHolds' = thunkHolds
  PROVE  AggregateInv'
<1> DEFINE new == [kind |-> "struct", fields |-> Fields(t), array |-> th[t].array,
                   layout |-> NativeStruct(NativeHandles(Fields(t)), FALSE)]
<1>1. PICK o \in Objs : /\ ~Exists(o) /\ obj' = [obj EXCEPT ![o] = new]
                        /\ ref' = [ref EXCEPT ![o] = "live"] /\ Goto(t, "put", o)
  BY DEF CreateStruct
<1>2. UNCHANGED <<thunkHolds, content, freed, structCache, held>> /\ th[t].pc = "create"
  BY DEF CreateStruct
<1>3. th[t].array \in Arrays /\ Fields(t) \in Seq(Names \cup Objs) /\ o # None /\ DOMAIN obj = Objs
  BY <1>2, ThreadTyped DEF ThreadOK, Fields, AggregateInv, TypeOK
<1>4. new.kind # "none" /\ new.fields = Fields(t)
  OBVIOUS
<1> HIDE DEF new
<1>5. Objs \cap Range(new.fields) \subseteq Roots
  BY <1>3, <1>4 DEF Roots, AggregateInv, Existing, Fields
<1>6. obj'[o] = new /\ \A p \in Objs \ {o} : obj'[p] = obj[p]
  BY <1>1, <1>3
<1>7. th'[t] = [pc |-> "put", array |-> th[t].array, o |-> o] /\ \A u \in Threads \ {t} : th'[u] = th[u]
  BY <1>1, GotoTyped
<1>8. TypeOK'
  <2>1. DOMAIN obj' = Objs
    BY <1>1, <1>3
  <2>2. ASSUME NEW p \in Objs PROVE obj'[p].fields \in Seq(Names \cup Objs)
    <3>1. obj[p].fields \in Seq(Names \cup Objs)
      BY DEF AggregateInv, TypeOK
    <3> QED BY <3>1, <1>3, <1>4, <1>6
  <2> QED BY <2>1, <2>2, <1>1, <1>2, GotoTyped DEF AggregateInv, TypeOK
<1>9. ThreadOK(t)'
  BY <1>2, <1>3, <1>4, <1>6, <1>7 DEF ThreadOK, Exists, Fields
<1>10. \A p \in Objs \ {o} : ref'[p] = ref[p]
  BY <1>1, ThreadTyped
<1>11. \A u \in Threads : \/ th'[u] = th[u]
                          \/ ThreadOK(u)' /\ (th'[u].pc = "put" => th'[u].o = o)
  BY <1>7, <1>9
<1>12. held' \subseteq held \cup {o}
  BY <1>2
<1> QED BY <1>1, <1>2, <1>4, <1>5, <1>8, <1>10, <1>11, <1>12, Creation

\* The constructors of what is not cached.
LEMMA MakeStep ==
  ASSUME AggregateInv, NEW o \in Objs, NEW new, Make(o, new), thunkHolds' = thunkHolds,
         new.kind # "none", new.fields \in Seq(Names \cup Objs), Objs \cap Range(new.fields) \subseteq Roots
  PROVE  AggregateInv'
<1>1. /\ ~Exists(o) /\ obj' = [obj EXCEPT ![o] = new] /\ ref' = [ref EXCEPT ![o] = "done"]
      /\ held' = held \cup {o} /\ UNCHANGED <<thunkHolds, content, freed, structCache, th>>
  BY DEF Make
<1>2. DOMAIN obj = Objs
  BY DEF AggregateInv, TypeOK
<1>3. obj'[o] = new /\ \A p \in Objs \ {o} : obj'[p] = obj[p]
  BY <1>1, <1>2
<1>4. TypeOK'
  <2>1. DOMAIN obj' = Objs
    BY <1>1, <1>2
  <2>2. ASSUME NEW p \in Objs PROVE obj'[p].fields \in Seq(Names \cup Objs)
    <3>1. obj[p].fields \in Seq(Names \cup Objs)
      BY DEF AggregateInv, TypeOK
    <3> QED BY <3>1, <1>3
  <2> QED BY <2>1, <2>2, <1>1 DEF AggregateInv, TypeOK
<1>5. \A p \in Objs \ {o} : ref'[p] = ref[p]
  BY <1>1 DEF AggregateInv, TypeOK
<1> QED BY <1>1, <1>4, <1>5, Creation

\* Union, and the deprecated constructor of Struct.
LEMMA NewAggregateStep ==
  ASSUME AggregateInv, NEW o \in Objs, NEW a \in Arrays, NEW isUnion \in BOOLEAN,
         NewAggregate(o, a, isUnion), thunkHolds' = thunkHolds
  PROVE  AggregateInv'
<1> DEFINE new == [kind |-> IF isUnion THEN "union" ELSE "struct", fields |-> content[a],
                   array |-> a, layout |-> NativeStruct(NativeHandles(content[a]), isUnion)]
<1>1. Make(o, new)
  BY DEF NewAggregate
<1>2. new.kind # "none" /\ new.fields = content[a]
  OBVIOUS
<1> HIDE DEF new
<1>3. content[a] \in Seq(Names \cup Objs) /\ Objs \cap Range(content[a]) \subseteq Roots
  BY DEF Roots, AggregateInv, Existing, TypeOK
<1> QED BY <1>1, <1>2, <1>3, MakeStep

\* Array: of a builtin type or of an Aggregate that the application has.
LEMMA NewArrayStep ==
  ASSUME AggregateInv, NEW o \in Objs, NEW type \in DOMAIN Builtin \cup held, NEW n \in Lengths,
         NewArray(o, type, n), thunkHolds' = thunkHolds, n \in Nat
  PROVE  AggregateInv'
<1> DEFINE new == [kind |-> "array", fields |-> [i \in 1..n |-> type], array |-> None,
                   layout |-> NativeArray(LayoutOf(type), n)]
<1>1. Make(o, new)
  BY DEF NewArray
<1>2. new.kind # "none" /\ new.fields = [i \in 1..n |-> type]
  OBVIOUS
<1> HIDE DEF new
<1>3. type \in Names \cup Objs /\ (type \in Objs => type \in Roots)
  BY AggregatesAssumption DEF Roots, AggregateInv, Existing, TypeOK, Names
<1>4. [i \in 1..n |-> type] \in Seq(Names \cup Objs)
  BY <1>3
<1>5. Range([i \in 1..n |-> type]) \subseteq {type}
  BY DEF Range
<1> QED BY <1>1, <1>2, <1>3, <1>4, <1>5, MakeStep

\* The application changes an array that no thread reads.
LEMMA StoreStep ==
  ASSUME AggregateInv, NEW a \in Arrays, NEW list \in Lists(held), Store(a, list), thunkHolds' = thunkHolds
  PROVE  AggregateInv'
<1>1. /\ UNCHANGED <<thunkHolds, obj, freed, ref, structCache, held, th>>
      /\ content' = [content EXCEPT ![a] = list] /\ \A t \in Threads : th[t].array # a
  BY DEF Store
<1>2. Existing /\ TypeOK /\ (\A t \in Threads : ThreadOK(t)) /\ (\A e \in structCache : EntryOK(e))
      /\ Reachable \cap freed = {}
  BY DEF AggregateInv
<1>3. \A b \in Arrays : content'[b] = IF b = a THEN list ELSE content[b]
  BY <1>1, <1>2 DEF TypeOK
<1>4. list \in Seq(Names \cup held) /\ Range(list) \subseteq Names \cup held /\ list \in Seq(Names \cup Objs)
  <2>1. held \in SUBSET Objs
    BY <1>2 DEF TypeOK
  <2>2. list \in Seq(Names \cup held)
    BY <2>1, AggregatesAssumption
  <2>3. \A i \in DOMAIN list : list[i] \in Names \cup held
    BY <2>2
  <2>4. list \in Seq(Names \cup Objs)
    BY <2>1, <2>2
  <2> QED BY <2>2, <2>3, <2>4 DEF Range
<1>5. Objs \cap Range(list) \subseteq held
  BY <1>4, AggregatesAssumption
<1>6. \A p : Exists(p)' = Exists(p) /\ Kept(p)' = Kept(p)
  BY <1>1 DEF Exists, Kept
<1>7. TypeOK'
  BY <1>1, <1>2, <1>4 DEF TypeOK
<1>8. Existing'
  <2>1. \A b \in Arrays : \A p \in Objs \cap Range(content'[b]) : Exists(p)
    BY <1>2, <1>3, <1>5 DEF Existing
  <2> QED BY <2>1, <1>1, <1>2, <1>6 DEF Existing
<1>9. ASSUME NEW t \in Threads PROVE ThreadOK(t)'
  <2>1. th[t].array \in Arrays => content'[th[t].array] = content[th[t].array]
    BY <1>1, <1>3
  <2> QED BY <2>1, <1>1, <1>2, <1>6 DEF ThreadOK, Fields
<1>10. \A e \in structCache' : EntryOK(e)'
  BY <1>1, <1>2, <1>6 DEF EntryOK
<1>11. Anchors' \subseteq Anchors
  <2>1. ASSUME NEW p \in Roots' PROVE p \in Roots
    <3>1. p \in Objs /\ Exists(p)
      BY <1>6, <2>1 DEF Roots
    <3>2. ASSUME NEW b \in Arrays, p \in Range(content'[b]) PROVE p \in Roots
      BY <3>1, <3>2, <1>3, <1>5 DEF Roots
    <3> QED BY <3>1, <3>2, <2>1, <1>1 DEF Roots
  <2> QED BY <2>1, <1>1, <1>6 DEF Anchors
<1>12. Reachable' \cap freed' = {}
  BY <1>1, <1>2, <1>6, <1>11, AnchorsReachable, Unreached
<1> QED BY <1>7, <1>8, <1>9, <1>10, <1>12 DEF AggregateInv

\* Nothing is left of an Aggregate, and its identity is free for another.
LEMMA ForgetStep ==
  ASSUME AggregateInv, NEW o \in Objs, Forget(o), thunkHolds' = thunkHolds
  PROVE  AggregateInv'
<1>1. /\ UNCHANGED <<thunkHolds, content, ref, structCache, held, th>> /\ o \in freed
      /\ ref[o] = "done" /\ ~RefReachable(o) /\ obj' = [obj EXCEPT ![o] = Gone] /\ freed' = freed \ {o}
      /\ \A p \in Objs : Exists(p) => o \notin Range(obj[p].fields)
  BY DEF Forget
<1>2. Existing /\ TypeOK /\ (\A t \in Threads : ThreadOK(t)) /\ (\A e \in structCache : EntryOK(e))
      /\ Reachable \cap freed = {} /\ DOMAIN obj = Objs
  BY DEF AggregateInv, TypeOK
<1>3. o \notin Reachable /\ o \notin Roots
  BY <1>1, <1>2, AnchorsReachable DEF Anchors
<1>4. obj'[o] = Gone /\ ~Exists(o)' /\ \A p \in Objs \ {o} : obj'[p] = obj[p]
  BY <1>1, <1>2 DEF Exists, Gone
<1>5. \A p \in Objs \ {o} : Exists(p)' = Exists(p) /\ Kept(p)' = Kept(p)
  BY <1>4 DEF Exists, Kept
<1>6. TypeOK'
  <2>1. Gone.fields \in Seq(Names \cup Objs)
    BY DEF Gone
  <2>2. DOMAIN obj' = Objs /\ \A p \in Objs : obj'[p].fields \in Seq(Names \cup Objs)
    BY <2>1, <1>1, <1>2, <1>4 DEF TypeOK
  <2> QED BY <2>2, <1>1, <1>2 DEF TypeOK
<1>7. Existing'
  <2>1. Exists(o)
    BY <1>1, <1>2 DEF Existing
  <2>2. o \notin held /\ \A a \in Arrays : o \notin Range(content[a])
    BY <2>1, <1>3 DEF Roots
  <2>3. \A p \in held' \cup freed' : Exists(p)'
    BY <2>2, <1>1, <1>2, <1>5 DEF Existing, TypeOK
  <2>4. \A p \in Objs : ref'[p] # "done" => Exists(p)'
    BY <1>1, <1>2, <1>5 DEF Existing
  <2>5. \A a \in Arrays : \A p \in Objs \cap Range(content'[a]) : Exists(p)'
    BY <2>2, <1>1, <1>2, <1>5 DEF Existing
  <2>6. ASSUME NEW q \in Objs, Exists(q)', NEW p \in Kept(q)' PROVE Exists(p)'
    <3>1. q # o /\ Exists(q) /\ p \in Kept(q)
      BY <2>6, <1>4, <1>5
    <3>2. p # o /\ p \in Objs /\ Exists(p)
      BY <3>1, <1>1, <1>2 DEF Existing, Kept
    <3> QED BY <3>2, <1>5
  <2> QED BY <2>3, <2>4, <2>5, <2>6 DEF Existing
<1>8. ASSUME NEW e \in structCache' PROVE EntryOK(e)'
  <2>1. e.o \in Objs /\ e.o # o /\ EntryOK(e)
    BY <1>1, <1>2 DEF TypeOK, RefReachable
  <2> QED BY <2>1, <1>4, <1>5 DEF EntryOK
<1>9. ASSUME NEW t \in Threads PROVE ThreadOK(t)'
  <2>1. ThreadOK(t) /\ th[t].o \in Objs \cup {None} /\ th[t].o # o /\ th'[t] = th[t]
    BY <1>1, <1>2, ThreadTyped DEF RefReachable
  <2>2. th[t].o # None => Exists(th[t].o)' /\ obj'[th[t].o] = obj[th[t].o]
    BY <2>1, <1>4, <1>5 DEF ThreadOK
  <2> QED BY <2>1, <2>2, <1>1 DEF ThreadOK, Fields, Exists
<1>10. Anchors' \subseteq Anchors
  <2>1. ASSUME NEW p \in Anchors' PROVE p # o /\ p \in Objs /\ Exists(p)
    BY <1>4, <1>5, <2>1 DEF Anchors, Roots
  <2> QED BY <2>1, <1>1 DEF Anchors, Roots
<1>11. Reachable' \cap freed' = {}
  <2>1. \A p \in Reachable : Kept(p)' = Kept(p)
    BY <1>3, <1>5 DEF Reachable, Closure
  <2> QED BY <2>1, <1>1, <1>2, <1>10, AnchorsReachable, Unreached
<1> QED BY <1>6, <1>7, <1>8, <1>9, <1>11 DEF AggregateInv

(***************************************************************************)
(* The invariant and what follows from it                                  *)
(***************************************************************************)

\* AggregateInv holds of every behaviour: newStruct, the constructors, the
\* Cleaner and the collector.
THEOREM AggregateInvariance == Spec => []AggregateInv
<1>1. Init => AggregateInv
  <2> SUFFICES ASSUME Init PROVE AggregateInv
    OBVIOUS
  <2>1. \A o \in Objs : obj[o] = Gone /\ ~Exists(o) /\ ref[o] = "done"
    BY DEF Init, Exists, Gone
  <2>2. <<>> \in Seq(Names \cup Objs) /\ Range(<<>>) = {} /\ Gone.fields = <<>>
    BY DEF Range, Gone
  <2>3. TypeOK
    BY <2>1, <2>2 DEF Init, TypeOK, Idle
  <2>4. Existing
    BY <2>1, <2>2 DEF Init, Existing
  <2>5. \A t \in Threads : ThreadOK(t)
    BY DEF Init, ThreadOK, Idle
  <2>6. freed = {} /\ structCache = {}
    BY DEF Init
  <2> QED BY <2>3, <2>4, <2>5, <2>6 DEF AggregateInv
<1>2. AggregateInv /\ [Next]_vars => AggregateInv'
  <2> SUFFICES ASSUME AggregateInv, [Next]_vars PROVE AggregateInv'
    OBVIOUS
  <2>1. CASE UNCHANGED vars
    <3>1. TypeOK'
      BY <2>1 DEF vars, AggregateInv, TypeOK
    <3> QED BY <2>1, <3>1, Quiet DEF vars
  <2>2. CASE Next
    <3>1. thunkHolds' = thunkHolds
      BY <2>2 DEF Next
    <3>2. ASSUME NEW t \in Threads, NEW a \in Arrays, NewStruct(t, a) PROVE AggregateInv'
      BY <3>1, <3>2, NewStructStep
    <3>3. ASSUME NEW t \in Threads,
                 Deref(t) \/ Cull(t) \/ RemoveDead(t) \/ CreateStruct(t) \/ CreateFails(t) \/ Put(t)
          PROVE  AggregateInv'
      BY <3>1, <3>3, DerefStep, CullStep, RemoveDeadStep, CreateStructStep, CreateFailsStep, PutStep
    <3>4. ASSUME NEW o \in Objs, NEW a \in Arrays, NEW isUnion \in BOOLEAN, NewAggregate(o, a, isUnion)
          PROVE  AggregateInv'
      BY <3>1, <3>4, NewAggregateStep
    <3>5. ASSUME NEW o \in Objs, NEW type \in DOMAIN Builtin \cup held, NEW n \in Lengths, NewArray(o, type, n)
          PROVE  AggregateInv'
      BY <3>1, <3>5, NewArrayStep, AggregatesAssumption
    <3>6. ASSUME NEW a \in Arrays, NEW list \in Lists(held), Store(a, list) PROVE AggregateInv'
      BY <3>1, <3>6, StoreStep
    <3>7. ASSUME NEW o \in Objs, Drop(o) \/ Clear(o) \/ Enqueue(o) \/ Free(o) \/ Forget(o) PROVE AggregateInv'
      BY <3>1, <3>7, DropStep, ClearStep, EnqueueStep, FreeStep, ForgetStep
    <3> QED BY <2>2, <3>2, <3>3, <3>4, <3>5, <3>6, <3>7 DEF Next
  <2> QED BY <2>1, <2>2
<1> QED BY <1>1, <1>2, PTL DEF Spec

\* newStruct gives a Struct of the fields it was asked for, although the keys
\* of its map are arrays that may have changed since.
THEOREM StructsAsRequested == Spec => []StructAsRequested
<1>1. AggregateInv => StructAsRequested
  BY DEF AggregateInv, ThreadOK, StructAsRequested
<1> QED BY <1>1, AggregateInvariance, PTL

\* No ffi_type that native code can get to from an Aggregate in use was freed:
\* the clone of the fields keeps those of the elements.
THEOREM ElementsKept == Spec => []ElementsOutliveUse
<1>1. AggregateInv => ElementsOutliveUse
  <2> SUFFICES ASSUME AggregateInv PROVE ElementsOutliveUse
    OBVIOUS
  <2>1. Closure(Roots, Kept) \cap freed = {}
    BY RootsReach DEF AggregateInv
  <2> QED BY <2>1 DEF ElementsOutliveUse, Closure, Kept
<1> QED BY <1>1, AggregateInvariance, PTL

(***************************************************************************)
(* Arithmetic of size_t                                                    *)
(***************************************************************************)

\* size_t: the remainder by its modulus is the only one below it.
LEMMA Remainder ==
  ASSUME NEW b \in Nat \ {0}, NEW q \in Int, NEW r \in 0 .. b - 1
  PROVE  (q * b + r) % b = r
<1> DEFINE n == q * b + r  k == n \div b  m == n % b
<1>1. n \in Int /\ k \in Int /\ m \in 0 .. b - 1 /\ n = b * k + m
  OBVIOUS
<1> HIDE DEF k, m
<1>2. b * (k - q) = r - m
  BY <1>1
<1>3. r - m < b /\ m - r < b
  BY <1>1
<1>4. k - q >= 1 => b * (k - q) >= b
  BY <1>1
<1>5. k - q <= -1 => b * (k - q) <= -b
  BY <1>1
<1>6. k - q = 0
  BY <1>1, <1>2, <1>3, <1>4, <1>5
<1> QED BY <1>1, <1>2, <1>6 DEF m

\* A size_t is its remainder.
LEMMA Wrapped ==
  ASSUME NEW n \in Int
  PROVE  Wrap(n) \in 0 .. Modulus - 1 /\ \E q \in Int : n = q * Modulus + Wrap(n)
<1>1. Modulus \in Nat \ {0}
  BY LayoutAssumption
<1>2. n % Modulus \in 0 .. Modulus - 1 /\ n \div Modulus \in Int
      /\ n = (n \div Modulus) * Modulus + (n % Modulus)
  BY <1>1
<1>3. Wrap(n) = n % Modulus
  BY DEF Wrap
<1> QED BY <1>2, <1>3

\* What is below the modulus is kept, whatever multiple of it is added.
LEMMA WrapSame ==
  ASSUME NEW r \in 0 .. Modulus - 1, NEW q \in Int
  PROVE  Wrap(q * Modulus + r) = r
BY Remainder, LayoutAssumption DEF Wrap

\* A multiple of the modulus is lost.
LEMMA WrapMore ==
  ASSUME NEW n \in Int, NEW q \in Int
  PROVE  Wrap(q * Modulus + n) = Wrap(n)
<1>1. PICK k \in Int : n = k * Modulus + Wrap(n)
  BY Wrapped
<1>2. Wrap(n) \in 0 .. Modulus - 1
  BY Wrapped
<1>3. q + k \in Int /\ Modulus \in Nat
  BY LayoutAssumption
<1>4. q * Modulus + n = (q + k) * Modulus + Wrap(n)
  BY <1>1, <1>2, <1>3
<1>5. Wrap((q + k) * Modulus + Wrap(n)) = Wrap(n)
  BY <1>2, <1>3, WrapSame
<1> QED BY <1>4, <1>5

\* C's rounding to an alignment.
LEMMA RoundedUp ==
  ASSUME NEW a \in Alignments, NEW n \in Nat
  PROVE  /\ RoundUp(n, a) \in Nat /\ RoundUp(n, a) >= n /\ RoundUp(n, a) % a = 0
         /\ (n % a = 0 => RoundUp(n, a) = n)
         /\ \A m \in Int : RoundUp(16 * m + n, a) = 16 * m + RoundUp(n, a)
<1>1. CASE a = 1 BY <1>1 DEF RoundUp
<1>2. CASE a = 2 BY <1>2 DEF RoundUp
<1>3. CASE a = 4 BY <1>3 DEF RoundUp
<1>4. CASE a = 8 BY <1>4 DEF RoundUp
<1>5. CASE a = 16 BY <1>5 DEF RoundUp
<1> QED BY <1>1, <1>2, <1>3, <1>4, <1>5 DEF Alignments

\* The modulus is a multiple of the widest alignment.
LEMMA Sixteenths ==
  \E k \in Nat : Modulus = 16 * k
<1>1. Modulus \in Nat /\ Modulus % 16 = 0
  BY LayoutAssumption
<1>2. Modulus \div 16 \in Nat /\ Modulus = 16 * (Modulus \div 16)
  BY <1>1
<1> QED BY <1>2

\* Modulus is a multiple of every alignment, so wrapping keeps multiples.
LEMMA WrapMultiple ==
  ASSUME NEW a \in Alignments, NEW n \in Nat, n % a = 0
  PROVE  Wrap(n) % a = 0
<1>1. PICK k \in Nat : Modulus = 16 * k
  BY Sixteenths
<1>2. PICK q \in Int : n = q * Modulus + Wrap(n)
  BY Wrapped
<1> DEFINE m == q * k  r == Wrap(n)
<1>3. m \in Int /\ r \in Nat
  BY Wrapped, LayoutAssumption
<1>4. q * (16 * k) = 16 * (q * k)
  OBVIOUS
<1>5. n = 16 * m + r
  BY <1>1, <1>2, <1>4
<1> HIDE DEF m, r
<1>6. r % a = 0
  <2>1. CASE a = 1 BY <2>1, <1>3
  <2>2. CASE a = 2 BY <2>2, <1>3, <1>5
  <2>3. CASE a = 4 BY <2>3, <1>3, <1>5
  <2>4. CASE a = 8 BY <2>4, <1>3, <1>5
  <2>5. CASE a = 16 BY <2>5, <1>3, <1>5
  <2> QED BY <2>1, <2>2, <2>3, <2>4, <2>5 DEF Alignments
<1> QED BY <1>6 DEF r

\* The bits of FFI_ALIGN below size_t's modulus: its first - 1 and its last + 1
\* wrap for 0, and then both.
LEMMA AlignedWithin ==
  ASSUME NEW a \in Alignments, NEW r \in 0 .. Modulus - 1
  PROVE  FFI_ALIGN(r, a) = Wrap(RoundUp(r, a))
<1>1. Modulus \in Nat \ {0}
  BY LayoutAssumption
<1>2. CASE r = 0
  <2>1. Wrap(-1) = Modulus - 1
    <3>1. Modulus - 1 \in 0 .. Modulus - 1 /\ -1 = (-1) * Modulus + (Modulus - 1)
      BY <1>1
    <3>2. Wrap((-1) * Modulus + (Modulus - 1)) = Modulus - 1
      BY <3>1, WrapSame
    <3> QED BY <3>1, <3>2
  <2>2. Modulus - 1 - ((Modulus - 1) % a) + a = Modulus
    <3>1. PICK k \in Nat : Modulus = 16 * k
      BY Sixteenths
    <3>2. CASE a = 1 BY <3>1, <3>2
    <3>3. CASE a = 2 BY <3>1, <3>3
    <3>4. CASE a = 4 BY <3>1, <3>4
    <3>5. CASE a = 8 BY <3>1, <3>5
    <3>6. CASE a = 16 BY <3>1, <3>6
    <3> QED BY <3>2, <3>3, <3>4, <3>5, <3>6 DEF Alignments
  <2>3. FFI_ALIGN(r, a) = Wrap(Modulus)
    BY <1>2, <2>1, <2>2 DEF FFI_ALIGN
  <2>4. RoundUp(r, a) = 0
    <3>1. a \in Nat \ {0} /\ (0 + a - 1) \div a = 0
      BY DEF Alignments
    <3> QED BY <3>1, <1>2 DEF RoundUp
  <2>5. Wrap(1 * Modulus + 0) = Wrap(0) /\ 1 * Modulus + 0 = Modulus
    BY <1>1, WrapMore
  <2> QED BY <2>3, <2>4, <2>5
<1>3. CASE r # 0
  <2>1. r - 1 \in 0 .. Modulus - 1 /\ 0 * Modulus + (r - 1) = r - 1
    BY <1>1, <1>3
  <2>2. Wrap(r - 1) = r - 1
    <3>1. Wrap(0 * Modulus + (r - 1)) = r - 1
      BY <2>1, WrapSame
    <3> QED BY <2>1, <3>1
  <2>3. r - 1 - ((r - 1) % a) + a = RoundUp(r, a)
    <3>1. r \in Nat /\ r - 1 \in Nat
      BY <1>1, <1>3
    <3>2. CASE a = 1 BY <3>1, <3>2 DEF RoundUp
    <3>3. CASE a = 2 BY <3>1, <3>3 DEF RoundUp
    <3>4. CASE a = 4 BY <3>1, <3>4 DEF RoundUp
    <3>5. CASE a = 8 BY <3>1, <3>5 DEF RoundUp
    <3>6. CASE a = 16 BY <3>1, <3>6 DEF RoundUp
    <3> QED BY <3>2, <3>3, <3>4, <3>5, <3>6 DEF Alignments
  <2> QED BY <2>2, <2>3 DEF FFI_ALIGN
<1> QED BY <1>2, <1>3

\* Struct.c FFI_ALIGN: rounding up what wrapped is wrapping what is rounded up.
LEMMA Aligned ==
  ASSUME NEW a \in Alignments, NEW n \in Nat
  PROVE  /\ FFI_ALIGN(Wrap(n), a) = Wrap(RoundUp(n, a))
         /\ RoundUp(n, a) \in Nat
         /\ Wrap(RoundUp(n, a)) \in 0 .. Modulus - 1
         /\ Wrap(RoundUp(n, a)) % a = 0
<1>1. PICK k \in Nat : Modulus = 16 * k
  BY Sixteenths
<1>2. PICK q \in Int : n = q * Modulus + Wrap(n)
  BY Wrapped
<1> DEFINE r == Wrap(n)
<1>3. r \in 0 .. Modulus - 1 /\ r \in Nat
  BY Wrapped, LayoutAssumption
<1> HIDE DEF r
<1>4. q * k \in Int /\ q * Modulus = 16 * (q * k)
  BY <1>1
<1>5. RoundUp(16 * (q * k) + r, a) = 16 * (q * k) + RoundUp(r, a)
  BY <1>3, <1>4, RoundedUp
<1>6. RoundUp(n, a) = q * Modulus + RoundUp(r, a)
  BY <1>2, <1>4, <1>5 DEF r
<1>7. RoundUp(r, a) \in Int
  BY <1>3, RoundedUp
<1>8. Wrap(q * Modulus + RoundUp(r, a)) = Wrap(RoundUp(r, a))
  BY <1>7, WrapMore
<1>9. FFI_ALIGN(r, a) = Wrap(RoundUp(r, a))
  BY <1>3, AlignedWithin
<1>10. RoundUp(n, a) \in Nat /\ RoundUp(n, a) % a = 0
  BY RoundedUp
<1> QED BY <1>6, <1>8, <1>9, <1>10, Wrapped, WrapMultiple DEF r

\* Sums wrap as their terms do.
LEMMA WrapSum ==
  ASSUME NEW m \in Nat, NEW n \in Nat
  PROVE  Wrap(Wrap(m) + n) = Wrap(m + n)
<1>1. PICK q \in Int : m = q * Modulus + Wrap(m)
  BY Wrapped
<1>2. Wrap(m) \in Int /\ Modulus \in Int
  BY Wrapped, LayoutAssumption
<1>3. m + n = q * Modulus + (Wrap(m) + n)
  BY <1>1, <1>2
<1>4. Wrap(m) + n \in Int
  BY <1>2
<1> QED BY <1>3, <1>4, WrapMore

(***************************************************************************)
(* Induction and recursion over numbers, as facts about sets               *)
(***************************************************************************)

\* A set of numbers has a least member: of the intervals up to its members,
\* one that has no other below it.
LEMMA Least ==
  ASSUME NEW T \in SUBSET Nat, T # {}
  PROVE  \E x \in T : \A y \in T : x <= y
<1> DEFINE R == StrictSubsetOrdering(Nat)
           F == FiniteSubsetsOf(Nat)
           I == {1 .. x : x \in T}
<1>1. IsWellFoundedOn(R, F)
  BY FS_StrictSubsetOrderingWellFounded
<1>2. \A x \in Nat : 1 .. x \in F
  <2>1. ASSUME NEW x \in Nat PROVE 1 .. x \in SUBSET Nat /\ IsFiniteSet(1 .. x)
    BY FS_Interval
  <2> QED BY <2>1 DEF FiniteSubsetsOf
<1>3. I \subseteq F /\ I # {}
  BY <1>2
<1>4. PICK m \in I : \A y \in I : <<y, m>> \notin R
  <2> HIDE DEF R, F, I
  <2> QED BY <1>1, <1>3, WFMin
<1>5. PICK x \in T : m = 1 .. x
  OBVIOUS
<1>6. ASSUME NEW y \in T, y < x PROVE FALSE
  <2>1. 1 .. y \in I /\ 1 .. y \in SUBSET Nat /\ 1 .. x \in SUBSET Nat
    BY <1>6
  <2>2. x \in 1 .. x /\ x \notin 1 .. y
    BY <1>6
  <2>3. 1 .. y \subseteq 1 .. x /\ 1 .. y # 1 .. x
    BY <1>6, <2>2
  <2>4. <<1 .. y, 1 .. x>> \in R
    BY <2>1, <2>3 DEF StrictSubsetOrdering
  <2> QED BY <2>1, <2>4, <1>4, <1>5
<1> QED BY <1>6

\* What holds of 0 and passes on to the next number holds of all.
LEMMA Induction ==
  ASSUME NEW T \in SUBSET Nat, 0 \in T, \A n \in T : n + 1 \in T
  PROVE  T = Nat
<1>1. ASSUME Nat \ T # {} PROVE FALSE
  <2>1. PICK x \in Nat \ T : \A y \in Nat \ T : x <= y
    <3>1. Nat \ T \in SUBSET Nat
      OBVIOUS
    <3> QED BY <1>1, <3>1, Least
  <2>2. x - 1 \in Nat /\ x - 1 + 1 = x
    OBVIOUS
  <2>3. x - 1 \in T
    BY <2>1, <2>2
  <2> QED BY <2>1, <2>2, <2>3
<1> QED BY <1>1


\* f is what a recursive function over 0..n is: first, and a step from each
\* value to the next.
Recursive(f, first, step, n) ==
  f = [i \in 0..n |-> IF i = 0 THEN first ELSE step[i][f[i - 1]]]

\* Such a function exists.
LEMMA Recursion ==
  ASSUME NEW S, NEW first \in S, NEW n \in Nat, NEW step \in [1..n -> [S -> S]]
  PROVE  \E f \in [0..n -> S] : Recursive(f, first, step, n)
<1> DEFINE T == {m \in Nat : m <= n => \E f \in [0..m -> S] : Recursive(f, first, step, m)}
<1>1. 0 \in T
  <2> DEFINE f == [i \in 0..0 |-> first]
  <2>1. f \in [0..0 -> S] /\ Recursive(f, first, step, 0)
    BY DEF Recursive
  <2> QED BY <2>1
<1>2. ASSUME NEW m \in T PROVE m + 1 \in T
  <2> SUFFICES ASSUME m + 1 <= n
               PROVE  \E f \in [0..(m + 1) -> S] : Recursive(f, first, step, m + 1)
    OBVIOUS
  <2>1. m \in Nat /\ m <= n /\ m + 1 \in 1..n
    OBVIOUS
  <2>2. PICK f \in [0..m -> S] : Recursive(f, first, step, m)
    BY <2>1
  <2> DEFINE g == [i \in 0..(m + 1) |-> IF i = m + 1 THEN step[m + 1][f[m]] ELSE f[i]]
  <2>3. step[m + 1][f[m]] \in S
    BY <2>1
  <2>4. g \in [0..(m + 1) -> S]
    BY <2>1, <2>3
  <2>5. ASSUME NEW i \in 0..(m + 1)
        PROVE  g[i] = IF i = 0 THEN first ELSE step[i][g[i - 1]]
    <3>1. CASE i = 0
      BY <2>1, <2>2, <3>1 DEF Recursive
    <3>2. CASE i # 0 /\ i # m + 1
      <4>1. i - 1 \in 0..m /\ i - 1 \in 0..(m + 1) /\ i - 1 # m + 1 /\ i \in 0..m
        BY <2>1, <3>2
      <4>2. g[i] = f[i] /\ g[i - 1] = f[i - 1]
        BY <3>2, <4>1
      <4>3. f[i] = step[i][f[i - 1]]
        BY <2>2, <3>2, <4>1 DEF Recursive
      <4> HIDE DEF g
      <4> QED BY <3>2, <4>2, <4>3
    <3>3. CASE i = m + 1
      <4>1. i - 1 = m /\ m \in 0..(m + 1) /\ m # m + 1 /\ i # 0
        BY <2>1, <3>3
      <4>2. g[i] = step[m + 1][f[m]] /\ g[i - 1] = f[m]
        BY <3>3, <4>1
      <4> HIDE DEF g
      <4> QED BY <3>3, <4>1, <4>2
    <3> QED BY <3>1, <3>2, <3>3
  <2>6. g = [i \in 0..(m + 1) |-> g[i]]
    OBVIOUS
  <2> HIDE DEF g
  <2>7. Recursive(g, first, step, m + 1)
    BY <2>5, <2>6 DEF Recursive
  <2> QED BY <2>4, <2>7
<1> HIDE DEF T
<1>3. n \in T
  <2>1. T \in SUBSET Nat
    BY DEF T
  <2> QED BY <1>1, <1>2, <2>1, Induction
<1> QED BY <1>3 DEF T

(***************************************************************************)
(* Layouts computed by Struct.c                                            *)
(***************************************************************************)

\* What the fields' types look like.
LEMMA ElementTyped ==
  ASSUME NEW elems \in Seq(Layouts), NEW i \in 1..Len(elems)
  PROVE  /\ elems[i] \in Layouts
         /\ elems[i].size \in 0 .. Modulus - 1 /\ elems[i].size \in Nat
         /\ elems[i].alignment \in Alignments /\ elems[i].alignment \in Nat
         /\ elems[i].size % elems[i].alignment = 0
<1>1. elems[i] \in Layouts
  OBVIOUS
<1> QED BY <1>1, LayoutAssumption DEF Layouts, Alignments

\* The loop of newStruct over the fields.
LEMMA TurnsUnfold ==
  ASSUME NEW elems \in Seq(Layouts), NEW isUnion \in BOOLEAN
  PROVE  /\ Turns(elems, isUnion)[0] = NoFields
         /\ \A i \in 1..Len(elems) :
              Turns(elems, isUnion)[i] = AddField(Turns(elems, isUnion)[i - 1], elems[i], isUnion)
<1> DEFINE n == Len(elems)
           S == [size : Nat, alignment : Nat]
           step == [i \in 1..n |-> [s \in S |-> AddField(s, elems[i], isUnion)]]
           Is(f) == f = [i \in 0..n |-> IF i = 0 THEN NoFields ELSE AddField(f[i - 1], elems[i], isUnion)]
<1>1. n \in Nat /\ NoFields \in S
  BY DEF NoFields
<1>2. ASSUME NEW i \in 1..n, NEW s \in S PROVE AddField(s, elems[i], isUnion) \in S
  <2>1. elems[i].size \in Nat /\ elems[i].alignment \in Nat
    BY ElementTyped
  <2>2. s.size \in Nat /\ s.alignment \in Nat
    OBVIOUS
  <2>3. FFI_ALIGN(s.size, elems[i].alignment) + elems[i].size \in Int
    <3>1. s.size - 1 \in Int
      BY <2>2
    <3>2. Wrap(s.size - 1) \in Int
      BY <3>1, Wrapped, LayoutAssumption
    <3>3. elems[i].alignment \in Nat \ {0}
      <4>1. elems[i].alignment \in Alignments
        BY ElementTyped
      <4> QED BY <4>1 DEF Alignments
    <3>4. (Wrap(s.size - 1) - (Wrap(s.size - 1) % elems[i].alignment)) + elems[i].alignment \in Int
      BY <3>2, <3>3
    <3>5. FFI_ALIGN(s.size, elems[i].alignment) \in Int
      BY <3>4, Wrapped, LayoutAssumption DEF FFI_ALIGN
    <3> QED BY <3>5, <2>1
  <2>4. Wrap(FFI_ALIGN(s.size, elems[i].alignment) + elems[i].size) \in Nat
    BY <2>3, Wrapped, LayoutAssumption
  <2>5. Greater(s.size, elems[i].size) \in Nat /\ Greater(s.alignment, elems[i].alignment) \in Nat
    BY <2>1, <2>2 DEF Greater
  <2> QED BY <2>4, <2>5 DEF AddField
<1>3. step \in [1..n -> [S -> S]]
  BY <1>2
<1>4. \E f : Is(f)
  <2>1. PICK f \in [0..n -> S] : Recursive(f, NoFields, step, n)
    <3> HIDE DEF S, step, n
    <3> QED BY <1>1, <1>3, Recursion
  <2>2. ASSUME NEW i \in 0..n
        PROVE  f[i] = IF i = 0 THEN NoFields ELSE AddField(f[i - 1], elems[i], isUnion)
    <3>1. CASE i = 0
      BY <2>1, <3>1 DEF Recursive
    <3>2. CASE i # 0
      <4>1. i \in 1..n /\ i - 1 \in 0..n
        BY <1>1, <3>2
      <4>2. f[i - 1] \in S
        BY <4>1
      <4>3. f[i] = step[i][f[i - 1]]
        BY <2>1, <3>2 DEF Recursive
      <4>4. step[i][f[i - 1]] = AddField(f[i - 1], elems[i], isUnion)
        BY <4>1, <4>2
      <4> QED BY <3>2, <4>3, <4>4
    <3> QED BY <3>1, <3>2
  <2>3. f = [i \in 0..n |-> f[i]]
    OBVIOUS
  <2>4. Is(f)
    <3> HIDE DEF n
    <3> QED BY <2>2, <2>3
  <2> QED BY <2>4
<1>5. Is(CHOOSE f : Is(f))
  BY <1>4
<1>6. Turns(elems, isUnion) = CHOOSE f : Is(f)
  BY DEF Turns
<1> DEFINE g == Turns(elems, isUnion)
<1>7. g = [i \in 0..n |-> IF i = 0 THEN NoFields ELSE AddField(g[i - 1], elems[i], isUnion)]
  BY <1>5, <1>6
<1> HIDE DEF g
<1>8. g[0] = NoFields /\ \A i \in 1..n : g[i] = AddField(g[i - 1], elems[i], isUnion)
  BY <1>1, <1>7
<1> QED BY <1>8 DEF g

\* Where the members of a struct end.
LEMMA EndsUnfold ==
  ASSUME NEW elems \in Seq(Layouts)
  PROVE  /\ Ends(elems)[0] = 0
         /\ \A i \in 1..Len(elems) :
              Ends(elems)[i] = RoundUp(Ends(elems)[i - 1], elems[i].alignment) + elems[i].size
<1> DEFINE n == Len(elems)
           step == [i \in 1..n |-> [e \in Nat |-> RoundUp(e, elems[i].alignment) + elems[i].size]]
           Is(f) == f = [i \in 0..n |-> IF i = 0 THEN 0
                                        ELSE RoundUp(f[i - 1], elems[i].alignment) + elems[i].size]
<1>1. n \in Nat
  OBVIOUS
<1>2. ASSUME NEW i \in 1..n, NEW e \in Nat PROVE RoundUp(e, elems[i].alignment) + elems[i].size \in Nat
  <2>1. elems[i].size \in Nat /\ elems[i].alignment \in Alignments
    BY ElementTyped
  <2>2. RoundUp(e, elems[i].alignment) \in Nat
    BY <2>1, RoundedUp
  <2> QED BY <2>1, <2>2
<1>3. step \in [1..n -> [Nat -> Nat]]
  BY <1>2
<1>4. \E f : Is(f)
  <2>1. PICK f \in [0..n -> Nat] : Recursive(f, 0, step, n)
    <3> HIDE DEF step, n
    <3> QED BY <1>1, <1>3, Recursion
  <2>2. ASSUME NEW i \in 0..n
        PROVE  f[i] = IF i = 0 THEN 0 ELSE RoundUp(f[i - 1], elems[i].alignment) + elems[i].size
    <3>1. CASE i = 0
      BY <2>1, <3>1 DEF Recursive
    <3>2. CASE i # 0
      <4>1. i \in 1..n /\ i - 1 \in 0..n
        BY <1>1, <3>2
      <4>2. f[i - 1] \in Nat
        BY <4>1
      <4>3. f[i] = step[i][f[i - 1]]
        BY <2>1, <3>2 DEF Recursive
      <4>4. step[i][f[i - 1]] = RoundUp(f[i - 1], elems[i].alignment) + elems[i].size
        BY <4>1, <4>2
      <4> QED BY <3>2, <4>3, <4>4
    <3> QED BY <3>1, <3>2
  <2>3. f = [i \in 0..n |-> f[i]]
    OBVIOUS
  <2>4. Is(f)
    <3> HIDE DEF n
    <3> QED BY <2>2, <2>3
  <2> QED BY <2>4
<1>5. Is(CHOOSE f : Is(f))
  BY <1>4
<1>6. Ends(elems) = CHOOSE f : Is(f)
  BY DEF Ends
<1> DEFINE g == Ends(elems)
<1>7. g = [i \in 0..n |-> IF i = 0 THEN 0 ELSE RoundUp(g[i - 1], elems[i].alignment) + elems[i].size]
  BY <1>5, <1>6
<1> HIDE DEF g
<1>8. g[0] = 0
  BY <1>1, <1>7
<1>9. ASSUME NEW i \in 1..n PROVE g[i] = RoundUp(g[i - 1], elems[i].alignment) + elems[i].size
  <2>1. i \in 0..n /\ i # 0
    BY <1>1
  <2> QED BY <1>7, <2>1
<1> QED BY <1>8, <1>9 DEF g

\* The greatest number of a set is the one no other exceeds.
LEMMA MaxIs ==
  ASSUME NEW S \in SUBSET Nat, NEW x \in S, \A y \in S : y <= x
  PROVE  Max(S) = x
<1> DEFINE Is(z) == z \in S /\ \A y \in S : z >= y
<1>1. Is(x)
  OBVIOUS
<1>2. Is(CHOOSE z : Is(z))
  BY <1>1
<1>3. Max(S) = CHOOSE z : Is(z)
  BY DEF Max
<1>4. Is(Max(S))
  BY <1>2, <1>3
<1>5. x <= Max(S) /\ Max(S) <= x /\ Max(S) \in Nat /\ x \in Nat
  BY <1>4
<1> QED BY <1>5

\* Greatest of the first i of n numbers.
IsGreatest(x, f, i) ==
  /\ x \in Nat /\ \A j \in 1..i : f[j] <= x
  /\ IF i = 0 THEN x = 0 ELSE \E j \in 1..i : x = f[j]

\* Greatest of one more number.
LEMMA GreatestNext ==
  ASSUME NEW n \in Nat, NEW f \in [1..n -> Nat], NEW i \in 0..(n - 1), NEW x, IsGreatest(x, f, i)
  PROVE  IsGreatest(Greater(x, f[i + 1]), f, i + 1)
<1>1. i \in Nat /\ i + 1 \in 1..n /\ f[i + 1] \in Nat /\ x \in Nat /\ i + 1 # 0 /\ i + 1 \in 1..(i + 1)
  BY DEF IsGreatest
<1> DEFINE g == Greater(x, f[i + 1])
<1>2. g \in Nat /\ x <= g /\ f[i + 1] <= g /\ (g = x \/ g = f[i + 1]) /\ (g # f[i + 1] => f[i + 1] < x /\ g = x)
  BY <1>1 DEF Greater
<1> HIDE DEF g
<1>3. ASSUME NEW j \in 1..(i + 1) PROVE f[j] <= g
  <2>1. CASE j = i + 1
    BY <1>2, <2>1
  <2>2. CASE j # i + 1
    <3>1. j \in 1..i /\ j \in 1..n
      BY <1>1, <2>2
    <3>2. f[j] <= x /\ f[j] \in Nat
      BY <3>1 DEF IsGreatest
    <3> QED BY <1>1, <1>2, <3>2
  <2> QED BY <2>1, <2>2
<1>4. \E j \in 1..(i + 1) : g = f[j]
  <2>1. CASE g = f[i + 1]
    BY <1>1, <2>1
  <2>2. CASE g # f[i + 1]
    <3>1. g = x /\ f[i + 1] < x
      BY <1>2, <2>2
    <3>2. i # 0
      BY <1>1, <3>1 DEF IsGreatest
    <3>3. PICK j \in 1..i : x = f[j]
      BY <3>2 DEF IsGreatest
    <3>4. j \in 1..(i + 1)
      BY <1>1
    <3> QED BY <3>1, <3>3, <3>4
  <2> QED BY <2>1, <2>2
<1>5. IsGreatest(g, f, i + 1)
  BY <1>1, <1>2, <1>3, <1>4 DEF IsGreatest
<1> QED BY <1>5 DEF g

\* Greatest of all of them.
LEMMA GreatestMax ==
  ASSUME NEW n \in Nat \ {0}, NEW f \in [1..n -> Nat], NEW x, IsGreatest(x, f, n)
  PROVE  x = Max({f[j] : j \in 1..n})
<1> DEFINE S == {f[j] : j \in 1..n}
<1>1. S \in SUBSET Nat /\ x \in S /\ \A y \in S : y <= x
  BY DEF IsGreatest
<1> HIDE DEF S
<1>2. Max(S) = x
  BY <1>1, MaxIs
<1> QED BY <1>2 DEF S

\* Sizes and alignments of a list of types.
SizesOf(elems) == [i \in 1..Len(elems) |-> elems[i].size]
AlignmentsOf(elems) == [i \in 1..Len(elems) |-> elems[i].alignment]

\* What newStruct reads from the handles of the fields.
LEMMA ListsOf ==
  ASSUME NEW elems \in Seq(Layouts)
  PROVE  /\ SizesOf(elems) \in [1..Len(elems) -> Nat] /\ AlignmentsOf(elems) \in [1..Len(elems) -> Nat]
         /\ {e.size : e \in Range(elems)} = {SizesOf(elems)[j] : j \in 1..Len(elems)}
         /\ {e.alignment : e \in Range(elems)} = {AlignmentsOf(elems)[j] : j \in 1..Len(elems)}
<1>1. \A i \in 1..Len(elems) : elems[i].size \in Nat /\ elems[i].alignment \in Nat
  BY ElementTyped
<1>2. Range(elems) = {elems[i] : i \in 1..Len(elems)}
  BY DEF Range
<1> QED BY <1>1, <1>2 DEF SizesOf, AlignmentsOf

\* What a turn of the loop leaves: the greatest alignment so far and, of a
\* struct, what size_t keeps of where C says its members end, of a union the
\* greatest size.
TurnOK(elems, isUnion, i) ==
  LET s == Turns(elems, isUnion)[i] IN
  /\ s = [size |-> s.size, alignment |-> s.alignment]
  /\ IsGreatest(s.alignment, AlignmentsOf(elems), i)
  /\ isUnion => IsGreatest(s.size, SizesOf(elems), i)
  /\ ~isUnion => Ends(elems)[i] \in Nat /\ s.size = Wrap(Ends(elems)[i])

\* Nothing is kept of nothing.
LEMMA WrapZero == Wrap(0) = 0
<1>1. 0 \in 0 .. Modulus - 1 /\ 0 * Modulus + 0 = 0
  BY LayoutAssumption
<1>2. Wrap(0 * Modulus + 0) = 0
  BY <1>1, WrapSame
<1> QED BY <1>1, <1>2

\* One more turn of the loop.
LEMMA TurnStep ==
  ASSUME NEW elems \in Seq(Layouts), NEW isUnion \in BOOLEAN, NEW i \in 0..(Len(elems) - 1),
         TurnOK(elems, isUnion, i)
  PROVE  TurnOK(elems, isUnion, i + 1)
<1> DEFINE n == Len(elems)  j == i + 1
           s == Turns(elems, isUnion)[i]  u == Turns(elems, isUnion)[j]  e == elems[j]
<1>1. n \in Nat /\ i \in Nat /\ j \in 1..n /\ j - 1 = i
  OBVIOUS
<1>2. u = AddField(s, e, isUnion)
  BY <1>1, TurnsUnfold
<1>3. e.size \in Nat /\ e.alignment \in Alignments
      /\ AlignmentsOf(elems)[j] = e.alignment /\ SizesOf(elems)[j] = e.size
  BY <1>1, ElementTyped DEF AlignmentsOf, SizesOf
<1>4. /\ IsGreatest(s.alignment, AlignmentsOf(elems), i)
      /\ isUnion => IsGreatest(s.size, SizesOf(elems), i)
      /\ ~isUnion => Ends(elems)[i] \in Nat /\ s.size = Wrap(Ends(elems)[i])
  BY DEF TurnOK
<1>5. AlignmentsOf(elems) \in [1..n -> Nat] /\ SizesOf(elems) \in [1..n -> Nat]
  BY ListsOf
<1>6. Ends(elems)[j] = RoundUp(Ends(elems)[i], e.alignment) + e.size
  BY <1>1, EndsUnfold
<1> HIDE DEF n, j, s, u, e
<1>7. u = [size |-> u.size, alignment |-> u.alignment]
      /\ u.alignment = Greater(s.alignment, e.alignment)
      /\ u.size = IF isUnion THEN Greater(s.size, e.size)
                  ELSE Wrap(FFI_ALIGN(s.size, e.alignment) + e.size)
  BY <1>2 DEF AddField
<1>8. IsGreatest(u.alignment, AlignmentsOf(elems), j)
  <2>1. IsGreatest(Greater(s.alignment, AlignmentsOf(elems)[i + 1]), AlignmentsOf(elems), i + 1)
    BY <1>1, <1>4, <1>5, GreatestNext DEF n
  <2> QED BY <2>1, <1>3, <1>7 DEF j
<1>9. CASE isUnion
  <2>1. IsGreatest(Greater(s.size, SizesOf(elems)[i + 1]), SizesOf(elems), i + 1)
    BY <1>1, <1>4, <1>5, <1>9, GreatestNext DEF n
  <2>2. IsGreatest(u.size, SizesOf(elems), j)
    BY <2>1, <1>3, <1>7, <1>9 DEF j
  <2> QED BY <2>2, <1>7, <1>8, <1>9 DEF TurnOK, u, j
<1>10. CASE ~isUnion
  <2>1. Ends(elems)[i] \in Nat /\ s.size = Wrap(Ends(elems)[i])
    BY <1>4, <1>10
  <2>2. FFI_ALIGN(s.size, e.alignment) = Wrap(RoundUp(Ends(elems)[i], e.alignment))
        /\ RoundUp(Ends(elems)[i], e.alignment) \in Nat
    BY <2>1, <1>3, Aligned
  <2>3. Wrap(Wrap(RoundUp(Ends(elems)[i], e.alignment)) + e.size)
        = Wrap(RoundUp(Ends(elems)[i], e.alignment) + e.size)
    BY <2>2, <1>3, WrapSum
  <2>4. u.size = Wrap(Ends(elems)[j]) /\ Ends(elems)[j] \in Nat
    BY <2>2, <2>3, <1>3, <1>6, <1>7, <1>10
  <2> QED BY <2>4, <1>7, <1>8, <1>10 DEF TurnOK, u, j
<1> QED BY <1>9, <1>10

\* All turns of the loop.
LEMMA TurnsOK ==
  ASSUME NEW elems \in Seq(Layouts), NEW isUnion \in BOOLEAN
  PROVE  TurnOK(elems, isUnion, Len(elems))
<1> DEFINE n == Len(elems)
           T == {i \in Nat : i <= n => TurnOK(elems, isUnion, i)}
<1>1. 0 \in T
  <2>1. Turns(elems, isUnion)[0] = [size |-> 0, alignment |-> 0] /\ Ends(elems)[0] = 0
    BY TurnsUnfold, EndsUnfold DEF NoFields
  <2>2. \A f : IsGreatest(0, f, 0)
    BY DEF IsGreatest
  <2> QED BY <2>1, <2>2, WrapZero DEF TurnOK
<1>2. ASSUME NEW i \in T PROVE i + 1 \in T
  <2> SUFFICES ASSUME i + 1 <= n PROVE TurnOK(elems, isUnion, i + 1)
    OBVIOUS
  <2>1. i \in 0..(n - 1) /\ TurnOK(elems, isUnion, i)
    OBVIOUS
  <2> QED BY <2>1, TurnStep
<1> HIDE DEF T
<1>3. n \in T
  <2>1. T \in SUBSET Nat /\ n \in Nat
    BY DEF T
  <2> QED BY <1>1, <1>2, <2>1, Induction
<1> QED BY <1>3 DEF T

\* Struct.c newStruct: structs and unions are laid out as in C.
LEMMA StructLayout ==
  ASSUME NEW elems \in Seq(Layouts), elems # <<>>, NEW isUnion \in BOOLEAN, NEW kind,
         kind = IF isUnion THEN "union" ELSE "struct"
  PROVE  /\ NativeStruct(elems, isUnion) = InSizeT(LayoutInC(kind, elems))
         /\ NativeStruct(elems, isUnion) \in Layouts
<1> DEFINE n == Len(elems)  s == Turns(elems, isUnion)[n]
           sizes == {e.size : e \in Range(elems)}  aligns == {e.alignment : e \in Range(elems)}
<1>1. n \in Nat \ {0} /\ n # 0
  OBVIOUS
<1>2. /\ s = [size |-> s.size, alignment |-> s.alignment]
      /\ IsGreatest(s.alignment, AlignmentsOf(elems), n)
      /\ isUnion => IsGreatest(s.size, SizesOf(elems), n)
      /\ ~isUnion => Ends(elems)[n] \in Nat /\ s.size = Wrap(Ends(elems)[n])
  BY TurnsOK DEF TurnOK
<1>3. NativeStruct(elems, isUnion) = [s EXCEPT !.size = FFI_ALIGN(s.size, s.alignment)]
  BY DEF NativeStruct, AllFields
<1> HIDE DEF n, s
<1>4. NativeStruct(elems, isUnion) = [size |-> FFI_ALIGN(s.size, s.alignment), alignment |-> s.alignment]
  BY <1>2, <1>3
<1>5. AlignmentsOf(elems) \in [1..n -> Nat] /\ SizesOf(elems) \in [1..n -> Nat]
      /\ sizes = {SizesOf(elems)[j] : j \in 1..n} /\ aligns = {AlignmentsOf(elems)[j] : j \in 1..n}
  BY ListsOf DEF n
<1> HIDE DEF sizes, aligns
<1>6. s.alignment = Max(aligns)
  BY <1>1, <1>2, <1>5, GreatestMax
<1>7. s.alignment \in Alignments
  <2>1. PICK j \in 1..n : s.alignment = AlignmentsOf(elems)[j]
    BY <1>1, <1>2 DEF IsGreatest
  <2> QED BY <2>1, ElementTyped DEF AlignmentsOf, n
<1> DEFINE end == IF isUnion THEN Max(sizes) ELSE Ends(elems)[n]
<1>8. end \in Nat /\ s.size = Wrap(end)
  <2>1. CASE isUnion
    <3>1. IsGreatest(s.size, SizesOf(elems), n)
      BY <1>2, <2>1
    <3>2. s.size = Max(sizes)
      BY <1>1, <1>5, <3>1, GreatestMax
    <3>3. PICK j \in 1..n : s.size = SizesOf(elems)[j]
      BY <1>1, <3>1 DEF IsGreatest
    <3>4. s.size \in 0 .. Modulus - 1 /\ s.size \in Nat /\ 0 * Modulus + s.size = s.size
      BY <3>3, ElementTyped, LayoutAssumption DEF SizesOf, n
    <3>5. Wrap(0 * Modulus + s.size) = s.size
      BY <3>4, WrapSame
    <3> QED BY <2>1, <3>2, <3>4, <3>5
  <2>2. CASE ~isUnion
    BY <1>2, <2>2
  <2> QED BY <2>1, <2>2
<1>9. LayoutInC(kind, elems) = [size |-> RoundUp(end, s.alignment), alignment |-> s.alignment]
  BY <1>6 DEF LayoutInC, sizes, aligns, n
<1> HIDE DEF end
<1>10. InSizeT(LayoutInC(kind, elems)) = [size |-> Wrap(RoundUp(end, s.alignment)), alignment |-> s.alignment]
  BY <1>9 DEF InSizeT
<1>11. /\ FFI_ALIGN(s.size, s.alignment) = Wrap(RoundUp(end, s.alignment))
       /\ Wrap(RoundUp(end, s.alignment)) \in 0 .. Modulus - 1
       /\ Wrap(RoundUp(end, s.alignment)) % s.alignment = 0
  BY <1>7, <1>8, Aligned
<1> QED BY <1>4, <1>7, <1>10, <1>11 DEF Layouts

\* Elements of an array: times a multiple of the alignment is one.
LEMMA MultipleTimes ==
  ASSUME NEW a \in Alignments, NEW s \in Nat, s % a = 0, NEW i \in Nat
  PROVE  i * s \in Nat /\ (i * s) % a = 0
<1>1. PICK m \in Nat : s = a * m
  <2>1. s \div a \in Nat /\ s = a * (s \div a)
    <3>1. CASE a = 1 BY <3>1
    <3>2. CASE a = 2 BY <3>2
    <3>3. CASE a = 4 BY <3>3
    <3>4. CASE a = 8 BY <3>4
    <3>5. CASE a = 16 BY <3>5
    <3> QED BY <3>1, <3>2, <3>3, <3>4, <3>5 DEF Alignments
  <2> QED BY <2>1
<1>2. a \in Nat /\ i * m \in Nat /\ i * (a * m) = a * (i * m)
  BY DEF Alignments
<1> DEFINE p == i * m
<1>3. i * s = a * p /\ p \in Nat
  BY <1>1, <1>2
<1> HIDE DEF p
<1>4. (a * p) % a = 0 /\ a * p \in Nat
  <2>1. CASE a = 1 BY <2>1, <1>3
  <2>2. CASE a = 2 BY <2>2, <1>3
  <2>3. CASE a = 4 BY <2>3, <1>3
  <2>4. CASE a = 8 BY <2>4, <1>3
  <2>5. CASE a = 16 BY <2>5, <1>3
  <2> QED BY <2>1, <2>2, <2>3, <2>4, <2>5 DEF Alignments
<1> QED BY <1>3, <1>4

\* Struct.c newArray: an array is its elements one after the other.
LEMMA ArrayLayout ==
  ASSUME NEW elem \in Layouts, NEW length \in Nat \ {0}, NEW elems,
         elems = [i \in 1..length |-> elem]
  PROVE  /\ NativeArray(elem, length) = InSizeT(LayoutInC("array", elems))
         /\ NativeArray(elem, length) \in Layouts
<1>1. elems \in Seq(Layouts) /\ Len(elems) = length /\ Range(elems) = {elem}
      /\ \A i \in 1..length : elems[i] = elem
  BY DEF Range
<1> DEFINE size == elem.size  a == elem.alignment
<1>2. size \in Nat /\ a \in Alignments /\ size % a = 0 /\ a \in Nat
  BY LayoutAssumption DEF Layouts, Alignments
<1>3. Ends(elems)[0] = 0
      /\ \A i \in 1..length : Ends(elems)[i] = RoundUp(Ends(elems)[i - 1], a) + size
  BY <1>1, EndsUnfold
<1>4. LayoutInC("array", elems)
      = [size |-> RoundUp(Ends(elems)[length], a), alignment |-> a]
  <2>1. {e.alignment : e \in Range(elems)} = {a}
    BY <1>1
  <2>2. Max({a}) = a
    BY <1>2, MaxIs
  <2> QED BY <2>1, <2>2, <1>1 DEF LayoutInC
<1>5. NativeArray(elem, length) = [size |-> Wrap(length * size), alignment |-> a]
  BY DEF NativeArray
<1> HIDE DEF size, a
<1>6. ASSUME NEW i \in Nat
      PROVE  i * size \in Nat /\ (i * size) % a = 0 /\ RoundUp(i * size, a) = i * size
  <2> DEFINE p == i * size
  <2>1. p \in Nat /\ p % a = 0
    BY <1>2, MultipleTimes
  <2> HIDE DEF p
  <2>2. RoundUp(p, a) = p
    BY <1>2, <2>1, RoundedUp
  <2> QED BY <2>1, <2>2 DEF p
<1> DEFINE T == {i \in Nat : i <= length => Ends(elems)[i] = i * size}
<1>7. 0 \in T
  BY <1>2, <1>3
<1>8. ASSUME NEW i \in T PROVE i + 1 \in T
  <2> SUFFICES ASSUME i + 1 <= length PROVE Ends(elems)[i + 1] = (i + 1) * size
    OBVIOUS
  <2>1. i \in Nat /\ i + 1 \in 1..length /\ i + 1 - 1 = i /\ Ends(elems)[i] = i * size
    OBVIOUS
  <2>2. Ends(elems)[i + 1] = RoundUp(Ends(elems)[i], a) + size
    BY <1>3, <2>1
  <2>3. Ends(elems)[i + 1] = i * size + size
    BY <1>6, <2>1, <2>2
  <2>4. i * size + size = (i + 1) * size
    BY <1>2, <2>1
  <2> QED BY <2>3, <2>4
<1> HIDE DEF T
<1>9. length \in T
  <2>1. T \in SUBSET Nat /\ length \in Nat
    BY DEF T
  <2> QED BY <1>7, <1>8, <2>1, Induction
<1>10. Ends(elems)[length] = length * size
  BY <1>9 DEF T
<1>11. InSizeT(LayoutInC("array", elems)) = [size |-> Wrap(length * size), alignment |-> a]
  <2>1. RoundUp(length * size, a) = length * size
    BY <1>6
  <2>2. LayoutInC("array", elems) = [size |-> length * size, alignment |-> a]
    BY <1>4, <1>10, <2>1
  <2> QED BY <2>2 DEF InSizeT
<1>12. Wrap(length * size) \in 0 .. Modulus - 1 /\ Wrap(length * size) % a = 0
  <2> DEFINE p == length * size
  <2>1. p \in Nat /\ p \in Int /\ p % a = 0
    BY <1>6
  <2> HIDE DEF p
  <2>2. Wrap(p) \in 0 .. Modulus - 1 /\ Wrap(p) % a = 0
    BY <1>2, <2>1, WrapMultiple, Wrapped
  <2> QED BY <2>2 DEF p
<1> QED BY <1>2, <1>5, <1>11, <1>12 DEF Layouts

(***************************************************************************)
(* Layouts of the Aggregates                                               *)
(***************************************************************************)

\* The types of fields that exist have layouts.
LEMMA HandlesTyped ==
  ASSUME AggregateInv, LayoutInv, NEW fields \in Seq(Names \cup Objs),
         \A o \in Objs \cap Range(fields) : Exists(o)
  PROVE  NativeHandles(fields) \in Seq(Layouts)
<1>1. ASSUME NEW i \in 1..Len(fields) PROVE LayoutOf(fields[i]) \in Layouts
  <2>1. fields[i] \in Names \cup Objs /\ fields[i] \in Range(fields)
    BY DEF Range
  <2>2. CASE fields[i] \in Objs
    BY <2>1, <2>2 DEF LayoutInv, LayoutOf
  <2>3. CASE fields[i] \notin Objs
    BY <2>1, <2>3, LayoutAssumption DEF LayoutOf
  <2> QED BY <2>2, <2>3
<1> QED BY <1>1 DEF NativeHandles

\* LayoutInv, as a fact about the Aggregates alone.
HandlesIn(ob, fields) ==
  [i \in 1..Len(fields) |-> IF fields[i] \in Objs THEN ob[fields[i]].layout ELSE Builtin[fields[i]]]

LaidOut(ob) ==
  \A p \in Objs : ob[p].kind # "none" =>
    /\ ob[p].layout = InSizeT(LayoutInC(ob[p].kind, HandlesIn(ob, ob[p].fields)))
    /\ ob[p].layout \in Layouts

\* This is LayoutInv, before and after a step.
LEMMA AllLaidOut == (LayoutInv <=> LaidOut(obj)) /\ (LayoutInv' <=> LaidOut(obj'))
BY DEF LayoutInv, LayoutOfC, LaidOut, HandlesIn, NativeHandles, LayoutOf, Exists

\* One Aggregate is made or forgotten, and none has it for a field.
LEMMA LayoutChange ==
  ASSUME NEW ob, NEW ob2, NEW o \in Objs, LaidOut(ob),
         \A p \in Objs \ {o} : ob2[p] = ob[p],
         \A p \in Objs \ {o} : ob[p].kind # "none" => o \notin Range(ob[p].fields),
         \A p \in Objs : ob2[p].fields \in Seq(Names \cup Objs),
         ob2[o].kind # "none" =>
           /\ o \notin Range(ob2[o].fields)
           /\ ob2[o].layout = InSizeT(LayoutInC(ob2[o].kind, HandlesIn(ob, ob2[o].fields)))
           /\ ob2[o].layout \in Layouts
  PROVE  LaidOut(ob2)
<1>1. ASSUME NEW fields \in Seq(Names \cup Objs), o \notin Range(fields)
      PROVE  HandlesIn(ob2, fields) = HandlesIn(ob, fields)
  <2>1. \A i \in 1..Len(fields) : fields[i] \in Objs => ob2[fields[i]].layout = ob[fields[i]].layout
    BY <1>1 DEF Range
  <2> QED BY <2>1 DEF HandlesIn
<1>2. ASSUME NEW p \in Objs, ob2[p].kind # "none"
      PROVE  /\ ob2[p].layout = InSizeT(LayoutInC(ob2[p].kind, HandlesIn(ob2, ob2[p].fields)))
             /\ ob2[p].layout \in Layouts
  <2>1. o \notin Range(ob2[p].fields)
    BY <1>2
  <2>2. HandlesIn(ob2, ob2[p].fields) = HandlesIn(ob, ob2[p].fields)
    BY <1>1, <2>1
  <2> QED BY <1>2, <2>2 DEF LaidOut
<1> QED BY <1>2 DEF LaidOut

\* What a new Aggregate's layout has to be.
NewLayout(new) ==
  /\ new.layout = InSizeT(LayoutInC(new.kind, NativeHandles(new.fields))) /\ new.layout \in Layouts

\* A constructor: the new Aggregate is a field of none, and none of its own.
LEMMA LayoutMade ==
  ASSUME AggregateInv, AggregateInv', LayoutInv, NEW o \in Objs, ~Exists(o), NEW new, NewLayout(new),
         obj' = [obj EXCEPT ![o] = new], \A p \in Objs \cap Range(new.fields) : Exists(p)
  PROVE  LayoutInv'
<1>1. obj'[o] = new /\ \A p \in Objs \ {o} : obj'[p] = obj[p]
  BY DEF AggregateInv, TypeOK
<1>2. \A p \in Objs : obj'[p].fields \in Seq(Names \cup Objs)
  BY DEF AggregateInv, TypeOK
<1>3. \A p \in Objs \ {o} : obj[p].kind # "none" => o \notin Range(obj[p].fields)
  BY DEF AggregateInv, Existing, Exists, Kept
<1>4. o \notin Range(new.fields)
  OBVIOUS
<1>5. new.layout = InSizeT(LayoutInC(new.kind, HandlesIn(obj, new.fields))) /\ new.layout \in Layouts
  BY DEF NewLayout, NativeHandles, HandlesIn, LayoutOf
<1>6. LaidOut(obj)
  BY AllLaidOut
<1>7. LaidOut(obj')
  BY <1>1, <1>2, <1>3, <1>4, <1>5, <1>6, LayoutChange
<1> QED BY <1>7, AllLaidOut

\* Foreign.newStruct, from an array of the caller's.
LEMMA LayoutOfNew ==
  ASSUME AggregateInv, LayoutInv, NEW a \in Arrays, NEW isUnion \in BOOLEAN,
         CanBeStruct(NativeHandles(content[a]), isUnion), NEW new, new.fields = content[a],
         new.kind = IF isUnion THEN "union" ELSE "struct",
         new.layout = NativeStruct(NativeHandles(content[a]), isUnion)
  PROVE  NewLayout(new) /\ \A p \in Objs \cap Range(new.fields) : Exists(p)
<1>1. content[a] \in Seq(Names \cup Objs) /\ \A p \in Objs \cap Range(content[a]) : Exists(p)
  BY DEF AggregateInv, TypeOK, Existing
<1> DEFINE elems == NativeHandles(content[a])
<1>2. elems \in Seq(Layouts)
  BY <1>1, HandlesTyped
<1>3. elems # <<>>
  BY DEF CanBeStruct
<1> HIDE DEF elems
<1>4. NativeStruct(elems, isUnion) = InSizeT(LayoutInC(new.kind, elems)) /\ NativeStruct(elems, isUnion) \in Layouts
  BY <1>2, <1>3, StructLayout
<1> QED BY <1>1, <1>4 DEF NewLayout, elems

\* Only the constructors and the reuse of an identity change layouts.
LEMMA LayoutStep ==
  ASSUME AggregateInv, AggregateInv', LayoutInv, [Next]_vars
  PROVE  LayoutInv'
<1>1. CASE obj' = obj
  BY <1>1, AllLaidOut
<1>2. ASSUME NEW t \in Threads, CreateStruct(t)
      PROVE  LayoutInv'
  <2> DEFINE new == [kind |-> "struct", fields |-> Fields(t), array |-> th[t].array,
                     layout |-> NativeStruct(NativeHandles(Fields(t)), FALSE)]
  <2>1. CanBeStruct(NativeHandles(Fields(t)), FALSE) /\ th[t].pc = "create"
    BY <1>2 DEF CreateStruct
  <2>2. PICK o \in Objs : ~Exists(o) /\ obj' = [obj EXCEPT ![o] = new]
    BY <1>2 DEF CreateStruct
  <2>3. th[t].array \in Arrays /\ Fields(t) = content[th[t].array]
    BY <2>1, ThreadTyped DEF ThreadOK, Fields
  <2>4. new.kind = "struct" /\ new.fields = content[th[t].array]
        /\ new.layout = NativeStruct(NativeHandles(content[th[t].array]), FALSE)
    BY <2>3
  <2> HIDE DEF new
  <2>5. NewLayout(new) /\ \A p \in Objs \cap Range(new.fields) : Exists(p)
    BY <2>1, <2>3, <2>4, LayoutOfNew
  <2> QED BY <2>2, <2>5, LayoutMade
<1>3. ASSUME NEW o \in Objs, NEW a \in Arrays, NEW isUnion \in BOOLEAN, NewAggregate(o, a, isUnion)
      PROVE  LayoutInv'
  <2> DEFINE new == [kind |-> IF isUnion THEN "union" ELSE "struct", fields |-> content[a],
                     array |-> a, layout |-> NativeStruct(NativeHandles(content[a]), isUnion)]
  <2>1. CanBeStruct(NativeHandles(content[a]), isUnion) /\ ~Exists(o) /\ obj' = [obj EXCEPT ![o] = new]
    BY <1>3 DEF NewAggregate, Make
  <2>2. new.kind = (IF isUnion THEN "union" ELSE "struct") /\ new.fields = content[a]
        /\ new.layout = NativeStruct(NativeHandles(content[a]), isUnion)
    OBVIOUS
  <2> HIDE DEF new
  <2>3. NewLayout(new) /\ \A p \in Objs \cap Range(new.fields) : Exists(p)
    BY <2>1, <2>2, LayoutOfNew
  <2> QED BY <2>1, <2>3, LayoutMade
<1>4. ASSUME NEW o \in Objs, NEW type \in DOMAIN Builtin \cup held, NEW n \in Lengths, NewArray(o, type, n)
      PROVE  LayoutInv'
  <2> DEFINE fields == [i \in 1..n |-> type]
             new == [kind |-> "array", fields |-> fields, array |-> None,
                     layout |-> NativeArray(LayoutOf(type), n)]
  <2>1. n \in Nat \ {0} /\ ~Exists(o) /\ obj' = [obj EXCEPT ![o] = new]
    BY <1>4, AggregatesAssumption DEF NewArray, Make
  <2>2. type \in Names \cup Objs /\ (type \in Objs => Exists(type))
    BY AggregatesAssumption DEF AggregateInv, TypeOK, Existing, Names
  <2>3. LayoutOf(type) \in Layouts
    BY <2>2, LayoutAssumption DEF LayoutInv, LayoutOf
  <2>4. Len(fields) = n /\ Range(fields) \subseteq {type} /\ NativeHandles(fields) = [i \in 1..n |-> LayoutOf(type)]
    BY <2>1 DEF Range, NativeHandles
  <2>5. new.kind = "array" /\ new.fields = fields /\ new.layout = NativeArray(LayoutOf(type), n)
    OBVIOUS
  <2> HIDE DEF new, fields
  <2>6. /\ NativeArray(LayoutOf(type), n) = InSizeT(LayoutInC("array", NativeHandles(fields)))
        /\ NativeArray(LayoutOf(type), n) \in Layouts
    BY <2>1, <2>3, <2>4, ArrayLayout
  <2>7. NewLayout(new) /\ \A p \in Objs \cap Range(new.fields) : Exists(p)
    BY <2>2, <2>4, <2>5, <2>6 DEF NewLayout
  <2> QED BY <2>1, <2>7, LayoutMade
<1>5. ASSUME NEW o \in Objs, Forget(o)
      PROVE  LayoutInv'
  <2>1. obj' = [obj EXCEPT ![o] = Gone] /\ \A p \in Objs : obj[p].kind # "none" => o \notin Range(obj[p].fields)
    BY <1>5 DEF Forget, Exists
  <2>2. obj'[o] = Gone /\ Gone.kind = "none" /\ \A p \in Objs \ {o} : obj'[p] = obj[p]
    BY <2>1 DEF AggregateInv, TypeOK, Gone
  <2>3. \A p \in Objs : obj'[p].fields \in Seq(Names \cup Objs)
    BY DEF AggregateInv, TypeOK
  <2>4. LaidOut(obj) => LaidOut(obj')
    BY <2>1, <2>2, <2>3, LayoutChange
  <2> QED BY <2>4, AllLaidOut
<1>6. CASE UNCHANGED vars
  BY <1>1, <1>6 DEF vars
<1>7. CASE Next
  <2>1. ASSUME NEW t \in Threads,
               (\E a \in Arrays : NewStruct(t, a)) \/ Deref(t) \/ Cull(t) \/ RemoveDead(t) \/ CreateFails(t) \/ Put(t)
        PROVE  LayoutInv'
    BY <1>1, <2>1 DEF NewStruct, Deref, Cull, RemoveDead, CreateFails, Put
  <2>2. ASSUME NEW a \in Arrays, NEW list, Store(a, list) PROVE LayoutInv'
    BY <1>1, <2>2 DEF Store
  <2>3. ASSUME NEW o \in Objs, Drop(o) \/ Clear(o) \/ Enqueue(o) \/ Free(o) PROVE LayoutInv'
    BY <1>1, <2>3 DEF Drop, Clear, Enqueue, Free
  <2> QED BY <1>2, <1>3, <1>4, <1>5, <1>7, <2>1, <2>2, <2>3 DEF Next
<1> QED BY <1>6, <1>7

\* Struct, Union and Array have the size and the alignment that C gives the
\* type, however they are nested.
THEOREM LayoutsOfC == Spec => []LayoutOfC
<1>1. Init => LayoutInv
  BY DEF Init, LayoutInv, LayoutOfC, Exists, Gone
<1>2. AggregateInv /\ AggregateInv' /\ LayoutInv /\ [Next]_vars => LayoutInv'
  BY LayoutStep
<1>3. LayoutInv => LayoutOfC
  BY DEF LayoutInv
<1> QED BY <1>1, <1>2, <1>3, AggregateInvariance, PTL DEF Spec

(***************************************************************************)
(* Refinement: newStruct does what WeakCache says of a request             *)
(***************************************************************************)

\* The request of a thread, and the Struct it has made for it.
LEMMA OfThread ==
  ASSUME NEW t \in Threads
  PROVE  /\ Cache!Asking(t) = IF th[t].pc = "idle" THEN {} ELSE {[by |-> t, key |-> Fields(t)]}
         /\ Cache!Made(t) = IF th[t].pc = "put" THEN {[by |-> t, o |-> th[t].o]} ELSE {}
BY DEF Cache!Asking, Cache!Made, Requests, Fresh

\* A step of one thread leaves the requests of the others as they are.
LEMMA RequestsStep ==
  ASSUME NEW t \in Threads, \A u \in Threads \ {t} : th'[u] = th[u], content' = content
  PROVE  /\ Requests' = (Requests \ Cache!Asking(t)) \cup Cache!Asking(t)'
         /\ Cache!Asking(t)' = IF th'[t].pc = "idle" THEN {} ELSE {[by |-> t, key |-> Fields(t)']}
<1>1. Cache!Asking(t)' = IF th'[t].pc = "idle" THEN {} ELSE {[by |-> t, key |-> Fields(t)']}
  BY DEF Cache!Asking, Requests
<1>2. \A u \in Threads \ {t} : Fields(u)' = Fields(u)
  BY DEF Fields
<1>3. ASSUME NEW r PROVE r \in Requests' <=> r \in (Requests \ Cache!Asking(t)) \cup Cache!Asking(t)'
  BY <1>1, <1>2, OfThread DEF Requests
<1> QED BY <1>1, <1>3

\* Nor does it change its own while it goes on serving it.
LEMMA SameRequest ==
  ASSUME NEW t \in Threads, \A u \in Threads \ {t} : th'[u] = th[u], content' = content,
         th[t].pc # "idle", th'[t].pc # "idle", th'[t].array = th[t].array
  PROVE  Requests' = Requests
<1>1. Fields(t)' = Fields(t)
  BY DEF Fields
<1>2. Cache!Asking(t)' = {[by |-> t, key |-> Fields(t)]}
  BY <1>1, RequestsStep
<1>3. Cache!Asking(t) = {[by |-> t, key |-> Fields(t)]}
  BY OfThread
<1>4. Cache!Asking(t) \subseteq Requests
  BY DEF Cache!Asking
<1>5. Requests' = (Requests \ Cache!Asking(t)) \cup Cache!Asking(t)'
  BY RequestsStep
<1> QED BY <1>2, <1>3, <1>4, <1>5

\* Nor does it change what the others have made.
LEMMA FreshStep ==
  ASSUME NEW t \in Threads, \A u \in Threads \ {t} : th'[u] = th[u]
  PROVE  /\ Fresh' = (Fresh \ Cache!Made(t)) \cup Cache!Made(t)'
         /\ Cache!Made(t)' = IF th'[t].pc = "put" THEN {[by |-> t, o |-> th'[t].o]} ELSE {}
<1>1. Cache!Made(t)' = IF th'[t].pc = "put" THEN {[by |-> t, o |-> th'[t].o]} ELSE {}
  BY DEF Cache!Made, Fresh
<1>2. ASSUME NEW r PROVE r \in Fresh' <=> r \in (Fresh \ Cache!Made(t)) \cup Cache!Made(t)'
  BY <1>1, OfThread DEF Fresh
<1> QED BY <1>1, <1>2

\* A step that neither makes nor returns leaves what was made as it is.
LEMMA SameFresh ==
  ASSUME NEW t \in Threads, \A u \in Threads \ {t} : th'[u] = th[u],
         th[t].pc # "put", th'[t].pc # "put"
  PROVE  Fresh' = Fresh /\ Cache!Made(t) = {}
<1>1. Cache!Made(t) = {} /\ Cache!Made(t)' = {}
  BY OfThread, FreshStep
<1> QED BY <1>1, FreshStep

\* References that are not live do not count.
LEMMA SameLive ==
  ASSUME AggregateInv, held' = held,
         \A o \in Objs : /\ ref'[o] = "live" <=> ref[o] = "live"
                         /\ ref[o] = "live" => obj'[o].fields = obj[o].fields
  PROVE  Alive' = Alive /\ HeldCached' = HeldCached
<1>1. held \subseteq Objs
  BY DEF AggregateInv, TypeOK
<1>2. ASSUME NEW a PROVE a \in Alive' <=> a \in Alive
  BY DEF Alive, Cached
<1>3. ASSUME NEW o PROVE o \in HeldCached' <=> o \in HeldCached
  BY <1>1 DEF HeldCached, Cached
<1> QED BY <1>2, <1>3

\* What the collector clears was neither held nor about to be put.
LEMMA ClearedUnheld ==
  ASSUME NEW o \in Objs, o \notin StronglyReachable, NEW p \in Roots
  PROVE  o \notin Closure({p}, Kept)
<1>1. ASSUME o \in Closure({p}, Kept), NEW S \in SUBSET Objs, Roots \subseteq S,
             \A q \in S : Kept(q) \subseteq S
      PROVE  o \in S
  <2>1. {p} \subseteq S
    BY <1>1
  <2> QED BY <1>1, <2>1 DEF Closure
<1> QED BY <1>1 DEF StronglyReachable, Closure

\* structCache.get asks.
LEMMA NewStructAsks ==
  ASSUME AggregateInv, NEW t \in Threads, NEW a \in Arrays, NewStruct(t, a)
  PROVE  Cache!Ask(t)
<1>1. UNCHANGED <<content, obj, ref, held>> /\ th[t].pc = "idle"
  BY DEF NewStruct
<1>2. th'[t].pc \in {"deref", "cull"} /\ \A u \in Threads \ {t} : th'[u] = th[u]
  <2>1. PICK l : th' = [th EXCEPT ![t] = l] /\ l.pc \in {"deref", "cull"}
    <3>1. ASSUME NEW pc \in {"deref", "cull"}, NEW o
          PROVE  [pc |-> pc, array |-> a, o |-> o].pc \in {"deref", "cull"}
      OBVIOUS
    <3> QED BY <3>1 DEF NewStruct
  <2> QED BY <2>1, ThreadTyped
<1> DEFINE r == [by |-> t, key |-> Fields(t)']
<1>3. Cache!Asking(t) = {} /\ Cache!Asking(t)' = {r}
  BY <1>1, <1>2, OfThread, RequestsStep
<1>4. Requests' = Requests \cup {r} /\ r.by = t
  BY <1>1, <1>2, <1>3, RequestsStep
<1>5. Fresh' = Fresh
  BY <1>1, <1>2, SameFresh
<1>6. Alive' = Alive /\ HeldCached' = HeldCached
  BY <1>1, SameLive
<1> HIDE DEF r
<1> QED BY <1>3, <1>4, <1>5, <1>6 DEF Cache!Ask

\* A Struct that is returned, found or made, has a live reference and the types
\* asked for, and no other thread is still about to put it.
LEMMA ReturnAnswers ==
  ASSUME AggregateInv, UnpublishedInv, NEW t \in Threads, th[t].pc \in {"deref", "put"},
         Cached(th[t].o), Return(t, th[t].o), UNCHANGED <<content, obj, ref>>
  PROVE  th[t].o \in Objs /\ Cache!Answer(t, th[t].o)
<1> DEFINE o == th[t].o
<1>1. o \in Objs /\ obj[o].fields = Fields(t)
  BY ThreadTyped DEF ThreadOK
<1>2. th'[t].pc = "idle" /\ (\A u \in Threads \ {t} : th'[u] = th[u]) /\ held' = held \cup {o}
  BY IdleTyped DEF Return
<1>3. Requests' = Requests \ Cache!Asking(t) /\ Fresh' = Fresh \ Cache!Made(t)
  BY <1>2, RequestsStep, FreshStep
<1>4. [by |-> t, key |-> Fields(t)] \in Cache!Asking(t)
  BY OfThread
<1>5. [o |-> o, key |-> [by |-> t, key |-> Fields(t)].key] \in Alive
  BY <1>1 DEF Alive
<1>6. ASSUME NEW f \in Fresh PROVE f.by = t <=> f.o = o
  BY DEF Fresh, UnpublishedInv
<1>7. Alive' = Alive
  BY DEF Alive, Cached
<1>8. HeldCached' = HeldCached \cup {o}
  <2>1. ASSUME NEW p PROVE p \in HeldCached' <=> p \in HeldCached \cup {o}
    BY <1>2 DEF HeldCached, Cached
  <2> QED BY <2>1
<1> HIDE DEF o
<1>9. Cache!Answer(t, o)
  BY <1>3, <1>4, <1>5, <1>6, <1>7, <1>8 DEF Cache!Answer
<1> QED BY <1>1, <1>9 DEF o

\* ref.get() answers or goes on; polling and removing change no live reference.
LEMMA LookupRefines ==
  ASSUME AggregateInv, UnpublishedInv, NEW t \in Threads, Deref(t) \/ Cull(t) \/ RemoveDead(t)
  PROVE  [Cache!Next]_(Cache!vars)
<1>1. CASE Deref(t) /\ ref[th[t].o] = "live"
  <2>1. th[t].o \in Objs /\ Cache!Answer(t, th[t].o)
    BY <1>1, ReturnAnswers DEF Deref, Cached
  <2> QED BY <2>1 DEF Cache!Next
<1>2. ASSUME ~(Deref(t) /\ ref[th[t].o] = "live") PROVE UNCHANGED Cache!vars
  <2>1. /\ th[t].pc \notin {"idle", "put"} /\ UNCHANGED <<content, obj, held>>
        /\ \E p \in Objs \cup {None} : Goto(t, "cull", p) \/ Goto(t, "remove", p) \/ Goto(t, "create", p)
    BY <1>2 DEF Deref, Cull, RemoveDead
  <2>2. PICK p \in Objs \cup {None} : Goto(t, "cull", p) \/ Goto(t, "remove", p) \/ Goto(t, "create", p)
    BY <2>1
  <2>3. \A u \in Threads \ {t} : th'[u] = th[u]
    BY <2>2, GotoTyped
  <2>4. th'[t].pc \notin {"idle", "put"} /\ th'[t].array = th[t].array
    <3>1. CASE Goto(t, "cull", p)
      <4>1. th'[t] = [pc |-> "cull", array |-> th[t].array, o |-> p]
        BY <3>1, GotoTyped
      <4> QED BY <4>1
    <3>2. CASE Goto(t, "remove", p)
      <4>1. th'[t] = [pc |-> "remove", array |-> th[t].array, o |-> p]
        BY <3>2, GotoTyped
      <4> QED BY <4>1
    <3>3. CASE Goto(t, "create", p)
      <4>1. th'[t] = [pc |-> "create", array |-> th[t].array, o |-> p]
        BY <3>3, GotoTyped
      <4> QED BY <4>1
    <3> QED BY <2>2, <3>1, <3>2, <3>3
  <2>5. Requests' = Requests
    BY <2>1, <2>3, <2>4, SameRequest
  <2>6. Fresh' = Fresh
    BY <2>1, <2>3, <2>4, SameFresh
  <2>7. \A o \in Objs : ref'[o] = "live" <=> ref[o] = "live"
    BY ThreadTyped DEF Deref, Cull, RemoveDead
  <2>8. Alive' = Alive /\ HeldCached' = HeldCached
    BY <2>1, <2>7, SameLive
  <2> QED BY <2>5, <2>6, <2>8 DEF Cache!vars
<1> QED BY <1>1, <1>2

\* new Struct(...) makes.
LEMMA CreateStructMakes ==
  ASSUME AggregateInv, NEW t \in Threads, CreateStruct(t)
  PROVE  \E o \in Objs : Cache!Make(t, o)
<1> DEFINE new == [kind |-> "struct", fields |-> Fields(t), array |-> th[t].array,
                   layout |-> NativeStruct(NativeHandles(Fields(t)), FALSE)]
<1>1. PICK o \in Objs : /\ ~Exists(o) /\ obj' = [obj EXCEPT ![o] = new]
                        /\ ref' = [ref EXCEPT ![o] = "live"] /\ Goto(t, "put", o)
  BY DEF CreateStruct
<1>2. UNCHANGED <<content, held>> /\ th[t].pc = "create"
  BY DEF CreateStruct
<1>3. new.fields = Fields(t)
  OBVIOUS
<1> HIDE DEF new
<1>4. th'[t] = [pc |-> "put", array |-> th[t].array, o |-> o] /\ \A u \in Threads \ {t} : th'[u] = th[u]
  BY <1>1, GotoTyped
<1>5. th'[t].pc = "put" /\ th'[t].array = th[t].array /\ th'[t].o = o
  BY <1>4
<1>6. Requests' = Requests
  BY <1>2, <1>4, <1>5, SameRequest
<1>7. Cache!Made(t) = {} /\ Cache!Made(t)' = {[by |-> t, o |-> o]}
  BY <1>2, <1>4, <1>5, OfThread, FreshStep
<1>8. Fresh' = Fresh \cup {[by |-> t, o |-> o]}
  BY <1>4, <1>7, FreshStep
<1>9. /\ ref[o] # "live" /\ ref'[o] = "live" /\ obj'[o].fields = Fields(t) /\ o \notin held
      /\ \A p \in Objs \ {o} : obj'[p] = obj[p] /\ ref'[p] = ref[p]
  BY <1>1, <1>3 DEF AggregateInv, TypeOK, Existing
<1>10. Alive' = Alive \cup {[o |-> o, key |-> Fields(t)]}
  <2>1. ASSUME NEW a PROVE a \in Alive' <=> a \in Alive \cup {[o |-> o, key |-> Fields(t)]}
    BY <1>9 DEF Alive, Cached
  <2> QED BY <2>1
<1>11. HeldCached' = HeldCached
  <2>1. held \subseteq Objs
    BY DEF AggregateInv, TypeOK
  <2>2. ASSUME NEW p PROVE p \in HeldCached' <=> p \in HeldCached
    BY <1>2, <1>9, <2>1 DEF HeldCached, Cached
  <2> QED BY <2>2
<1>12. \A a \in Alive : a.o # o
  BY <1>9 DEF Alive, Cached
<1>13. [by |-> t, key |-> Fields(t)] \in Cache!Asking(t) /\ [by |-> t, key |-> Fields(t)].key = Fields(t)
  BY <1>2, OfThread
<1> QED BY <1>6, <1>7, <1>8, <1>10, <1>11, <1>12, <1>13 DEF Cache!Make

\* The constructor throws: the request fails.
LEMMA CreateFailsFails ==
  ASSUME AggregateInv, NEW t \in Threads, CreateFails(t)
  PROVE  Cache!Fail(t)
<1>1. UNCHANGED <<content, obj, ref, held>> /\ th[t].pc = "create"
  BY DEF CreateFails
<1>2. th'[t].pc = "idle" /\ \A u \in Threads \ {t} : th'[u] = th[u]
  BY IdleTyped DEF CreateFails
<1>3. Requests' = Requests \ Cache!Asking(t) /\ Cache!Asking(t) # {}
  BY <1>1, <1>2, OfThread, RequestsStep
<1>4. Fresh' = Fresh /\ Cache!Made(t) = {}
  BY <1>1, <1>2, SameFresh
<1>5. Alive' = Alive /\ HeldCached' = HeldCached
  BY <1>1, SameLive
<1> QED BY <1>3, <1>4, <1>5 DEF Cache!Fail

\* The constructors that do not cache: what they make has no live reference.
LEMMA MakeStutters ==
  ASSUME AggregateInv, NEW o \in Objs, NEW new, Make(o, new)
  PROVE  UNCHANGED Cache!vars
<1>1. /\ ~Exists(o) /\ obj' = [obj EXCEPT ![o] = new] /\ ref' = [ref EXCEPT ![o] = "done"]
      /\ held' = held \cup {o} /\ UNCHANGED <<content, th>>
  BY DEF Make
<1>2. /\ ref[o] # "live" /\ ref'[o] # "live" /\ held \subseteq Objs
      /\ \A p \in Objs \ {o} : ref'[p] = ref[p] /\ obj'[p] = obj[p]
  BY <1>1 DEF AggregateInv, TypeOK, Existing
<1>3. ASSUME NEW a PROVE a \in Alive' <=> a \in Alive
  BY <1>2 DEF Alive, Cached
<1>4. ASSUME NEW p PROVE p \in HeldCached' <=> p \in HeldCached
  BY <1>1, <1>2 DEF HeldCached, Cached
<1>5. Requests' = Requests /\ Fresh' = Fresh
  BY <1>1 DEF Requests, Fresh, Fields
<1> QED BY <1>3, <1>4, <1>5 DEF Cache!vars

\* An array that no call is reading is nobody's request.
LEMMA StoreStutters ==
  ASSUME AggregateInv, NEW a \in Arrays, NEW list, Store(a, list)
  PROVE  UNCHANGED Cache!vars
<1>1. /\ UNCHANGED <<obj, ref, held, th>> /\ content' = [content EXCEPT ![a] = list]
      /\ \A t \in Threads : th[t].array # a
  BY DEF Store
<1>2. ASSUME NEW t \in Threads, th[t].pc # "idle" PROVE Fields(t)' = Fields(t)
  <2>1. th[t].array \in Arrays \ {a}
    BY <1>1, <1>2, ThreadTyped DEF ThreadOK
  <2> QED BY <1>1, <2>1, ThreadTyped DEF Fields
<1>3. ASSUME NEW r PROVE r \in Requests' <=> r \in Requests
  BY <1>1, <1>2 DEF Requests
<1>4. Fresh' = Fresh
  BY <1>1 DEF Fresh
<1>5. Alive' = Alive /\ HeldCached' = HeldCached
  BY <1>1, SameLive
<1> QED BY <1>3, <1>4, <1>5 DEF Cache!vars

\* Dropping drops, clearing lets Structs die, and the rest happens to the dead.
LEMMA CollectRefines ==
  ASSUME AggregateInv, NEW o \in Objs,
         Drop(o) \/ Clear(o) \/ Enqueue(o) \/ Free(o) \/ Forget(o)
  PROVE  [Cache!Next]_(Cache!vars)
<1>1. Requests' = Requests /\ Fresh' = Fresh
  <2>1. UNCHANGED <<th, content>>
    BY DEF Drop, Clear, Enqueue, Free, Forget
  <2> QED BY <2>1 DEF Requests, Fresh, Fields
<1>2. CASE Drop(o)
  <2>1. UNCHANGED <<obj, ref>> /\ held' = held \ {o}
    BY <1>2 DEF Drop
  <2>2. Alive' = Alive
    BY <2>1 DEF Alive, Cached
  <2>3. HeldCached' = HeldCached \ {o}
    <3>1. ASSUME NEW p PROVE p \in HeldCached' <=> p \in HeldCached \ {o}
      BY <2>1 DEF HeldCached, Cached
    <3> QED BY <3>1
  <2>4. CASE o \in HeldCached
    <3>1. Cache!Drop(o)
      BY <1>1, <2>2, <2>3, <2>4 DEF Cache!Drop
    <3> QED BY <3>1 DEF Cache!Next
  <2>5. CASE o \notin HeldCached
    <3>1. HeldCached' = HeldCached
      BY <2>3, <2>5
    <3> QED BY <1>1, <2>2, <3>1 DEF Cache!vars
  <2> QED BY <2>4, <2>5
<1>3. CASE Clear(o)
  <2> DEFINE dead == {p \in Objs : Exists(p) /\ ref[p] = "live" /\ o \in Closure({p}, Kept)}
  <2>1. /\ ref' = [p \in Objs |-> IF p \notin dead THEN ref[p]
                                  ELSE IF RefReachable(p) THEN "pending" ELSE "done"]
        /\ UNCHANGED <<obj, held>> /\ o \notin StronglyReachable
    BY <1>3 DEF Clear
  <2>2. \A p \in Roots : p \notin dead
    BY <2>1, ClearedUnheld
  <2> HIDE DEF dead
  <2>3. \A p \in Objs : (ref'[p] = "live" <=> ref[p] = "live" /\ p \notin dead)
                        /\ (p \in dead => ref'[p] # "live")
    BY <2>1
  <2>4. Alive' \subseteq Alive /\ \A a \in Alive \ Alive' : a.o \in dead
    BY <2>1, <2>3 DEF Alive, Cached
  <2>5. held \subseteq Roots /\ \A f \in Fresh : f.o \in Roots
    <3>1. held \subseteq Objs /\ \A p \in held : Exists(p)
      BY DEF AggregateInv, TypeOK, Existing
    <3>2. ASSUME NEW t \in Threads, th[t].pc = "put" PROVE th[t].o \in Objs /\ Exists(th[t].o)
      BY <3>2, ThreadTyped DEF ThreadOK
    <3> QED BY <3>1, <3>2 DEF Roots, Fresh
  <2>6. HeldCached' = HeldCached
    <3>1. ASSUME NEW p PROVE p \in HeldCached' <=> p \in HeldCached
      <4>1. Roots \subseteq Objs
        BY DEF Roots
      <4> QED BY <2>1, <2>2, <2>3, <2>5, <4>1 DEF HeldCached, Cached
    <3> QED BY <3>1
  <2>7. HeldCached \subseteq Roots
    BY <2>5 DEF HeldCached
  <2>8. \A a \in Alive \ Alive' : a.o \notin HeldCached /\ \A f \in Fresh : f.o # a.o
    BY <2>2, <2>4, <2>5, <2>7
  <2>9. Cache!Die
    BY <1>1, <2>4, <2>6, <2>8 DEF Cache!Die
  <2> QED BY <2>9 DEF Cache!Next
<1>4. CASE Enqueue(o) \/ Free(o)
  <2>1. UNCHANGED <<obj, held>> /\ \A p \in Objs : ref'[p] = "live" <=> ref[p] = "live"
    BY <1>4 DEF Enqueue, Free, AggregateInv, TypeOK
  <2>2. Alive' = Alive /\ HeldCached' = HeldCached
    BY <2>1, SameLive
  <2> QED BY <1>1, <2>2 DEF Cache!vars
<1>5. CASE Forget(o)
  <2>1. UNCHANGED <<ref, held>> /\ ref[o] # "live" /\ \A p \in Objs \ {o} : obj'[p] = obj[p]
    BY <1>5 DEF Forget, AggregateInv, TypeOK
  <2>2. Alive' = Alive /\ HeldCached' = HeldCached
    BY <2>1, SameLive
  <2> QED BY <1>1, <2>2 DEF Cache!vars
<1> QED BY <1>2, <1>3, <1>4, <1>5

\* Every step is one of WeakCache or none.
LEMMA StepRefines == AggregateInv /\ UnpublishedInv /\ [Next]_vars => [Cache!Next]_(Cache!vars)
<1> SUFFICES ASSUME AggregateInv, UnpublishedInv, [Next]_vars PROVE [Cache!Next]_(Cache!vars)
  OBVIOUS
<1>1. CASE UNCHANGED vars
  <2>1. UNCHANGED <<content, obj, ref, held, th>>
    BY <1>1 DEF vars
  <2>2. Requests' = Requests /\ Fresh' = Fresh
    BY <2>1 DEF Requests, Fresh, Fields
  <2> QED BY <2>1, <2>2, SameLive DEF Cache!vars
<1>2. ASSUME NEW t \in Threads, NEW a \in Arrays, NewStruct(t, a) PROVE [Cache!Next]_(Cache!vars)
  BY <1>2, NewStructAsks DEF Cache!Next
<1>3. ASSUME NEW t \in Threads, Deref(t) \/ Cull(t) \/ RemoveDead(t) PROVE [Cache!Next]_(Cache!vars)
  BY <1>3, LookupRefines
<1>4. ASSUME NEW t \in Threads, CreateStruct(t) \/ CreateFails(t) PROVE [Cache!Next]_(Cache!vars)
  BY <1>4, CreateStructMakes, CreateFailsFails DEF Cache!Next
<1>5. ASSUME NEW t \in Threads, Put(t) PROVE [Cache!Next]_(Cache!vars)
  <2>1. th[t].pc = "put" /\ UNCHANGED <<content, obj, ref>> /\ Return(t, th[t].o) /\ Cached(th[t].o)
    BY <1>5 DEF Put, UnpublishedInv
  <2>2. th[t].o \in Objs /\ Cache!Answer(t, th[t].o)
    BY <2>1, ReturnAnswers
  <2> QED BY <2>2 DEF Cache!Next
<1>6. ASSUME NEW o \in Objs, NEW a \in Arrays, NEW isUnion \in BOOLEAN, NewAggregate(o, a, isUnion)
      PROVE  UNCHANGED Cache!vars
  BY <1>6, MakeStutters DEF NewAggregate
<1>7. ASSUME NEW o \in Objs, NEW type \in DOMAIN Builtin \cup held, NEW n \in Lengths, NewArray(o, type, n)
      PROVE  UNCHANGED Cache!vars
  BY <1>7, MakeStutters DEF NewArray
<1>8. ASSUME NEW a \in Arrays, NEW list \in Lists(held), Store(a, list) PROVE UNCHANGED Cache!vars
  BY <1>8, StoreStutters
<1>9. ASSUME NEW o \in Objs, Drop(o) \/ Clear(o) \/ Enqueue(o) \/ Free(o) \/ Forget(o)
      PROVE  [Cache!Next]_(Cache!vars)
  BY <1>9, CollectRefines
<1> QED BY <1>1, <1>2, <1>3, <1>4, <1>5, <1>6, <1>7, <1>8, <1>9 DEF Next
\* Nobody comes to refer to what a thread is about to put: the map grows by
\* nothing, and a thread takes up what the map or a dead reference has.
LEMMA StayUnpublished ==
  ASSUME AggregateInv, UnpublishedInv, structCache' \subseteq structCache,
         \A t \in Threads :
           \/ th'[t] = th[t]
           \/ /\ th'[t].pc # "put"
              /\ \/ th'[t].o = None
                 \/ \E e \in structCache : th'[t].o = e.o
                 \/ ~Cached(th'[t].o),
         \A t \in Threads : th[t].pc = "put" /\ ref[th[t].o] = "live" => ref'[th[t].o] = "live"
  PROVE  UnpublishedInv'
<1> SUFFICES ASSUME NEW t \in Threads, th'[t].pc = "put"
             PROVE  /\ ref'[th'[t].o] = "live"
                    /\ \A e \in structCache' : e.o # th'[t].o
                    /\ \A u \in Threads \ {t} : th'[u].o # th'[t].o
  BY DEF UnpublishedInv, Cached
<1>1. th'[t] = th[t] /\ th[t].pc = "put"
  OBVIOUS
<1>2. /\ ref[th[t].o] = "live" /\ \A e \in structCache : e.o # th[t].o
      /\ \A u \in Threads \ {t} : th[u].o # th[t].o
  BY <1>1 DEF UnpublishedInv, Cached
<1>3. th[t].o # None
  BY <1>1, ThreadTyped DEF ThreadOK
<1>4. ref'[th'[t].o] = "live"
  BY <1>1, <1>2
<1>5. ASSUME NEW u \in Threads \ {t} PROVE th'[u].o # th'[t].o
  BY <1>1, <1>2, <1>3 DEF Cached
<1> QED BY <1>1, <1>2, <1>4, <1>5

\* The lookup: what it finds is in the map, what it culls is dead.
LEMMA LookupUnpublished ==
  ASSUME AggregateInv, UnpublishedInv, NEW t \in Threads,
         \/ \E a \in Arrays : NewStruct(t, a)
         \/ Deref(t) \/ Cull(t) \/ RemoveDead(t) \/ CreateFails(t)
  PROVE  UnpublishedInv'
<1>1. structCache' \subseteq structCache
  BY DEF NewStruct, Deref, Cull, RemoveDead, CreateFails
<1>2. \A o \in Objs : ref'[o] = "live" <=> ref[o] = "live"
  BY ThreadTyped DEF NewStruct, Deref, Cull, RemoveDead, CreateFails
<1>3. \A u \in Threads : th[u].pc = "put" => th[u].o \in Objs
  BY ThreadTyped DEF ThreadOK
<1> DEFINE Moved == /\ th'[t].pc # "put" /\ \A u \in Threads \ {t} : th'[u] = th[u]
                    /\ \/ th'[t].o = None
                       \/ \E e \in structCache : th'[t].o = e.o
                       \/ ~Cached(th'[t].o)
<1>4. Moved
  <2>1. ASSUME NEW a \in Arrays, NewStruct(t, a) PROVE Moved
    <3>1. CASE \E e \in structCache : th' = [th EXCEPT ![t] = [pc |-> "deref", array |-> a, o |-> e.o]]
      <4>1. PICK e \in structCache : th' = [th EXCEPT ![t] = [pc |-> "deref", array |-> a, o |-> e.o]]
        BY <3>1
      <4>2. th'[t] = [pc |-> "deref", array |-> a, o |-> e.o] /\ \A u \in Threads \ {t} : th'[u] = th[u]
        BY <4>1, ThreadTyped
      <4> QED BY <4>2
    <3>2. CASE th' = [th EXCEPT ![t] = [pc |-> "cull", array |-> a, o |-> None]]
      <4>1. th'[t] = [pc |-> "cull", array |-> a, o |-> None] /\ \A u \in Threads \ {t} : th'[u] = th[u]
        BY <3>2, ThreadTyped
      <4> QED BY <4>1
    <3> QED BY <2>1, <3>1, <3>2 DEF NewStruct
  <2>2. ASSUME th' = [th EXCEPT ![t] = Idle] PROVE Moved
    <3>1. th'[t] = Idle /\ \A u \in Threads \ {t} : th'[u] = th[u]
      BY <2>2, IdleTyped
    <3> QED BY <3>1 DEF Idle
  <2>3. ASSUME Goto(t, "cull", None) \/ Goto(t, "create", None) PROVE Moved
    <3>1. CASE Goto(t, "cull", None)
      <4>1. /\ th'[t] = [pc |-> "cull", array |-> th[t].array, o |-> None]
            /\ \A u \in Threads \ {t} : th'[u] = th[u]
        BY <3>1, GotoTyped
      <4> QED BY <4>1
    <3>2. CASE Goto(t, "create", None)
      <4>1. /\ th'[t] = [pc |-> "create", array |-> th[t].array, o |-> None]
            /\ \A u \in Threads \ {t} : th'[u] = th[u]
        BY <3>2, GotoTyped
      <4> QED BY <4>1
    <3> QED BY <2>3, <3>1, <3>2
  <2>4. ASSUME NEW o \in Objs, ref[o] = "queued", Goto(t, "remove", o) PROVE Moved
    <3>1. th'[t] = [pc |-> "remove", array |-> th[t].array, o |-> o] /\ \A u \in Threads \ {t} : th'[u] = th[u]
      BY <2>4, GotoTyped
    <3> QED BY <2>4, <3>1 DEF Cached
  <2> QED BY <2>1, <2>2, <2>3, <2>4 DEF Deref, Return, Cull, RemoveDead, CreateFails
<1>5. ASSUME NEW u \in Threads
      PROVE  \/ th'[u] = th[u]
             \/ /\ th'[u].pc # "put"
                /\ \/ th'[u].o = None
                   \/ \E e \in structCache : th'[u].o = e.o
                   \/ ~Cached(th'[u].o)
  BY <1>4
<1> QED BY <1>1, <1>2, <1>3, <1>5, StayUnpublished

\* new Struct(...) takes an identity that nothing has.
LEMMA CreateUnpublished ==
  ASSUME AggregateInv, UnpublishedInv, NEW t \in Threads, CreateStruct(t)
  PROVE  UnpublishedInv'
<1>1. PICK o \in Objs : ~Exists(o) /\ ref' = [ref EXCEPT ![o] = "live"] /\ Goto(t, "put", o)
  BY DEF CreateStruct
<1>2. structCache' = structCache
  BY DEF CreateStruct
<1>3. th'[t].o = o /\ \A u \in Threads \ {t} : th'[u] = th[u]
  <2>1. th'[t] = [pc |-> "put", array |-> th[t].array, o |-> o] /\ \A u \in Threads \ {t} : th'[u] = th[u]
    BY <1>1, GotoTyped
  <2> QED BY <2>1
<1>4. ref'[o] = "live" /\ \A p \in Objs \ {o} : ref'[p] = ref[p]
  BY <1>1, ThreadTyped
<1>5. /\ \A e \in structCache : e.o # o
      /\ \A u \in Threads : th[u].o # o
  BY <1>1, ThreadTyped DEF AggregateInv, EntryOK, ThreadOK
<1>6. ASSUME NEW u \in Threads \ {t}, th[u].pc = "put"
      PROVE  /\ th[u].o \in Objs /\ ref[th[u].o] = "live"
             /\ \A e \in structCache : e.o # th[u].o
             /\ \A v \in Threads \ {u} : th[v].o # th[u].o
  BY <1>6, ThreadTyped DEF UnpublishedInv, Cached, ThreadOK
<1>7. ASSUME NEW u \in Threads, th'[u].pc = "put"
      PROVE  /\ ref'[th'[u].o] = "live"
             /\ \A e \in structCache' : e.o # th'[u].o
             /\ \A v \in Threads \ {u} : th'[v].o # th'[u].o
  <2>1. CASE u = t
    BY <1>2, <1>3, <1>4, <1>5, <2>1
  <2>2. CASE u # t
    BY <1>2, <1>3, <1>4, <1>5, <1>6, <1>7, <2>2
  <2> QED BY <2>1, <2>2
<1> QED BY <1>7 DEF UnpublishedInv, Cached

\* put publishes what the thread has made and nothing else.
LEMMA PutUnpublished ==
  ASSUME AggregateInv, UnpublishedInv, NEW t \in Threads, Put(t)
  PROVE  UnpublishedInv'
<1>1. th[t].pc = "put" /\ ref' = ref
  BY DEF Put
<1>2. ASSUME NEW e \in structCache' PROVE e.o = th[t].o \/ \E f \in structCache : e.o = f.o
  <2>1. CASE \E f \in structCache : structCache' = (structCache \ {f}) \cup {[f EXCEPT !.o = th[t].o]}
    <3>1. PICK f \in structCache : structCache' = (structCache \ {f}) \cup {[f EXCEPT !.o = th[t].o]}
      BY <2>1
    <3>2. [f EXCEPT !.o = th[t].o].o = th[t].o
      BY DEF AggregateInv, TypeOK
    <3> QED BY <3>1, <3>2
  <2>2. CASE structCache' = structCache \cup {[hash |-> Fields(t), key |-> th[t].array, o |-> th[t].o]}
    BY <2>2
  <2> QED BY <2>1, <2>2 DEF Put
<1>3. th'[t] = Idle /\ \A u \in Threads \ {t} : th'[u] = th[u]
  BY IdleTyped DEF Put, Return
<1>4. Idle.pc # "put" /\ Idle.o = None
  BY DEF Idle
<1>5. ASSUME NEW u \in Threads \ {t}, th[u].pc = "put"
      PROVE  /\ ref[th[u].o] = "live" /\ th[u].o # None /\ th[u].o # th[t].o
             /\ \A e \in structCache : e.o # th[u].o
             /\ \A v \in Threads \ {u} : th[v].o # th[u].o
  BY <1>5, ThreadTyped DEF UnpublishedInv, Cached, ThreadOK
<1>6. ASSUME NEW u \in Threads, th'[u].pc = "put"
      PROVE  /\ ref'[th'[u].o] = "live"
             /\ \A e \in structCache' : e.o # th'[u].o
             /\ \A v \in Threads \ {u} : th'[v].o # th'[u].o
  <2>1. u \in Threads \ {t} /\ th'[u] = th[u] /\ th[u].pc = "put"
    BY <1>3, <1>4, <1>6
  <2> QED BY <1>1, <1>2, <1>3, <1>4, <1>5, <2>1
<1> QED BY <1>6 DEF UnpublishedInv, Cached

\* The collector does not clear what a thread is about to put.
LEMMA CollectUnpublished ==
  ASSUME AggregateInv, UnpublishedInv, NEW o \in Objs,
         Drop(o) \/ Clear(o) \/ Enqueue(o) \/ Free(o) \/ Forget(o)
  PROVE  UnpublishedInv'
<1>1. UNCHANGED <<th, structCache>>
  BY DEF Drop, Clear, Enqueue, Free, Forget
<1>2. ASSUME NEW t \in Threads, th[t].pc = "put", ref[th[t].o] = "live" PROVE ref'[th[t].o] = "live"
  <2>1. th[t].o \in Objs /\ Exists(th[t].o)
    BY <1>2, ThreadTyped DEF ThreadOK
  <2>2. CASE Clear(o)
    <3>1. th[t].o \in Roots /\ o \notin StronglyReachable
      BY <1>2, <2>1, <2>2 DEF Roots, Clear
    <3>2. o \notin Closure({th[t].o}, Kept)
      BY <3>1, ClearedUnheld
    <3> QED BY <1>2, <2>1, <2>2, <3>2 DEF Clear
  <2>3. CASE Drop(o) \/ Enqueue(o) \/ Free(o) \/ Forget(o)
    BY <1>2, <2>1, <2>3, ThreadTyped DEF Drop, Enqueue, Free, Forget
  <2> QED BY <2>2, <2>3
<1> QED BY <1>1, <1>2, StayUnpublished DEF Cached

\* The constructors that do not cache take an identity that nothing has.
LEMMA MakeUnpublished ==
  ASSUME AggregateInv, UnpublishedInv, NEW o \in Objs, NEW new, Make(o, new)
  PROVE  UnpublishedInv'
<1>1. UNCHANGED <<th, structCache>> /\ ~Exists(o) /\ ref' = [ref EXCEPT ![o] = "done"]
  BY DEF Make
<1>2. \A t \in Threads : th[t].pc = "put" => th[t].o # o /\ th[t].o \in Objs
  BY <1>1, ThreadTyped DEF ThreadOK
<1>3. \A p \in Objs \ {o} : ref'[p] = ref[p]
  BY <1>1, ThreadTyped
<1> QED BY <1>1, <1>2, <1>3, StayUnpublished DEF Cached

LEMMA UnpublishedNext == AggregateInv /\ UnpublishedInv /\ [Next]_vars => UnpublishedInv'
<1> SUFFICES ASSUME AggregateInv, UnpublishedInv, [Next]_vars PROVE UnpublishedInv'
  OBVIOUS
<1>1. CASE UNCHANGED vars
  BY <1>1 DEF vars, UnpublishedInv, Cached
<1>2. ASSUME NEW t \in Threads,
             \/ \E a \in Arrays : NewStruct(t, a)
             \/ Deref(t) \/ Cull(t) \/ RemoveDead(t) \/ CreateFails(t)
      PROVE  UnpublishedInv'
  BY <1>2, LookupUnpublished
<1>3. ASSUME NEW t \in Threads, CreateStruct(t) \/ Put(t) PROVE UnpublishedInv'
  BY <1>3, CreateUnpublished, PutUnpublished
<1>4. ASSUME NEW o \in Objs, NEW a \in Arrays, NEW isUnion \in BOOLEAN, NewAggregate(o, a, isUnion)
      PROVE  UnpublishedInv'
  BY <1>4, MakeUnpublished DEF NewAggregate
<1>5. ASSUME NEW o \in Objs, NEW type \in DOMAIN Builtin \cup held, NEW n \in Lengths, NewArray(o, type, n)
      PROVE  UnpublishedInv'
  BY <1>5, MakeUnpublished DEF NewArray
<1>6. ASSUME NEW a \in Arrays, NEW list \in Lists(held), Store(a, list) PROVE UnpublishedInv'
  BY <1>6 DEF Store, UnpublishedInv, Cached
<1>7. ASSUME NEW o \in Objs, Drop(o) \/ Clear(o) \/ Enqueue(o) \/ Free(o) \/ Forget(o)
      PROVE  UnpublishedInv'
  BY <1>7, CollectUnpublished
<1> QED BY <1>1, <1>2, <1>3, <1>4, <1>5, <1>6, <1>7 DEF Next

\* newStruct does what WeakCache says of a request, for any number of threads,
\* arrays and Aggregates: whatever is stored into the arrays that are its keys,
\* it returns a Struct of the types it was asked for whose reference is live,
\* and the one it made if it made one.
THEOREM NewStructImplements == Spec => ImplementsWeakCache
<1>1. Init => Cache!Init
  BY DEF Init, Cache!Init, Requests, Alive, Fresh, HeldCached, Cached, Idle
<1>2. Init => UnpublishedInv
  BY DEF Init, UnpublishedInv, Idle
<1> QED BY <1>1, <1>2, AggregateInvariance, UnpublishedNext, StepRefines, PTL
        DEF Spec, ImplementsWeakCache, Cache!Spec
=============================================================================
