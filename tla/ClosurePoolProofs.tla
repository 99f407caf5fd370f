--------------------------- MODULE ClosurePoolProofs ---------------------------
(***************************************************************************)
(* PoolInv is an inductive invariant of ClosurePool, for any number of     *)
(* threads, magazines, slots and Handles, with or without Handles shared   *)
(* between threads.  The pool implements SlotAllocator.  When no Handle is *)
(* shared, ConfinedInv is an invariant too.                                *)
(***************************************************************************)
EXTENDS ClosurePool, FiniteSetTheorems, TLAPS

\* The slots of m whose autorelease flag is set, by index.
AutoIdx(m, ar) == {i \in SlotIdx : ar[<<m, i>>]}

\* Draining a magazine from its first slot, with freeCount equal to the number
\* of its autorelease slots, takes all of them and leaves freeCount at 0.
LEMMA GetTakesAll ==
  ASSUME NEW m \in Magazines, NEW ar \in [Slots -> BOOLEAN], NEW g,
         g = [next |-> 0, freeCount |-> Cardinality(AutoIdx(m, ar))]
  PROVE  /\ Get(m, g, ar) = {s \in {m} \X SlotIdx : ar[s]}
         /\ Drained(m, g, ar) = [next |-> N, freeCount |-> 0]
<1> DEFINE A == AutoIdx(m, ar)
           S == {s \in {m} \X SlotIdx : ar[s]}
<1>1. IsFiniteSet(SlotIdx) /\ IsFiniteSet(A) /\ Cardinality(A) \in Nat
  <2>1. N \in Int
    BY ClosurePoolAssumption
  <2>2. IsFiniteSet(SlotIdx)
    BY <2>1, FS_Interval DEF SlotIdx
  <2>3. A \in SUBSET SlotIdx
    BY DEF AutoIdx
  <2> QED BY <2>2, <2>3, FS_Subset, FS_CardinalityType
<1>2. g.next + 1 .. N = SlotIdx
  BY ClosurePoolAssumption DEF SlotIdx
<1>3. ASSUME NEW s \in S
      PROVE  Cardinality({i \in g.next + 1 .. s[2] : ar[<<m, i>>]}) <= g.freeCount
  <2>1. {i \in g.next + 1 .. s[2] : ar[<<m, i>>]} \in SUBSET A
    BY <1>2, ClosurePoolAssumption DEF SlotIdx, AutoIdx
  <2> QED BY <2>1, <1>1, FS_Subset
<1>4. Get(m, g, ar) = S
  BY <1>2, <1>3 DEF Get
<1>5. Cardinality(S) = Cardinality(A)
  <2> DEFINE f == [i \in A |-> <<m, i>>]
  <2>1. f \in [A -> S]
    BY DEF AutoIdx, Slots
  <2>2. \A a, b \in A : f[a] = f[b] => a = b
    OBVIOUS
  <2>3. \A s \in S : \E i \in A : f[i] = s
    BY DEF AutoIdx
  <2>4. f \in Bijection(A, S)
    BY <2>1, <2>2, <2>3 DEF Bijection, Injection, Surjection, IsInjective
  <2> QED BY <2>4, <1>1, FS_Bijection DEF ExistsBijection
<1> QED BY <1>1, <1>4, <1>5 DEF Drained

\* All queues are empty.
LEMMA InitInv == Init => PoolInv
<1> SUFFICES ASSUME Init PROVE PoolInv
  OBVIOUS
<1> USE ClosurePoolAssumption DEF Init, Idle
<1>1. TypeOK
  BY DEF TypeOK, At, PCs, NullClosure
<1>2. QueueInv /\ ThreadInv /\ HolderInv
  BY DEF QueueInv, ThreadInv, HolderInv, Queued, Reachable, InUse, At, Disposing
<1>3. OneHolder /\ SlotExclusive
  BY DEF OneHolder, SlotExclusive, Owns, Reachable
<1>4. UncreatedInv
  BY DEF UncreatedInv, Slots
<1>5. DrainedWhileHeld /\ RetiredOnlyIfPinned /\ CallReachesClosure
  BY DEF DrainedWhileHeld, RetiredOnlyIfPinned, CallReachesClosure
<1> QED BY <1>1, <1>2, <1>3, <1>4, <1>5 DEF PoolInv, HandleInv

\* The possible values of a thread's state.
Local == [pc : PCs, h : Handles \cup {None}, m : Magazines \cup {None},
          c : Closures \cup {None}, v : BOOLEAN]

\* A Goto changes the state of one thread.
LEMMA GotoStep ==
  ASSUME TypeOK, NEW t \in Threads, NEW l \in Local, Goto(t, l)
  PROVE  /\ th' \in [Threads -> Local]
         /\ th'[t] = l
         /\ \A u \in Threads \ {t} : th'[u] = th[u]
BY DEF TypeOK, Goto, Local

\* A poll that finds a Handle moves it from its queue to the polling thread.
LEMMA TakeInv ==
  ASSUME PoolInv, NEW t \in Threads, NEW h \in Queued, NEW c \in Closures \cup {None},
         th[t].h = None,
         partialQueue' = partialQueue \ {h}, freeQueue' = freeQueue \ {h},
         Goto(t, At("install", h, None, c, TRUE)),
         UNCHANGED <<magazines, gcVars, slotVars, held, want>>
  PROVE  PoolInv'
<1> USE ClosurePoolAssumption DEF PoolInv, HandleInv, gcVars, slotVars
<1>1. /\ h \in Handles /\ Reachable(h) /\ ~handle[h].disposed
      /\ h \notin held /\ ~InUse(h)
  BY DEF QueueInv, Queued, TypeOK
<1>2. At("install", h, None, c, TRUE) \in Local
  BY <1>1 DEF At, Local, PCs
<1>3. /\ th' \in [Threads -> Local]
      /\ th'[t] = At("install", h, None, c, TRUE)
      /\ \A u \in Threads \ {t} : th'[u] = th[u]
  BY <1>2, GotoStep
<1>4. TypeOK'
  BY <1>3 DEF TypeOK, Local
<1>5. QueueInv'
  BY <1>1, <1>3 DEF QueueInv, Queued, Reachable, InUse, At
<1>6. ThreadInv'
  BY <1>1, <1>3 DEF ThreadInv, Reachable, InUse, Disposing, At
<1>7. HolderInv' /\ OneHolder'
  BY DEF HolderInv, Reachable, OneHolder
<1>8. SlotExclusive'
  BY <1>1, <1>3 DEF SlotExclusive, Owns, Reachable, Queued, At
<1>9. UncreatedInv' /\ DrainedWhileHeld' /\ RetiredOnlyIfPinned' /\ CallReachesClosure'
  BY DEF UncreatedInv, DrainedWhileHeld, RetiredOnlyIfPinned, CallReachesClosure
<1> QED BY <1>4, <1>5, <1>6, <1>7, <1>8, <1>9

\* A step between two points where the thread works on no Handle.
LEMMA MoveInv ==
  ASSUME PoolInv, NEW t \in Threads, NEW l \in Local, Goto(t, l),
         th[t].h = None, l.h = None,
         l.pc \notin {"addMagazine", "install", "setAutoRelease", "resetSlot", "requeue"},
         magazines' \subseteq Magazines,
         UNCHANGED <<partialQueue, freeQueue, gcVars, slotVars, held, want>>
  PROVE  PoolInv'
<1> USE ClosurePoolAssumption DEF PoolInv, HandleInv, gcVars, slotVars
<1>1. /\ th' \in [Threads -> Local]
      /\ th'[t] = l
      /\ \A u \in Threads \ {t} : th'[u] = th[u]
  BY GotoStep
<1>2. TypeOK'
  BY <1>1 DEF TypeOK, Local
<1>3. QueueInv'
  BY <1>1 DEF QueueInv, Queued, Reachable, InUse, TypeOK
<1>4. ThreadInv'
  BY <1>1 DEF ThreadInv, Reachable, Disposing
<1>5. HolderInv' /\ OneHolder'
  BY DEF HolderInv, Reachable, OneHolder
<1>6. SlotExclusive'
  BY <1>1 DEF SlotExclusive, Owns, Reachable, Queued
<1>7. UncreatedInv' /\ DrainedWhileHeld' /\ RetiredOnlyIfPinned' /\ CallReachesClosure'
  BY DEF UncreatedInv, DrainedWhileHeld, RetiredOnlyIfPinned, CallReachesClosure
<1> QED BY <1>2, <1>3, <1>4, <1>5, <1>6, <1>7

\* newClosureHandle begins.
LEMMA NewClosureHandleInv ==
  ASSUME PoolInv, NEW t \in Threads, NEW c \in Closures, NewClosureHandle(t, c)
  PROVE  PoolInv'
<1> USE ClosurePoolAssumption
<1>1. th[t].h = None /\ UNCHANGED <<freeQueue, magazines, gcVars, slotVars, held, want>>
  BY DEF PoolInv, HandleInv, ThreadInv, NewClosureHandle
<1>2. CASE \E h \in partialQueue : /\ partialQueue' = partialQueue \ {h}
                                   /\ Goto(t, At("install", h, None, c, TRUE))
  <2>1. PICK h \in partialQueue : /\ partialQueue' = partialQueue \ {h}
                                  /\ Goto(t, At("install", h, None, c, TRUE))
    BY <1>2
  <2>2. freeQueue' = freeQueue \ {h} /\ h \in Queued
    BY <1>1 DEF PoolInv, HandleInv, QueueInv, Queued
  <2> QED BY <1>1, <2>1, <2>2, TakeInv
<1>3. CASE /\ Goto(t, At("pollFree", None, None, c, TRUE))
           /\ UNCHANGED partialQueue
  <2>1. At("pollFree", None, None, c, TRUE) \in Local
    BY DEF At, Local, PCs
  <2> QED BY <1>1, <1>3, <2>1, MoveInv DEF PoolInv, TypeOK, At
<1> QED BY <1>2, <1>3 DEF NewClosureHandle

\* The polls of the free and of the partial queue inside newClosureHandle and
\* allocateNewHandle.
LEMMA PollInv ==
  ASSUME PoolInv, NEW t \in Threads, NEW q, NEW miss \in PCs,
         th[t].pc \in {"pollFree", "allocPartial", "allocFree"},
         miss \in {"allocPartial", "allocFree", "newMagazine"},
         \/ q = freeQueue /\ Poll(t, q, freeQueue', miss) /\ UNCHANGED partialQueue
         \/ q = partialQueue /\ Poll(t, q, partialQueue', miss) /\ UNCHANGED freeQueue,
         UNCHANGED <<magazines, gcVars, slotVars, held, want>>
  PROVE  PoolInv'
<1> USE ClosurePoolAssumption
<1>1. th[t].h = None /\ th[t].c \in Closures \cup {None}
  BY DEF PoolInv, HandleInv, ThreadInv, TypeOK
<1>2. CASE \E h \in q : Goto(t, At("install", h, None, th[t].c, TRUE)) /\
                          \/ q = freeQueue /\ freeQueue' = q \ {h} /\ UNCHANGED partialQueue
                          \/ q = partialQueue /\ partialQueue' = q \ {h} /\ UNCHANGED freeQueue
  <2>1. PICK h \in q : Goto(t, At("install", h, None, th[t].c, TRUE)) /\
                          \/ q = freeQueue /\ freeQueue' = q \ {h} /\ UNCHANGED partialQueue
                          \/ q = partialQueue /\ partialQueue' = q \ {h} /\ UNCHANGED freeQueue
    BY <1>2
  <2>2. /\ h \in Queued
        /\ freeQueue' = freeQueue \ {h} /\ partialQueue' = partialQueue \ {h}
    BY <2>1 DEF PoolInv, HandleInv, QueueInv, Queued
  <2> QED BY <1>1, <2>1, <2>2, TakeInv
<1>3. CASE /\ Goto(t, At(miss, None, None, th[t].c, TRUE))
           /\ UNCHANGED <<partialQueue, freeQueue>>
  <2>1. At(miss, None, None, th[t].c, TRUE) \in Local
    BY <1>1 DEF At, Local
  <2> QED BY <1>1, <1>3, <2>1, MoveInv DEF PoolInv, TypeOK, At
<1> QED BY <1>2, <1>3 DEF Poll

\* A failed native allocation, and the registration of a new magazine.
LEMMA NewMagazineFailsInv ==
  ASSUME PoolInv, NEW t \in Threads, NewMagazineFails(t)
  PROVE  PoolInv'
<1>1. Idle \in Local /\ Idle.h = None /\ Idle.pc = "idle"
  BY DEF Idle, At, Local, PCs
<1>2. th[t].h = None
  BY DEF PoolInv, HandleInv, ThreadInv, NewMagazineFails
<1> QED BY <1>1, <1>2, MoveInv DEF NewMagazineFails, PoolInv, TypeOK, poolVars

\* magazines.add(m)
LEMMA AddMagazineInv ==
  ASSUME PoolInv, NEW t \in Threads, AddMagazine(t)
  PROVE  PoolInv'
<1> DEFINE l == At("allocPartial", None, None, th[t].c, TRUE)
<1>1. l \in Local /\ l.h = None /\ l.pc = "allocPartial"
  BY DEF PoolInv, TypeOK, At, Local, PCs
<1>2. th[t].h = None
  BY DEF PoolInv, HandleInv, ThreadInv, AddMagazine
<1>3. magazines' \subseteq Magazines
  BY DEF AddMagazine, PoolInv, TypeOK, HandleInv, ThreadInv
<1> HIDE DEF l
<1> QED BY <1>1, <1>2, <1>3, MoveInv DEF AddMagazine, l

\* The polling thread installs the closure: it is the only one to know the
\* Handle, and the Handle is the only owner of the slot.
LEMMA InstallInv ==
  ASSUME PoolInv, NEW t \in Threads, Install(t)
  PROVE  PoolInv'
<1> DEFINE h == th[t].h
<1> USE ClosurePoolAssumption DEF PoolInv, HandleInv, gcVars, poolVars
<1>1. /\ h \in Handles /\ h \notin held /\ h \notin Queued
      /\ Reachable(h) /\ ~handle[h].disposed /\ handle[h].slot \in Slots
      /\ \A u \in Threads : th[u].h = h => u = t
      /\ th[t].c \in Closures \cup {None}
  <2>1. th[t].pc = "install"
    BY DEF Install
  <2>2. /\ h \in Handles /\ h \notin held
        /\ Reachable(h) /\ ~handle[h].disposed
        /\ \A u \in Threads : th[u].h = h => u = t
    BY <2>1 DEF ThreadInv
  <2>3. handle[h].slot \in Slots /\ th[t].c \in Closures \cup {None}
    BY <2>2 DEF TypeOK, Reachable, HandleFields
  <2> QED BY <2>2, <2>3 DEF QueueInv, InUse
<1>2. Idle \in Local /\ Idle.h = None /\ Idle.pc = "idle"
  BY DEF Idle, At, Local, PCs
<1>3. /\ th' \in [Threads -> Local]
      /\ th'[t] = Idle
      /\ \A u \in Threads \ {t} : th'[u] = th[u]
  BY <1>2, GotoStep DEF Install
<1>4. /\ closure' = [closure EXCEPT ![handle[h].slot] = th[t].c]
      /\ want' = [want EXCEPT ![h] = th[t].c]
      /\ held' = held \cup {h}
      /\ UNCHANGED <<partialQueue, freeQueue, magazines, handle, holderOf, mag, created, autorelease>>
  BY DEF Install
<1> HIDE DEF h
<1>5. TypeOK'
  BY <1>1, <1>3, <1>4 DEF TypeOK, Local, NullClosure
<1>6. QueueInv'
  BY <1>1, <1>2, <1>3, <1>4 DEF QueueInv, Queued, Reachable, InUse, TypeOK
<1>7. ThreadInv'
  <2> SUFFICES ASSUME NEW u \in Threads PROVE ThreadInv!(u)'
    BY DEF ThreadInv
  <2>1. CASE u = t
    BY <2>1, <1>2, <1>3 DEF ThreadInv, Disposing
  <2>2. CASE u # t
    BY <2>2, <1>1, <1>2, <1>3, <1>4 DEF ThreadInv, Reachable, Disposing
  <2> QED BY <2>1, <2>2
<1>8. HolderInv' /\ OneHolder'
  BY <1>1, <1>4 DEF HolderInv, Reachable, OneHolder
<1>9. SlotExclusive'
  BY <1>1, <1>2, <1>3, <1>4 DEF SlotExclusive, Owns, Reachable, Queued
<1>10. handle[h].slot[1] \in created
  <2>1. /\ handle[h] \in HandleFields
        /\ holderOf[handle[h].holder] = handle[h].slot[1]
    BY <1>1 DEF HolderInv, Reachable, TypeOK
  <2>2. handle[h].holder \in Holders /\ handle[h].slot[1] \in Magazines
    BY <2>1 DEF HandleFields, Slots
  <2> QED BY <2>1, <2>2 DEF HolderInv
<1>11. UncreatedInv'
  <2> SUFFICES ASSUME NEW m \in Magazines \ created, NEW i \in SlotIdx
               PROVE  autorelease[<<m, i>>] /\ closure'[<<m, i>>] = NullClosure
    BY <1>4 DEF UncreatedInv
  <2>1. <<m, i>> # handle[h].slot /\ <<m, i>> \in Slots
    BY <1>10 DEF Slots
  <2> QED BY <2>1, <1>4 DEF UncreatedInv, TypeOK
<1>12. DrainedWhileHeld' /\ RetiredOnlyIfPinned'
  BY <1>4 DEF DrainedWhileHeld, RetiredOnlyIfPinned
<1>13. CallReachesClosure'
  <2> SUFFICES ASSUME NEW x \in held', ~handle[x].disposed
               PROVE  closure'[handle[x].slot] = want'[x]
    BY <1>4 DEF CallReachesClosure
  <2>1. CASE x = h
    BY <1>1, <1>4, <2>1 DEF TypeOK
  <2>2. CASE x # h
    <3>1. x \in held /\ x \in Handles /\ Reachable(x)
      BY <2>2, <1>4 DEF HolderInv, TypeOK
    <3>2. Owns(x) /\ Owns(h)
      BY <3>1, <1>1 DEF Owns
    <3>3. handle[x].slot # handle[h].slot /\ handle[x].slot \in Slots
      BY <3>1, <3>2, <1>1, <2>2 DEF SlotExclusive, TypeOK, Reachable, HandleFields
    <3> QED BY <3>1, <3>3, <1>1, <1>4, <2>2 DEF CallReachesClosure, TypeOK
  <2> QED BY <2>1, <2>2
<1> QED BY <1>5, <1>6, <1>7, <1>8, <1>9, <1>11, <1>12, <1>13

\* A thread enters setAutoRelease of a Handle the application holds.
LEMMA SetAutoReleaseInv ==
  ASSUME PoolInv, NEW t \in Threads, NEW h \in Handles, NEW v \in BOOLEAN,
         SetAutoRelease(t, h, v)
  PROVE  PoolInv'
<1> DEFINE l == At("setAutoRelease", h, None, None, v)
<1> USE ClosurePoolAssumption DEF PoolInv, HandleInv, gcVars, poolVars, slotVars
<1>1. l \in Local /\ l.h = h /\ l.pc = "setAutoRelease"
  BY DEF At, Local, PCs
<1>2. h \in held /\ h \notin Queued /\ th[t].h = None /\ ~handle[h].disposed
  BY DEF SetAutoRelease, Calls, QueueInv, ThreadInv
<1> HIDE DEF l
<1>3. /\ th' \in [Threads -> Local]
      /\ th'[t] = l
      /\ \A u \in Threads \ {t} : th'[u] = th[u]
  BY <1>1, GotoStep DEF SetAutoRelease, l
<1>4. UNCHANGED <<partialQueue, freeQueue, magazines, handle, holderOf, mag, created,
                  autorelease, closure, held, want>>
  BY DEF SetAutoRelease
<1>5. TypeOK'
  BY <1>3, <1>4 DEF TypeOK, Local
<1>6. QueueInv'
  BY <1>1, <1>2, <1>3, <1>4 DEF QueueInv, Queued, Reachable, InUse
<1>7. ThreadInv'
  BY <1>1, <1>2, <1>3, <1>4 DEF ThreadInv, Reachable, Disposing
<1>8. HolderInv' /\ OneHolder'
  BY <1>4 DEF HolderInv, Reachable, OneHolder
<1>9. SlotExclusive'
  BY <1>1, <1>2, <1>3, <1>4 DEF SlotExclusive, Owns, Reachable, Queued
<1>10. UncreatedInv' /\ DrainedWhileHeld' /\ RetiredOnlyIfPinned' /\ CallReachesClosure'
  BY <1>4 DEF UncreatedInv, DrainedWhileHeld, RetiredOnlyIfPinned, CallReachesClosure
<1> QED BY <1>5, <1>6, <1>7, <1>8, <1>9, <1>10

\* What a reachable Handle refers to: a slot of an existing magazine, whose
\* holder is registered.
LEMMA ReachableSlot ==
  ASSUME PoolInv, NEW h \in Handles, Reachable(h)
  PROVE  /\ handle[h] \in HandleFields
         /\ handle[h].slot \in Slots
         /\ handle[h].slot[1] \in created
         /\ handle[h].holder \in Holders
         /\ holderOf[handle[h].holder] = handle[h].slot[1]
<1> USE ClosurePoolAssumption DEF PoolInv, HandleInv
<1>1. /\ handle[h] \in HandleFields
      /\ holderOf[handle[h].holder] = handle[h].slot[1]
  BY DEF HolderInv, Reachable, TypeOK
<1>2. /\ handle[h].slot \in Slots /\ handle[h].holder \in Holders
      /\ handle[h].slot[1] \in Magazines
  BY <1>1 DEF HandleFields, Slots
<1> QED BY <1>1, <1>2 DEF HolderInv

\* A thread leaves the method it was running.
LEMMA IdleStep ==
  ASSUME TypeOK, NEW t \in Threads, Goto(t, Idle)
  PROVE  /\ th' \in [Threads -> Local]
         /\ th'[t] = Idle /\ Idle.h = None /\ Idle.pc = "idle"
         /\ \A u \in Threads \ {t} : th'[u] = th[u]
<1>1. Idle \in Local /\ Idle.h = None /\ Idle.pc = "idle"
  BY DEF Idle, At, Local, PCs
<1> QED BY <1>1, GotoStep

\* The write of setAutoRelease, possibly after the Handle was disposed of.
LEMMA SetAutoReleaseWriteInv ==
  ASSUME PoolInv, NEW t \in Threads, SetAutoReleaseWrite(t)
  PROVE  PoolInv'
<1> DEFINE h == th[t].h
<1> USE ClosurePoolAssumption DEF PoolInv, HandleInv, gcVars, poolVars
<1>1. h \in held /\ h \in Handles /\ Reachable(h)
  BY DEF SetAutoReleaseWrite, ThreadInv, HolderInv, TypeOK
<1>2. /\ th' \in [Threads -> Local]
      /\ th'[t] = Idle /\ Idle.h = None /\ Idle.pc = "idle"
      /\ \A u \in Threads \ {t} : th'[u] = th[u]
  BY IdleStep DEF SetAutoReleaseWrite
<1>3. /\ autorelease' = [autorelease EXCEPT ![handle[h].slot] = th[t].v]
      /\ UNCHANGED <<partialQueue, freeQueue, magazines, handle, holderOf, mag, created,
                     closure, held, want>>
  BY DEF SetAutoReleaseWrite
<1>4. /\ handle[h].slot \in Slots /\ handle[h].slot[1] \in created
      /\ handle[h].holder \in Holders /\ holderOf[handle[h].holder] = handle[h].slot[1]
  BY <1>1, ReachableSlot
<1>5. th[t].v \in BOOLEAN /\ \A x \in Queued : x # None /\ th[t].pc = "setAutoRelease"
  BY DEF TypeOK, Queued, SetAutoReleaseWrite
<1> HIDE DEF h
<1>6. TypeOK'
  BY <1>2, <1>3, <1>4, <1>5 DEF TypeOK, Local
<1>7. QueueInv'
  BY <1>2, <1>3, <1>5 DEF QueueInv, Queued, Reachable, InUse
<1>8. ThreadInv'
  <2> SUFFICES ASSUME NEW u \in Threads PROVE ThreadInv!(u)'
    BY DEF ThreadInv
  <2>1. CASE u = t
    BY <2>1, <1>2 DEF ThreadInv, Disposing
  <2>2. CASE u # t
    BY <2>2, <1>2, <1>3 DEF ThreadInv, Reachable, Disposing
  <2> QED BY <2>1, <2>2
<1>9. HolderInv' /\ OneHolder' /\ DrainedWhileHeld' /\ CallReachesClosure'
  BY <1>3 DEF HolderInv, Reachable, OneHolder, DrainedWhileHeld, CallReachesClosure
<1>10. SlotExclusive'
  BY <1>2, <1>3 DEF SlotExclusive, Owns, Reachable, Queued
<1>11. UncreatedInv'
  <2> SUFFICES ASSUME NEW m \in Magazines \ created, NEW i \in SlotIdx
               PROVE  autorelease'[<<m, i>>] /\ closure[<<m, i>>] = NullClosure
    BY <1>3 DEF UncreatedInv
  <2>1. <<m, i>> # handle[h].slot /\ <<m, i>> \in Slots
    BY <1>4 DEF Slots
  <2> QED BY <2>1, <1>3 DEF UncreatedInv, TypeOK
<1>12. RetiredOnlyIfPinned'
  <2> SUFFICES ASSUME NEW m \in created, \A ho \in Holders : holderOf[ho] # m,
                      NEW i \in SlotIdx
               PROVE  ~autorelease'[<<m, i>>]
    BY <1>3 DEF RetiredOnlyIfPinned
  <2>1. <<m, i>> # handle[h].slot /\ <<m, i>> \in Slots
    BY <1>4 DEF Slots, TypeOK
  <2> QED BY <2>1, <1>3 DEF RetiredOnlyIfPinned, TypeOK
<1> QED BY <1>6, <1>7, <1>8, <1>9, <1>10, <1>11, <1>12

\* dispose() marks the Handle; the caller now owns the slot in its place.
LEMMA DisposeInv ==
  ASSUME PoolInv, NEW t \in Threads, NEW h \in Handles, Dispose(t, h)
  PROVE  PoolInv'
<1> DEFINE l == At("resetSlot", h, None, None, TRUE)
           r == [slot |-> handle[h].slot, holder |-> handle[h].holder, disposed |-> TRUE]
<1> USE ClosurePoolAssumption DEF PoolInv, HandleInv, gcVars, poolVars, slotVars
<1>1. l \in Local /\ l.h = h /\ l.pc = "resetSlot"
  BY DEF At, Local, PCs
<1>2. /\ h \in held /\ h \notin Queued /\ th[t].h = None /\ ~handle[h].disposed
      /\ th[t].pc = "idle" /\ Reachable(h)
  BY DEF Dispose, Calls, QueueInv, ThreadInv, HolderInv
<1>3. handle[h].slot \in Slots /\ handle[h].holder \in Holders
  BY <1>2, ReachableSlot
<1>4. \A u \in Threads : th[u].h = h => th[u].pc \notin {"resetSlot", "requeue"}
  BY DEF Dispose
<1>5. handle' = [handle EXCEPT ![h] = r]
  BY DEF Dispose
<1>6. r \in HandleFields /\ r.slot = handle[h].slot /\ r.holder = handle[h].holder
      /\ r.disposed = TRUE /\ r # None
  <2>1. r \in HandleFields
    BY <1>3 DEF HandleFields
  <2> QED BY <2>1
<1> HIDE DEF l, r
<1>7. /\ th' \in [Threads -> Local]
      /\ th'[t] = l
      /\ \A u \in Threads \ {t} : th'[u] = th[u]
  BY <1>1, GotoStep DEF Dispose, l
<1>8. UNCHANGED <<partialQueue, freeQueue, magazines, holderOf, mag, created,
                  autorelease, closure, held, want>>
  BY DEF Dispose
<1>9. handle'[h] = r /\ \A x \in Handles \ {h} : handle'[x] = handle[x]
  BY <1>5, <1>6 DEF TypeOK
<1>10. \A u \in Threads : th[u].pc = "install" => th[u].h # h
  BY <1>2 DEF ThreadInv
<1>11. \A x \in Queued : x \in Handles /\ x # h
  BY <1>2 DEF Queued, TypeOK
<1>12. TypeOK'
  BY <1>5, <1>6, <1>7, <1>8 DEF TypeOK, Local
<1>13. QueueInv'
  BY <1>1, <1>7, <1>8, <1>9, <1>11 DEF QueueInv, Queued, Reachable, InUse
<1>14. ThreadInv'
  <2> SUFFICES ASSUME NEW u \in Threads PROVE ThreadInv!(u)'
    BY DEF ThreadInv
  <2>1. CASE u = t
    BY <2>1, <1>1, <1>2, <1>4, <1>6, <1>7, <1>8, <1>9 DEF ThreadInv, Disposing
  <2>2. CASE u # t
    <3>1. th'[u] = th[u] /\ \A v \in Threads : v # t => th'[v] = th[v]
      BY <1>7, <2>2
    <3>2. Disposing(u) => th[u].h # h
      BY <1>4 DEF Disposing
    <3>3. \A x \in Handles : handle[x] # None => handle'[x] # None
      BY <1>6, <1>9
    <3>4. th[u].h \in Handles /\ th[u].h # h => handle'[th[u].h] = handle[th[u].h]
      BY <1>9
    <3>5. th'[t].h = h /\ held' = held /\ created' = created
      BY <1>1, <1>7, <1>8
    <3>6. ThreadInv!(u)
      BY DEF ThreadInv
    <3>7. CASE th[u].pc = "install"
      <4>1. th[u].h \in Handles \ held /\ th[u].h # h
        BY <1>10, <3>6, <3>7
      <4> QED BY <2>2, <3>1, <3>4, <3>5, <3>6, <3>7, <4>1 DEF Reachable, Disposing
    <3>8. CASE th[u].pc # "install"
      <4>1. Disposing(u) => th[u].h \in Handles
        BY <3>6, <1>2 DEF TypeOK
      <4> QED BY <2>2, <3>1, <3>2, <3>4, <3>5, <3>6, <3>8, <4>1 DEF Disposing
    <3> QED BY <3>7, <3>8
  <2> QED BY <2>1, <2>2
<1>15. HolderInv' /\ OneHolder'
  BY <1>2, <1>6, <1>8, <1>9 DEF HolderInv, Reachable, OneHolder, TypeOK
<1>16. SlotExclusive'
  <2>1. \A x \in Handles : Owns(x)' => Owns(x) /\ handle'[x].slot = handle[x].slot
    BY <1>1, <1>2, <1>6, <1>7, <1>8, <1>9 DEF Owns, Reachable, Queued
  <2> QED BY <2>1 DEF SlotExclusive
<1>17. UncreatedInv' /\ DrainedWhileHeld' /\ RetiredOnlyIfPinned'
  BY <1>8 DEF UncreatedInv, DrainedWhileHeld, RetiredOnlyIfPinned
<1>18. CallReachesClosure'
  BY <1>6, <1>8, <1>9 DEF CallReachesClosure, TypeOK, HolderInv
<1> QED BY <1>12, <1>13, <1>14, <1>15, <1>16, <1>17, <1>18

\* dispose() resets the slot.  No Handle but the disposed one owns it, so no
\* closure that is still in use is cleared.
LEMMA DisposeResetSlotInv ==
  ASSUME PoolInv, NEW t \in Threads, DisposeResetSlot(t)
  PROVE  PoolInv'
<1> DEFINE h == th[t].h
           l == At("requeue", h, None, None, TRUE)
<1> USE ClosurePoolAssumption DEF PoolInv, HandleInv, gcVars, poolVars
<1>1. /\ h \in held /\ h \in Handles /\ Reachable(h) /\ handle[h].disposed
      /\ Disposing(t) /\ \A u \in Threads : Disposing(u) /\ th[u].h = h => u = t
  BY DEF DisposeResetSlot, ThreadInv, HolderInv, TypeOK, Disposing
<1>2. l \in Local /\ l.h = h /\ l.pc = "requeue"
  BY <1>1 DEF At, Local, PCs
<1>3. /\ handle[h].slot \in Slots /\ handle[h].slot[1] \in created
      /\ handle[h].holder \in Holders /\ holderOf[handle[h].holder] = handle[h].slot[1]
  BY <1>1, ReachableSlot
<1>4. /\ autorelease' = [autorelease EXCEPT ![handle[h].slot] = TRUE]
      /\ closure' = [closure EXCEPT ![handle[h].slot] = NullClosure]
      /\ UNCHANGED <<partialQueue, freeQueue, magazines, handle, holderOf, mag, created,
                     held, want>>
  BY DEF DisposeResetSlot
<1>5. /\ th' \in [Threads -> Local]
      /\ th'[t] = l
      /\ \A u \in Threads \ {t} : th'[u] = th[u]
  BY <1>2, GotoStep DEF DisposeResetSlot
<1>6. Owns(h)
  BY <1>1 DEF Owns, Disposing
<1>7. th[t].h = h
  OBVIOUS
<1> HIDE DEF h, l
<1>8. TypeOK'
  BY <1>3, <1>4, <1>5 DEF TypeOK, Local
<1>9. QueueInv'
  BY <1>2, <1>4, <1>5, <1>7 DEF QueueInv, Queued, Reachable, InUse
<1>10. ThreadInv'
  <2> SUFFICES ASSUME NEW u \in Threads PROVE ThreadInv!(u)'
    BY DEF ThreadInv
  <2>1. CASE u = t
    BY <2>1, <1>1, <1>2, <1>4, <1>5 DEF ThreadInv, Disposing
  <2>2. CASE u # t
    BY <2>2, <1>1, <1>2, <1>4, <1>5, <1>7 DEF ThreadInv, Reachable, Disposing
  <2> QED BY <2>1, <2>2
<1>11. HolderInv' /\ OneHolder' /\ DrainedWhileHeld'
  BY <1>4 DEF HolderInv, Reachable, OneHolder, DrainedWhileHeld
<1>12. SlotExclusive'
  <2>1. \A x \in Handles : Owns(x)' => Owns(x)
    BY <1>2, <1>4, <1>5, <1>6 DEF Owns, Reachable, Queued
  <2> QED BY <2>1, <1>4 DEF SlotExclusive
<1>13. UncreatedInv'
  <2> SUFFICES ASSUME NEW m \in Magazines \ created, NEW i \in SlotIdx
               PROVE  autorelease'[<<m, i>>] /\ closure'[<<m, i>>] = NullClosure
    BY <1>4 DEF UncreatedInv
  <2>1. <<m, i>> # handle[h].slot /\ <<m, i>> \in Slots
    BY <1>3 DEF Slots
  <2> QED BY <2>1, <1>4 DEF UncreatedInv, TypeOK
<1>14. RetiredOnlyIfPinned'
  <2> SUFFICES ASSUME NEW m \in created, \A ho \in Holders : holderOf[ho] # m,
                      NEW i \in SlotIdx
               PROVE  ~autorelease'[<<m, i>>]
    BY <1>4 DEF RetiredOnlyIfPinned
  <2>1. <<m, i>> # handle[h].slot /\ <<m, i>> \in Slots
    BY <1>3 DEF Slots, TypeOK
  <2> QED BY <2>1, <1>4 DEF RetiredOnlyIfPinned, TypeOK
<1>15. CallReachesClosure'
  <2> SUFFICES ASSUME NEW x \in held, ~handle[x].disposed
               PROVE  closure'[handle[x].slot] = want[x]
    BY <1>4 DEF CallReachesClosure
  <2>1. x \in Handles /\ Reachable(x) /\ Owns(x)
    BY DEF HolderInv, TypeOK, Owns
  <2>2. handle[x].slot # handle[h].slot /\ handle[x].slot \in Slots
    BY <1>1, <1>6, <2>1, ReachableSlot DEF SlotExclusive
  <2> QED BY <2>2, <1>4 DEF CallReachesClosure, TypeOK
<1> QED BY <1>8, <1>9, <1>10, <1>11, <1>12, <1>13, <1>14, <1>15

\* A new Handle for the slot of a disposed one takes over its ownership.
LEMMA DisposeRequeueInv ==
  ASSUME PoolInv, NEW t \in Threads, DisposeRequeue(t)
  PROVE  PoolInv'
<1> DEFINE d == th[t].h
           r == [slot |-> handle[d].slot, holder |-> handle[d].holder, disposed |-> FALSE]
<1> USE ClosurePoolAssumption DEF PoolInv, HandleInv, slotVars
<1>1. /\ d \in held /\ d \in Handles /\ Reachable(d) /\ handle[d].disposed
      /\ Disposing(t) /\ \A u \in Threads : Disposing(u) /\ th[u].h = d => u = t
  BY DEF DisposeRequeue, ThreadInv, HolderInv, TypeOK, Disposing
<1>2. /\ handle[d].slot \in Slots /\ handle[d].slot[1] \in created
      /\ handle[d].holder \in Holders /\ holderOf[handle[d].holder] = handle[d].slot[1]
  BY <1>1, ReachableSlot
<1>3. PICK h \in Handles : /\ ~Reachable(h)
                           /\ handle' = [handle EXCEPT ![h] = r]
                           /\ partialQueue' = partialQueue \cup {h}
  BY DEF DisposeRequeue
<1>4. /\ r \in HandleFields /\ r.slot = handle[d].slot /\ r.holder = handle[d].holder
      /\ r.disposed = FALSE /\ r # None
  <2>1. r \in HandleFields
    BY <1>2 DEF HandleFields
  <2> QED BY <2>1
<1>5. UNCHANGED <<freeQueue, magazines, holderOf, mag, created, autorelease, closure,
                  held, want>>
  BY DEF DisposeRequeue
<1>6. /\ th' \in [Threads -> Local]
      /\ th'[t] = Idle /\ Idle.h = None /\ Idle.pc = "idle"
      /\ \A u \in Threads \ {t} : th'[u] = th[u]
  BY IdleStep DEF DisposeRequeue
<1>7. Owns(d) /\ th[t].h = d
  BY <1>1 DEF Owns, Disposing
<1> HIDE DEF d, r
<1>8. handle'[h] = r /\ \A x \in Handles \ {h} : handle'[x] = handle[x]
  BY <1>3 DEF TypeOK
<1>9. h \notin held /\ h \notin Queued /\ ~InUse(h) /\ h # None /\ h # d
  <2>1. h \notin held /\ h \notin Queued /\ h # d
    BY <1>1, <1>3 DEF HolderInv, QueueInv
  <2>2. ~InUse(h)
    BY <2>1, <1>3 DEF InUse, ThreadInv, Disposing
  <2> QED BY <2>1, <2>2
<1>10. TypeOK'
  BY <1>3, <1>4, <1>5, <1>6 DEF TypeOK, Local
<1>11. QueueInv'
  BY <1>3, <1>4, <1>5, <1>6, <1>8, <1>9 DEF QueueInv, Queued, Reachable, InUse, TypeOK
<1>12. ThreadInv'
  <2> SUFFICES ASSUME NEW u \in Threads PROVE ThreadInv!(u)'
    BY DEF ThreadInv
  <2>1. CASE u = t
    BY <2>1, <1>6 DEF ThreadInv, Disposing
  <2>2. CASE u # t
    <3>1. th'[u] = th[u] /\ th[u].h # h
      BY <2>2, <1>6, <1>9 DEF InUse
    <3>2. th[u].h \in Handles => handle'[th[u].h] = handle[th[u].h]
      BY <3>1, <1>8
    <3>3. \A x \in held : x \in Handles
      BY DEF TypeOK
    <3> QED BY <2>2, <3>1, <3>2, <3>3, <1>5, <1>6 DEF ThreadInv, Reachable, Disposing
  <2> QED BY <2>1, <2>2
<1>13. HolderInv' /\ OneHolder'
  BY <1>2, <1>4, <1>5, <1>8, <1>9 DEF HolderInv, Reachable, OneHolder, TypeOK
<1>14. SlotExclusive'
  <2>1. \A x \in Handles \ {h} : Owns(x)' => x # d /\ Owns(x) /\ handle'[x].slot = handle[x].slot
    BY <1>1, <1>3, <1>5, <1>6, <1>7, <1>8, <1>9 DEF Owns, Reachable, Queued, QueueInv, Disposing
  <2>2. \A x \in Handles \ {h} : Owns(x)' => handle'[x].slot # handle'[h].slot
    BY <2>1, <1>1, <1>4, <1>7, <1>8 DEF SlotExclusive
  <2> QED BY <2>1, <2>2 DEF SlotExclusive
<1>15. UncreatedInv' /\ DrainedWhileHeld' /\ RetiredOnlyIfPinned'
  BY <1>5 DEF UncreatedInv, DrainedWhileHeld, RetiredOnlyIfPinned
<1>16. CallReachesClosure'
  BY <1>5, <1>8, <1>9 DEF CallReachesClosure, TypeOK
<1> QED BY <1>10, <1>11, <1>12, <1>13, <1>14, <1>15, <1>16

\* Forgetting a Handle leaves everybody else's alone.
LEMMA DropInv ==
  ASSUME PoolInv, NEW h \in Handles, Drop(h)
  PROVE  PoolInv'
<1> USE ClosurePoolAssumption DEF PoolInv, HandleInv, poolVars, slotVars
<1>1. h \in held /\ h \notin Queued /\ ~InUse(h)
  BY DEF Drop, QueueInv
<1>2. /\ handle' = [handle EXCEPT ![h] = None]
      /\ want' = [want EXCEPT ![h] = None]
      /\ held' = held \ {h}
      /\ UNCHANGED <<partialQueue, freeQueue, magazines, holderOf, mag, created,
                     autorelease, closure, th>>
  BY DEF Drop
<1>3. handle'[h] = None /\ \A x \in Handles \ {h} : handle'[x] = handle[x] /\ want'[x] = want[x]
  BY <1>2 DEF TypeOK
<1>4. TypeOK'
  BY <1>2 DEF TypeOK
<1>5. QueueInv'
  BY <1>1, <1>2, <1>3 DEF QueueInv, Queued, Reachable, InUse, TypeOK
<1>6. ThreadInv'
  BY <1>1, <1>2, <1>3 DEF ThreadInv, Reachable, Disposing, InUse, TypeOK
<1>7. HolderInv' /\ OneHolder'
  BY <1>2, <1>3 DEF HolderInv, Reachable, OneHolder, TypeOK
<1>8. SlotExclusive'
  <2>1. \A x \in Handles : Owns(x)' => x # h /\ Owns(x) /\ handle'[x].slot = handle[x].slot
    BY <1>2, <1>3 DEF Owns, Reachable, Queued
  <2> QED BY <2>1 DEF SlotExclusive
<1>9. UncreatedInv' /\ DrainedWhileHeld' /\ RetiredOnlyIfPinned'
  BY <1>2 DEF UncreatedInv, DrainedWhileHeld, RetiredOnlyIfPinned
<1>10. CallReachesClosure'
  BY <1>2, <1>3 DEF CallReachesClosure, TypeOK
<1> QED BY <1>4, <1>5, <1>6, <1>7, <1>8, <1>9, <1>10

(***************************************************************************)
(* useMagazine.  The magazine has no registered holder on entry (hs), so   *)
(* no reachable Handle refers to one of its slots.                         *)
(***************************************************************************)
LEMMA UseMagazineInv ==
  ASSUME PoolInv, NEW m \in Magazines, NEW g, NEW hs \in [Holders -> Magazines \cup {None}],
         g = [next |-> 0, freeCount |-> Cardinality(AutoIdx(m, autorelease))],
         \A ho \in Holders : hs[ho] = IF holderOf[ho] = m THEN None ELSE holderOf[ho],
         \A h \in Handles : Reachable(h) => /\ handle[h].slot[1] # m
                                            /\ hs[handle[h].holder] = handle[h].slot[1],
         UseMagazine(m, g, hs),
         th' \in [Threads -> Local],
         \A t \in Threads : th'[t].h = th[t].h,
         \A t \in Threads : \/ th'[t] = th[t]
                            \/ /\ th[t].h = None
                               /\ th'[t].pc = "addMagazine" /\ th'[t].m \in created',
         created' = created \cup {m}, magazines' \subseteq Magazines,
         autorelease' = autorelease, closure' \in [Slots -> Closures \cup {NullClosure}],
         \A s \in Slots : s[1] # m => closure'[s] = closure[s],
         UNCHANGED <<held, want>>
  PROVE  PoolInv'
<1> USE ClosurePoolAssumption DEF PoolInv, HandleInv
<1> DEFINE S == {s \in {m} \X SlotIdx : autorelease[s]}
<1>1. Get(m, g, autorelease) = S /\ Drained(m, g, autorelease) = [next |-> N, freeCount |-> 0]
  BY GetTakesAll DEF TypeOK
<1>2. PICK ho \in {x \in Holders : hs[x] = None},
           fresh \in SUBSET {h \in Handles : ~Reachable(h)} :
        \E f \in Bijection(fresh, Get(m, g, autorelease)) :
          /\ holderOf' = [hs EXCEPT ![ho] = m]
          /\ handle' = NewHandles(fresh, f, ho)
          /\ mag' = [mag EXCEPT ![m] = Drained(m, g, autorelease)]
          /\ Publish(g, fresh)
  BY DEF UseMagazine
<1>3. PICK f \in Bijection(fresh, Get(m, g, autorelease)) :
          /\ holderOf' = [hs EXCEPT ![ho] = m]
          /\ handle' = NewHandles(fresh, f, ho)
          /\ mag' = [mag EXCEPT ![m] = Drained(m, g, autorelease)]
          /\ Publish(g, fresh)
  BY <1>2
<1>4. f \in [fresh -> S] /\ \A a, b \in fresh : f[a] = f[b] => a = b
  BY <1>1 DEF Bijection, Injection, IsInjective
<1>5. \A s \in S : s \in Slots /\ s[1] = m
  BY DEF Slots
<1> HIDE DEF S
<1>6. \A h \in fresh : /\ handle'[h] \in HandleFields
                       /\ handle'[h] # None
                       /\ handle'[h].slot = f[h] /\ handle'[h].slot \in Slots
                       /\ handle'[h].slot[1] = m
                       /\ handle'[h].holder = ho /\ handle'[h].disposed = FALSE
  <2> SUFFICES ASSUME NEW h \in fresh
               PROVE  /\ handle'[h] \in HandleFields
                      /\ handle'[h] # None
                      /\ handle'[h].slot = f[h] /\ handle'[h].slot \in Slots
                      /\ handle'[h].slot[1] = m
                      /\ handle'[h].holder = ho /\ handle'[h].disposed = FALSE
    OBVIOUS
  <2>1. handle'[h] = [slot |-> f[h], holder |-> ho, disposed |-> FALSE]
    BY <1>3 DEF NewHandles
  <2>2. f[h] \in Slots /\ f[h][1] = m
    BY <1>4, <1>5
  <2>3. handle'[h] \in HandleFields
    BY <2>1, <2>2 DEF HandleFields
  <2>4. handle'[h] # None
    BY <2>3
  <2> QED BY <2>1, <2>2, <2>3, <2>4
<1>7. \A h \in Handles \ fresh : handle'[h] = handle[h]
  BY <1>3 DEF NewHandles
<1>8. \A h \in fresh : h \notin held /\ h \notin Queued /\ ~InUse(h) /\ h # None
  <2>1. \A h \in fresh : h \notin held /\ h \notin Queued /\ h # None
    BY <1>2 DEF HolderInv, QueueInv
  <2> QED BY <2>1, <1>2 DEF InUse, ThreadInv, Disposing
<1>9. \/ freeQueue' = freeQueue \cup fresh /\ partialQueue' = partialQueue
      \/ partialQueue' = partialQueue \cup fresh /\ freeQueue' = freeQueue
  BY <1>3 DEF Publish
<1>10. holderOf'[ho] = m /\ \A x \in Holders \ {ho} : holderOf'[x] = hs[x]
  BY <1>3
<1>11. TypeOK'
  <2>1. mag' \in [Magazines -> [next : 0 .. N, freeCount : Nat]]
    BY <1>1, <1>3 DEF TypeOK
  <2>2. handle' \in [Handles -> HandleFields \cup {None}]
    BY <1>3, <1>6, <1>7 DEF TypeOK, NewHandles
  <2>3. holderOf' \in [Holders -> Magazines \cup {None}]
    BY <1>3
  <2> QED BY <2>1, <2>2, <2>3, <1>9 DEF TypeOK, Local
<1>12. QueueInv'
  <2>1. Queued' = Queued \cup fresh /\ partialQueue' \cap freeQueue' = {}
    BY <1>8, <1>9 DEF Queued, QueueInv
  <2>2. \A h \in Handles : InUse(h)' <=> InUse(h)
    BY DEF InUse
  <2>3. \A h \in Queued : h \in Handles \ fresh
    BY <1>8 DEF TypeOK, Queued
  <2> QED BY <1>6, <1>7, <1>8, <2>1, <2>2, <2>3 DEF QueueInv, Reachable
<1>13. ThreadInv'
  <2> SUFFICES ASSUME NEW u \in Threads PROVE ThreadInv!(u)'
    BY DEF ThreadInv
  <2>1. CASE th'[u] = th[u]
    <3>1. th[u].h \in Handles => handle'[th[u].h] = handle[th[u].h]
      BY <1>7, <1>8 DEF InUse
    <3>2. \A v \in Threads : Disposing(v)' => Disposing(v)
      BY DEF Disposing
    <3>3. \A x \in held : x \in Handles
      BY DEF TypeOK
    <3>4. Disposing(u)' <=> Disposing(u)
      BY <2>1 DEF Disposing
    <3>5. th[u].pc = "addMagazine" => th[u].m \in created'
      BY DEF ThreadInv
    <3> QED BY <2>1, <3>1, <3>2, <3>3, <3>4, <3>5 DEF ThreadInv, Reachable
  <2>2. CASE th[u].h = None /\ th'[u].pc = "addMagazine" /\ th'[u].m \in created'
    BY <2>2 DEF ThreadInv, Disposing
  <2> QED BY <2>1, <2>2
<1>14. HolderInv'
  <2>1. \A h \in held' : Reachable(h)'
    BY <1>7, <1>8 DEF HolderInv, Reachable, TypeOK
  <2>2. ASSUME NEW h \in Handles, Reachable(h)'
        PROVE  holderOf'[handle'[h].holder] = handle'[h].slot[1]
    <3>1. CASE h \in fresh
      BY <3>1, <1>6, <1>10
    <3>2. CASE h \notin fresh
      <4>1. Reachable(h) /\ handle'[h] = handle[h]
        BY <3>2, <2>2, <1>7 DEF Reachable
      <4>2. handle[h].holder \in Holders /\ handle[h].slot[1] \in created
        BY <4>1, ReachableSlot
      <4>3. handle[h].holder # ho
        BY <4>1, <4>2, <1>2 DEF TypeOK
      <4> QED BY <4>1, <4>2, <4>3, <1>10
    <3> QED BY <3>1, <3>2
  <2>3. \A x \in Holders : holderOf'[x] \in created' \cup {None}
    BY <1>10 DEF HolderInv
  <2> QED BY <2>1, <2>2, <2>3 DEF HolderInv
<1>15. OneHolder'
  <2>1. \A x \in Holders : hs[x] # None => hs[x] = holderOf[x]
    OBVIOUS
  <2>2. \A x, y \in Holders : hs[x] = hs[y] /\ hs[x] # None => x = y
    BY <2>1 DEF OneHolder
  <2> QED BY <2>2, <1>10 DEF OneHolder
<1>16. SlotExclusive'
  <2>1. \A x \in Handles \ fresh : Owns(x)' => /\ Owns(x) /\ handle'[x].slot = handle[x].slot
                                              /\ handle'[x].slot[1] # m
    <3> SUFFICES ASSUME NEW x \in Handles \ fresh, Owns(x)'
                 PROVE  Owns(x) /\ handle'[x].slot = handle[x].slot /\ handle'[x].slot[1] # m
      OBVIOUS
    <3>1. handle'[x] = handle[x] /\ Reachable(x)
      BY <1>7 DEF Owns, Reachable
    <3>2. x \in Queued' => x \in Queued
      BY <1>9 DEF Queued
    <3>3. \A t \in Threads : th'[t].h = x /\ th'[t].pc \in {"resetSlot", "requeue"}
                               => th[t].h = x /\ th[t].pc \in {"resetSlot", "requeue"}
      OBVIOUS
    <3> QED BY <3>1, <3>2, <3>3 DEF Owns
  <2>2. ASSUME NEW a \in Handles, NEW b \in Handles, Owns(a)', Owns(b)',
               handle'[a].slot = handle'[b].slot
        PROVE  a = b
    <3>1. CASE a \in fresh /\ b \in fresh
      BY <3>1, <2>2, <1>4, <1>6
    <3>2. CASE a \notin fresh /\ b \notin fresh
      BY <3>2, <2>1, <2>2 DEF SlotExclusive
    <3>3. CASE (a \in fresh) # (b \in fresh)
      BY <3>3, <2>1, <2>2, <1>6
    <3> QED BY <3>1, <3>2, <3>3
  <2> QED BY <2>2 DEF SlotExclusive
<1>17. UncreatedInv'
  <2> SUFFICES ASSUME NEW n \in Magazines \ created', NEW i \in SlotIdx
               PROVE  autorelease[<<n, i>>] /\ closure'[<<n, i>>] = NullClosure
    BY DEF UncreatedInv
  <2>1. <<n, i>> \in Slots /\ <<n, i>>[1] # m
    BY DEF Slots
  <2> QED BY <2>1 DEF UncreatedInv
<1>18. DrainedWhileHeld'
  <2>1. mag'[m].freeCount = 0 /\ \A n \in Magazines \ {m} : mag'[n] = mag[n]
    BY <1>1, <1>3 DEF TypeOK
  <2>2. \A x \in Holders \ {ho} : holderOf'[x] # None =>
            holderOf[x] = holderOf'[x] /\ holderOf[x] \in Magazines \ {m}
    BY <1>10
  <2> QED BY <2>1, <2>2, <1>10 DEF DrainedWhileHeld
<1>19. RetiredOnlyIfPinned'
  <2> SUFFICES ASSUME NEW n \in created', \A x \in Holders : holderOf'[x] # n,
                      NEW i \in SlotIdx
               PROVE  ~autorelease[<<n, i>>]
    BY DEF RetiredOnlyIfPinned
  <2>1. n # m /\ n \in created
    BY <1>10
  <2>2. \A x \in Holders : holderOf[x] # n
    BY <2>1, <1>2, <1>10 DEF TypeOK
  <2> QED BY <2>1, <2>2 DEF RetiredOnlyIfPinned
<1>20. CallReachesClosure'
  <2> SUFFICES ASSUME NEW h \in held, ~handle'[h].disposed
               PROVE  closure'[handle'[h].slot] = want[h]
    BY DEF CallReachesClosure
  <2>1. h \in Handles \ fresh /\ Reachable(h) /\ handle'[h] = handle[h]
    BY <1>7, <1>8 DEF TypeOK, HolderInv
  <2>2. handle[h].slot \in Slots /\ handle[h].slot[1] # m
    BY <2>1, ReachableSlot
  <2> QED BY <2>1, <2>2 DEF CallReachesClosure
<1> QED BY <1>11, <1>12, <1>13, <1>14, <1>15, <1>16, <1>17, <1>18, <1>19, <1>20

\* A new magazine: all of its N slots are untouched.
LEMMA NewMagazineInv ==
  ASSUME PoolInv, NEW t \in Threads, NewMagazine(t)
  PROVE  PoolInv'
<1> USE ClosurePoolAssumption
<1>1. PICK m \in Magazines \ created :
        /\ created' = created \cup {m}
        /\ UseMagazine(m, [next |-> 0, freeCount |-> N], holderOf)
        /\ Goto(t, At("addMagazine", None, m, th[t].c, TRUE))
  BY DEF NewMagazine
<1> DEFINE l == At("addMagazine", None, m, th[t].c, TRUE)
           g == [next |-> 0, freeCount |-> N]
<1>2. l \in Local /\ l.h = None /\ l.pc = "addMagazine" /\ l.m = m
  BY DEF At, Local, PCs, PoolInv, TypeOK
<1>3. th[t].h = None
  BY DEF PoolInv, HandleInv, ThreadInv, NewMagazine
<1>4. g = [next |-> 0, freeCount |-> Cardinality(AutoIdx(m, autorelease))]
  <2>1. AutoIdx(m, autorelease) = SlotIdx
    BY DEF AutoIdx, PoolInv, UncreatedInv
  <2>2. Cardinality(SlotIdx) = N
    BY FS_Interval DEF SlotIdx
  <2> QED BY <2>1, <2>2
<1>5. \A h \in Handles : Reachable(h) => /\ handle[h].slot[1] # m
                                         /\ holderOf[handle[h].holder] = handle[h].slot[1]
  BY ReachableSlot
<1>6. \A ho \in Holders : holderOf[ho] = IF holderOf[ho] = m THEN None ELSE holderOf[ho]
  BY DEF PoolInv, HandleInv, HolderInv
<1> HIDE DEF l, g
<1>7. /\ th' \in [Threads -> Local]
      /\ th'[t] = l
      /\ \A u \in Threads \ {t} : th'[u] = th[u]
  BY <1>1, <1>2, GotoStep DEF PoolInv, l
<1>8. /\ \A u \in Threads : th'[u].h = th[u].h
      /\ \A u \in Threads : \/ th'[u] = th[u]
                            \/ /\ th[u].h = None
                               /\ th'[u].pc = "addMagazine" /\ th'[u].m \in created'
  BY <1>1, <1>2, <1>3, <1>7
<1>9. UNCHANGED <<magazines, autorelease, closure, held, want>>
  BY DEF NewMagazine, slotVars
<1>10. /\ holderOf \in [Holders -> Magazines \cup {None}] /\ magazines' \subseteq Magazines
       /\ closure' \in [Slots -> Closures \cup {NullClosure}]
  BY <1>9 DEF PoolInv, TypeOK
<1>11. UseMagazine(m, g, holderOf)
  BY <1>1 DEF g
<1> QED BY <1>1, <1>4, <1>5, <1>6, <1>7, <1>8, <1>9, <1>10, <1>11, UseMagazineInv

\* The Cleaner recycles a magazine of which no Handle is reachable: either it
\* goes back to a queue, or all of its slots are pinned and it is given up.
LEMMA RecycleInv ==
  ASSUME PoolInv, NEW ho \in Holders, Recycle(ho)
  PROVE  PoolInv'
<1> DEFINE m == holderOf[ho]
           g == Recycled(m)
           hs == [holderOf EXCEPT ![ho] = None]
<1> USE ClosurePoolAssumption
<1>1. m \in created /\ m \in Magazines
  BY DEF PoolInv, HandleInv, HolderInv, TypeOK, Recycle
<1>2. \A h \in Handles : Reachable(h) => /\ handle[h].slot[1] # m
                                         /\ hs[handle[h].holder] = handle[h].slot[1]
  <2> SUFFICES ASSUME NEW h \in Handles, Reachable(h)
               PROVE  /\ handle[h].slot[1] # m
                      /\ hs[handle[h].holder] = handle[h].slot[1]
    OBVIOUS
  <2>1. handle[h].holder \in Holders /\ holderOf[handle[h].holder] = handle[h].slot[1]
    BY ReachableSlot
  <2>2. handle[h].holder # ho
    BY DEF Recycle, HolderUnreachable
  <2> QED BY <1>1, <2>1, <2>2 DEF PoolInv, HandleInv, OneHolder, TypeOK
<1>3. \A x \in Holders : hs[x] = IF holderOf[x] = m THEN None ELSE holderOf[x]
  BY <1>1 DEF PoolInv, HandleInv, OneHolder, TypeOK
<1>4. hs \in [Holders -> Magazines \cup {None}]
  BY DEF PoolInv, TypeOK
<1>5. /\ closure' \in [Slots -> Closures \cup {NullClosure}]
      /\ \A s \in Slots : s[1] # m => closure'[s] = closure[s]
  BY DEF Recycle, ClearedClosures, PoolInv, TypeOK
<1>6. UNCHANGED <<created, autorelease, held, want, th>>
  BY DEF Recycle
<1>7. g = [next |-> 0, freeCount |-> Cardinality(AutoIdx(m, autorelease))]
      /\ IsFiniteSet(AutoIdx(m, autorelease)) /\ Cardinality(AutoIdx(m, autorelease)) \in Nat
  <2>1. mag[m].freeCount = 0
    BY <1>1 DEF PoolInv, DrainedWhileHeld
  <2>2. IsFiniteSet(SlotIdx) /\ AutoIdx(m, autorelease) \in SUBSET SlotIdx
    BY FS_Interval DEF SlotIdx, AutoIdx
  <2>3. IsFiniteSet(AutoIdx(m, autorelease)) /\ Cardinality(AutoIdx(m, autorelease)) \in Nat
    BY <2>2, FS_Subset, FS_CardinalityType
  <2> QED BY <2>1, <2>3 DEF Recycled, AutoIdx
<1>8. th' \in [Threads -> Local]
  BY <1>6 DEF PoolInv, TypeOK, Local
<1>9. CASE UseMagazine(m, g, hs) /\ UNCHANGED magazines
  <2>1. created' = created \cup {m} /\ magazines' \subseteq Magazines
    BY <1>1, <1>6, <1>9 DEF PoolInv, TypeOK
  <2> HIDE DEF m, g, hs
  <2> QED BY <1>1, <1>2, <1>3, <1>4, <1>5, <1>6, <1>7, <1>8, <1>9, <2>1, UseMagazineInv
<1>10. CASE /\ IsEmpty(g)
            /\ magazines' = magazines \ {m}
            /\ holderOf' = hs
            /\ mag' = [mag EXCEPT ![m] = g]
            /\ UNCHANGED <<handle, partialQueue, freeQueue>>
  <2> USE DEF HandleInv
  <2>1. g = [next |-> 0, freeCount |-> 0] /\ AutoIdx(m, autorelease) = {}
    BY <1>7, <1>10, FS_EmptySet DEF IsEmpty
  <2>2. closure' = closure
    <3>1. \A s \in Slots : s[1] = m => ~autorelease[s]
      BY <2>1 DEF AutoIdx, Slots
    <3> QED BY <3>1 DEF Recycle, ClearedClosures, PoolInv, TypeOK
  <2> HIDE DEF m, g, hs
  <2>3. TypeOK'
    <3>1. g \in [next : 0 .. N, freeCount : Nat]
      BY <2>1
    <3>2. mag' \in [Magazines -> [next : 0 .. N, freeCount : Nat]]
      BY <1>10, <3>1 DEF PoolInv, TypeOK
    <3> QED BY <1>4, <1>6, <1>10, <2>2, <3>2 DEF PoolInv, TypeOK
  <2>4. QueueInv' /\ ThreadInv' /\ SlotExclusive'
    BY <1>6, <1>10 DEF PoolInv, QueueInv, Queued, Reachable, InUse, ThreadInv, Disposing,
                       SlotExclusive, Owns
  <2>5. HolderInv'
    BY <1>2, <1>3, <1>6, <1>10 DEF PoolInv, HolderInv, Reachable
  <2>6. OneHolder'
    BY <1>3, <1>10 DEF PoolInv, OneHolder
  <2>7. UncreatedInv' /\ CallReachesClosure'
    BY <1>6, <1>10, <2>2 DEF PoolInv, UncreatedInv, CallReachesClosure
  <2>8. DrainedWhileHeld'
    BY <1>1, <1>3, <1>4, <1>10, <2>1 DEF PoolInv, DrainedWhileHeld, TypeOK
  <2>9. RetiredOnlyIfPinned'
    <3> SUFFICES ASSUME NEW n \in created, \A x \in Holders : holderOf'[x] # n,
                        NEW i \in SlotIdx
                 PROVE  ~autorelease[<<n, i>>]
      BY <1>6 DEF RetiredOnlyIfPinned
    <3>1. CASE n = m
      BY <3>1, <2>1 DEF AutoIdx
    <3>2. CASE n # m
      BY <3>2, <1>3, <1>10 DEF PoolInv, RetiredOnlyIfPinned
    <3> QED BY <3>1, <3>2
  <2> QED BY <2>3, <2>4, <2>5, <2>6, <2>7, <2>8, <2>9 DEF PoolInv
<1> QED BY <1>9, <1>10 DEF Recycle

\* One step of the pool preserves the invariant.
LEMMA NextInv == PoolInv /\ [Next]_vars => PoolInv'
<1> SUFFICES ASSUME PoolInv, [Next]_vars PROVE PoolInv'
  OBVIOUS
<1>1. CASE \E t \in Threads : ThreadStep(t)
  <2>1. PICK t \in Threads : ThreadStep(t)
    BY <1>1
  <2>2. ASSUME NEW c \in Closures, NewClosureHandle(t, c) PROVE PoolInv'
    BY <2>2, NewClosureHandleInv
  <2>3. CASE PollFree(t)
    BY <2>3, PollInv DEF PollFree, PCs
  <2>4. CASE AllocPollPartial(t)
    BY <2>4, PollInv DEF AllocPollPartial, PCs
  <2>5. CASE AllocPollFree(t)
    BY <2>5, PollInv DEF AllocPollFree, PCs
  <2>6. CASE NewMagazine(t) \/ NewMagazineFails(t) \/ AddMagazine(t)
    BY <2>6, NewMagazineInv, NewMagazineFailsInv, AddMagazineInv
  <2>7. CASE Install(t) \/ SetAutoReleaseWrite(t)
    BY <2>7, InstallInv, SetAutoReleaseWriteInv
  <2>8. ASSUME NEW h \in Handles, NEW v \in BOOLEAN, SetAutoRelease(t, h, v) PROVE PoolInv'
    BY <2>8, SetAutoReleaseInv
  <2>9. ASSUME NEW h \in Handles, Dispose(t, h) PROVE PoolInv'
    BY <2>9, DisposeInv
  <2>10. CASE DisposeResetSlot(t) \/ DisposeRequeue(t)
    BY <2>10, DisposeResetSlotInv, DisposeRequeueInv
  <2> QED BY <2>1, <2>2, <2>3, <2>4, <2>5, <2>6, <2>7, <2>8, <2>9, <2>10 DEF ThreadStep
<1>2. ASSUME NEW h \in Handles, Drop(h) PROVE PoolInv'
  BY <1>2, DropInv
<1>3. ASSUME NEW ho \in Holders, Recycle(ho) PROVE PoolInv'
  BY <1>3, RecycleInv
<1>4. CASE UNCHANGED vars
  BY <1>4 DEF vars, PoolInv, HandleInv, TypeOK, QueueInv, ThreadInv, HolderInv, OneHolder,
              SlotExclusive, UncreatedInv, DrainedWhileHeld, RetiredOnlyIfPinned,
              CallReachesClosure, Owns, Reachable, Queued, InUse, Disposing
<1> QED BY <1>1, <1>2, <1>3, <1>4 DEF Next

\* Every reachable state of the pool satisfies the inductive invariant.
THEOREM PoolInvariance == Spec => []PoolInv
<1> QED BY InitInv, NextInv, PTL DEF Spec

\* The variables of the pool always have their types: in particular freeCount
\* never goes below zero when useMagazine drains a magazine.
THEOREM TypeCorrect == Spec => []TypeOK
<1>1. PoolInv => TypeOK
  BY DEF PoolInv
<1> QED BY <1>1, PoolInvariance, PTL

\* newClosureHandle never hands out a native closure that another Handle owns,
\* for any number of threads, magazines and slots, whether or not the
\* application shares Handles between threads.
THEOREM Exclusive == Spec => []SlotExclusive
<1>1. PoolInv => SlotExclusive
  BY DEF PoolInv, HandleInv
<1> QED BY <1>1, PoolInvariance, PTL

\* While a Handle is held and not disposed of, native calls to its code
\* address reach the closure it was created for.
THEOREM CallsReachTheirClosure == Spec => []CallReachesClosure
<1>1. PoolInv => CallReachesClosure
  BY DEF PoolInv
<1> QED BY <1>1, PoolInvariance, PTL

\* The Cleaner gives a magazine up only when the application has pinned every
\* slot of it: recycling loses no closure.
THEOREM NoSlotLost == Spec => []RetiredOnlyIfPinned
<1>1. PoolInv => RetiredOnlyIfPinned
  BY DEF PoolInv
<1> QED BY <1>1, PoolInvariance, PTL

\* Magazine.recycle() counts up from 0 every time, over any sequence of pins,
\* disposals and recycles, although it never resets freeCount.
THEOREM RecycleCountsFromZero == Spec => []DrainedWhileHeld
<1>1. PoolInv => DrainedWhileHeld
  BY DEF PoolInv
<1> QED BY <1>1, PoolInvariance, PTL


(***************************************************************************)
(* ClosurePool implements SlotAllocator under the mapping of FreeSlots and *)
(* ClientSlots: every step of a thread, of the application or of the       *)
(* Cleaner is a step of the allocator or a stutter.                        *)
(***************************************************************************)
\* The inductive part of the argument: the invariant, before and after.
LEMMA Typed ==
  ASSUME PoolInv, NEW h \in Handles, Reachable(h)
  PROVE  handle[h] \in HandleFields /\ handle[h].slot \in Slots /\ handle[h].disposed \in BOOLEAN
BY DEF PoolInv, TypeOK, Reachable, HandleFields

\* A step that neither creates nor collects a Handle and moves none between
\* the free ones and the others keeps the set of free slots.
LEMMA SameFree ==
  ASSUME handle' = handle, \A x \in Handles : Reachable(x) => (Freeing(x)' <=> Freeing(x))
  PROVE  FreeSlots' = FreeSlots
BY DEF FreeSlots, Reachable

\* A step that changes no mapped variable is a stutter of the allocator.
LEMMA Stutters ==
  ASSUME FreeSlots' = FreeSlots, UNCHANGED <<held, handle, closure, created>>
  PROVE  UNCHANGED Allocator!vars
<1>1. ClientSlots' = ClientSlots
  BY DEF ClientSlots
<1> QED BY <1>1 DEF Allocator!vars

\* Taking a Handle off a queue: it stays free until its closure is installed.
LEMMA TakeStutters ==
  ASSUME PoolInv, NEW t \in Threads, NEW h \in Queued, NEW c \in Closures \cup {None},
         th[t].h = None,
         partialQueue' = partialQueue \ {h}, freeQueue' = freeQueue \ {h},
         Goto(t, At("install", h, None, c, TRUE)),
         UNCHANGED <<magazines, gcVars, slotVars, held, want>>
  PROVE  UNCHANGED Allocator!vars
<1> USE ClosurePoolAssumption DEF PoolInv, HandleInv, gcVars, slotVars
<1>1. h \in Handles /\ None \notin Handles
  BY DEF Queued, TypeOK
<1>2. At("install", h, None, c, TRUE) \in Local
  BY <1>1 DEF At, Local, PCs
<1>3. /\ th'[t] = At("install", h, None, c, TRUE)
      /\ \A u \in Threads \ {t} : th'[u] = th[u]
  BY <1>2, GotoStep
<1>4. \A x \in Handles : Freeing(x)' <=> Freeing(x)
  BY <1>1, <1>3 DEF Freeing, Queued, At
<1>5. FreeSlots' = FreeSlots
  BY <1>4, SameFree
<1> QED BY <1>5, Stutters

\* A step between two points where the thread works on no Handle.
LEMMA MoveStutters ==
  ASSUME PoolInv, NEW t \in Threads, NEW l \in Local, Goto(t, l),
         th[t].h = None, l.h = None,
         UNCHANGED <<partialQueue, freeQueue, gcVars, slotVars, held, want>>
  PROVE  UNCHANGED Allocator!vars
<1> USE ClosurePoolAssumption DEF PoolInv, HandleInv, gcVars, slotVars
<1>1. th'[t] = l /\ \A u \in Threads \ {t} : th'[u] = th[u]
  BY GotoStep
<1>2. \A x \in Handles : Freeing(x)' <=> Freeing(x)
  BY <1>1 DEF Freeing, Queued
<1>3. FreeSlots' = FreeSlots
  BY <1>2, SameFree
<1> QED BY <1>3, Stutters

\* Asking for a Handle changes no slot yet.
LEMMA NewClosureHandleStutters ==
  ASSUME PoolInv, NEW t \in Threads, NEW c \in Closures, NewClosureHandle(t, c)
  PROVE  UNCHANGED Allocator!vars
<1> USE ClosurePoolAssumption
<1>1. th[t].h = None /\ UNCHANGED <<freeQueue, magazines, gcVars, slotVars, held, want>>
  BY DEF PoolInv, HandleInv, ThreadInv, NewClosureHandle
<1>2. CASE \E h \in partialQueue : /\ partialQueue' = partialQueue \ {h}
                                   /\ Goto(t, At("install", h, None, c, TRUE))
  <2>1. PICK h \in partialQueue : /\ partialQueue' = partialQueue \ {h}
                                  /\ Goto(t, At("install", h, None, c, TRUE))
    BY <1>2
  <2>2. freeQueue' = freeQueue \ {h} /\ h \in Queued
    BY <1>1 DEF PoolInv, HandleInv, QueueInv, Queued
  <2> QED BY <1>1, <2>1, <2>2, TakeStutters
<1>3. CASE /\ Goto(t, At("pollFree", None, None, c, TRUE))
           /\ UNCHANGED partialQueue
  <2>1. At("pollFree", None, None, c, TRUE) \in Local
    BY DEF At, Local, PCs
  <2> QED BY <1>1, <1>3, <2>1, MoveStutters DEF At
<1> QED BY <1>2, <1>3 DEF NewClosureHandle

\* A slot that is polled is still free.
LEMMA PollStutters ==
  ASSUME PoolInv, NEW t \in Threads, NEW q, NEW miss \in PCs,
         th[t].pc \in {"pollFree", "allocPartial", "allocFree"},
         \/ q = freeQueue /\ Poll(t, q, freeQueue', miss) /\ UNCHANGED partialQueue
         \/ q = partialQueue /\ Poll(t, q, partialQueue', miss) /\ UNCHANGED freeQueue,
         UNCHANGED <<magazines, gcVars, slotVars, held, want>>
  PROVE  UNCHANGED Allocator!vars
<1> USE ClosurePoolAssumption
<1>1. th[t].h = None /\ th[t].c \in Closures \cup {None}
  BY DEF PoolInv, HandleInv, ThreadInv, TypeOK
<1>2. CASE \E h \in q : Goto(t, At("install", h, None, th[t].c, TRUE)) /\
                          \/ q = freeQueue /\ freeQueue' = q \ {h} /\ UNCHANGED partialQueue
                          \/ q = partialQueue /\ partialQueue' = q \ {h} /\ UNCHANGED freeQueue
  <2>1. PICK h \in q : Goto(t, At("install", h, None, th[t].c, TRUE)) /\
                          \/ q = freeQueue /\ freeQueue' = q \ {h} /\ UNCHANGED partialQueue
                          \/ q = partialQueue /\ partialQueue' = q \ {h} /\ UNCHANGED freeQueue
    BY <1>2
  <2>2. /\ h \in Queued
        /\ freeQueue' = freeQueue \ {h} /\ partialQueue' = partialQueue \ {h}
    BY <2>1 DEF PoolInv, HandleInv, QueueInv, Queued
  <2> QED BY <1>1, <2>1, <2>2, TakeStutters
<1>3. CASE /\ Goto(t, At(miss, None, None, th[t].c, TRUE))
           /\ UNCHANGED <<partialQueue, freeQueue>>
  <2>1. At(miss, None, None, th[t].c, TRUE) \in Local
    BY <1>1 DEF At, Local
  <2> QED BY <1>1, <1>3, <2>1, MoveStutters DEF At
<1> QED BY <1>2, <1>3 DEF Poll

\* Making no magazine, and listing one, changes no slot.
LEMMA FailOrAddStutters ==
  ASSUME PoolInv, NEW t \in Threads, NewMagazineFails(t) \/ AddMagazine(t)
  PROVE  UNCHANGED Allocator!vars
<1>1. th[t].h = None
  BY DEF PoolInv, HandleInv, ThreadInv, NewMagazineFails, AddMagazine
<1>2. CASE NewMagazineFails(t)
  <2>1. Idle \in Local /\ Idle.h = None
    BY DEF Idle, At, Local, PCs
  <2> QED BY <1>1, <1>2, <2>1, MoveStutters DEF NewMagazineFails, poolVars
<1>3. CASE AddMagazine(t)
  <2> DEFINE l == At("allocPartial", None, None, th[t].c, TRUE)
  <2>1. l \in Local /\ l.h = None
    BY DEF PoolInv, TypeOK, At, Local, PCs
  <2> HIDE DEF l
  <2> QED BY <1>1, <1>3, <2>1, MoveStutters DEF AddMagazine, l
<1> QED BY <1>2, <1>3

\* Two Handles of one slot are never both free or a client's.
LEMMA OneOwner ==
  ASSUME PoolInv, NEW x \in Handles, NEW y \in Handles, Reachable(x), Reachable(y),
         handle[x].slot = handle[y].slot,
         Freeing(x) \/ ~handle[x].disposed,
         \/ Freeing(y) \/ ~handle[y].disposed
         \/ \E t \in Threads : th[t].h = y /\ th[t].pc = "resetSlot"
  PROVE  x = y
<1>1. Owns(x) /\ Owns(y)
  BY DEF Owns, Freeing, PoolInv, HandleInv, ThreadInv
<1> QED BY <1>1 DEF PoolInv, HandleInv, SlotExclusive

\* Installing the closure hands the slot to the client.
LEMMA InstallAcquires ==
  ASSUME PoolInv, NEW t \in Threads, Install(t)
  PROVE  Allocator!Acquire(handle[th[t].h].slot, th[t].c)
<1> DEFINE h == th[t].h
           s == handle[h].slot
<1> USE ClosurePoolAssumption
<1>1. /\ h \in Handles /\ h \notin held /\ h \notin Queued
      /\ Reachable(h) /\ ~handle[h].disposed
      /\ \A u \in Threads : th[u].h = h => u = t
      /\ th[t].pc = "install"
  BY DEF Install, PoolInv, HandleInv, ThreadInv, QueueInv, InUse
<1>2. /\ closure' = [closure EXCEPT ![s] = th[t].c]
      /\ held' = held \cup {h}
      /\ UNCHANGED <<partialQueue, freeQueue, handle, created>>
  BY DEF Install, poolVars, gcVars
<1>3. th'[t].h = None /\ \A u \in Threads \ {t} : th'[u] = th[u]
  <2>1. Idle \in Local /\ Idle.h = None
    BY DEF Idle, At, Local, PCs
  <2> QED BY <2>1, GotoStep DEF Install, PoolInv
<1> HIDE DEF h
<1>4. \A x \in Handles : Freeing(x)' <=> Freeing(x) /\ x # h
  BY <1>1, <1>2, <1>3 DEF Freeing, Queued, h
<1>5. Freeing(h)
  BY <1>1 DEF Freeing, h
<1>6. s \in FreeSlots
  BY <1>1, <1>5 DEF FreeSlots
<1>7. FreeSlots' = FreeSlots \ {s}
  <2>1. ASSUME NEW x \in Handles, Reachable(x), Freeing(x), x # h
        PROVE  handle[x].slot # s
    BY <2>1, <1>1, OneOwner
  <2> QED BY <2>1, <1>1, <1>2, <1>4 DEF FreeSlots, Reachable
<1>8. ClientSlots' = ClientSlots \cup {s}
  BY <1>1, <1>2 DEF ClientSlots
<1> QED BY <1>2, <1>6, <1>7, <1>8 DEF Allocator!Acquire, h

\* setAutoRelease does not show: the allocator has no such flag.
LEMMA SetAutoReleaseStutters ==
  ASSUME PoolInv, NEW t \in Threads,
         SetAutoReleaseWrite(t) \/ \E h \in Handles, v \in BOOLEAN : SetAutoRelease(t, h, v)
  PROVE  UNCHANGED Allocator!vars
<1> USE ClosurePoolAssumption DEF poolVars, gcVars
<1>1. UNCHANGED <<partialQueue, freeQueue, handle, created, closure, held>>
  BY DEF SetAutoReleaseWrite, SetAutoRelease, slotVars
<1>2. /\ th[t].pc \notin {"install", "requeue"} /\ th'[t].pc \notin {"install", "requeue"}
      /\ \A u \in Threads \ {t} : th'[u] = th[u]
  BY DEF SetAutoReleaseWrite, SetAutoRelease, Calls, Goto, Idle, At, PoolInv, TypeOK
<1>3. \A x \in Handles : Freeing(x)' <=> Freeing(x)
  BY <1>1, <1>2 DEF Freeing, Queued
<1>4. FreeSlots' = FreeSlots
  BY <1>1, <1>3, SameFree
<1> QED BY <1>1, <1>4, Stutters

\* dispose: from here on the client no longer has the slot.
LEMMA DisposeGivesUp ==
  ASSUME PoolInv, NEW t \in Threads, NEW h \in Handles, Dispose(t, h)
  PROVE  Allocator!GiveUp(handle[h].slot)
<1> DEFINE s == handle[h].slot
<1> USE ClosurePoolAssumption DEF poolVars, slotVars
<1>1. /\ h \in held /\ Reachable(h) /\ ~handle[h].disposed /\ h \notin Queued
      /\ th[t].pc = "idle"
  BY DEF Dispose, Calls, PoolInv, HandleInv, HolderInv, QueueInv
<1>2. UNCHANGED <<partialQueue, freeQueue, held, closure, created>>
  BY DEF Dispose
<1>3. /\ handle'[h] = [slot |-> s, holder |-> handle[h].holder, disposed |-> TRUE]
      /\ \A x \in Handles \ {h} : handle'[x] = handle[x]
  BY DEF Dispose, PoolInv, TypeOK
<1>4. /\ th'[t].pc = "resetSlot"
      /\ \A u \in Threads \ {t} : th'[u] = th[u]
  BY DEF Dispose, Goto, At, PoolInv, TypeOK
<1>5. \A x \in Handles : Freeing(x)' <=> Freeing(x)
  BY <1>1, <1>2, <1>4 DEF Freeing, Queued
<1>6. handle'[h] # None /\ handle'[h].slot = s
  <2>1. handle'[h] \in HandleFields
    BY <1>1, <1>3, Typed DEF HandleFields
  <2>2. handle'[h].slot = s
    BY <1>3
  <2> QED BY <2>1, <2>2
<1>7. FreeSlots' = FreeSlots
  <2>1. \A x \in Handles : Reachable(x)' <=> Reachable(x)
    BY <1>1, <1>3, <1>6 DEF Reachable
  <2>2. \A x \in Handles : Reachable(x) => handle'[x].slot = handle[x].slot
    BY <1>3, <1>6
  <2> QED BY <2>1, <2>2, <1>5 DEF FreeSlots
<1>8. ASSUME NEW x \in held, ~handle[x].disposed, x # h
      PROVE  handle[x].slot # s
  BY <1>8, <1>1, OneOwner DEF PoolInv, HandleInv, HolderInv, TypeOK
<1>9. ClientSlots' = ClientSlots \ {s} /\ s \in ClientSlots
  <2>1. \A x \in held : x \in Handles
    BY DEF PoolInv, TypeOK
  <2>2. handle'[h].disposed
    BY <1>3
  <2> QED BY <2>1, <2>2, <1>1, <1>2, <1>3, <1>8 DEF ClientSlots
<1> QED BY <1>2, <1>7, <1>9 DEF Allocator!GiveUp

\* Resetting the slot of a disposed Handle frees it.
LEMMA ResetTakesBack ==
  ASSUME PoolInv, NEW t \in Threads, DisposeResetSlot(t)
  PROVE  Allocator!TakeBack({handle[th[t].h].slot})
<1> DEFINE h == th[t].h
           s == handle[h].slot
<1> USE ClosurePoolAssumption DEF poolVars, gcVars
<1>1. /\ th[t].pc = "resetSlot" /\ h \in held /\ h \in Handles /\ Reachable(h)
      /\ handle[h].disposed
      /\ \A u \in Threads : Disposing(u) /\ th[u].h = h => u = t
  BY DEF DisposeResetSlot, Disposing, PoolInv, HandleInv, ThreadInv, HolderInv, TypeOK
<1>2. /\ closure' = [closure EXCEPT ![s] = NullClosure]
      /\ UNCHANGED <<partialQueue, freeQueue, handle, created, held>>
  BY DEF DisposeResetSlot
<1>3. /\ th'[t].h = h /\ th'[t].pc = "requeue"
      /\ \A u \in Threads \ {t} : th'[u] = th[u]
  BY DEF DisposeResetSlot, Goto, At, PoolInv, TypeOK
<1>4. s \in Slots /\ s[1] \in created
  BY <1>1, ReachableSlot DEF PoolInv, HandleInv, HolderInv, TypeOK
<1>5. ASSUME NEW x \in Handles, Reachable(x), handle[x].slot = s
      PROVE  ~Freeing(x) /\ handle[x].disposed
  <2>1. CASE x = h
    BY <2>1, <1>1 DEF Freeing, Disposing, PoolInv, HandleInv, QueueInv, ThreadInv
  <2>2. CASE x # h
    BY <2>2, <1>1, <1>5, OneOwner
  <2> QED BY <2>1, <2>2
<1>6. s \notin FreeSlots /\ s \notin ClientSlots
  BY <1>5 DEF FreeSlots, ClientSlots, PoolInv, HandleInv, HolderInv, TypeOK
<1> HIDE DEF s
<1>7. \A x \in Handles : Freeing(x)' <=> Freeing(x) \/ x = h
  BY <1>1, <1>2, <1>3 DEF Freeing, Queued
<1>8. FreeSlots' = FreeSlots \cup {s}
  BY <1>1, <1>2, <1>7 DEF FreeSlots, Reachable, s
<1>9. ClientSlots' = ClientSlots
  BY <1>2 DEF ClientSlots
<1>10. closure' = [x \in Slots |-> IF x \in {s} THEN None ELSE closure[x]]
  BY <1>2 DEF NullClosure, PoolInv, TypeOK
<1>11. Allocator!TakeBack({s})
  BY <1>2, <1>4, <1>6, <1>8, <1>9, <1>10 DEF Allocator!TakeBack, Allocator!Slots, Slots
<1> QED BY <1>11 DEF s, h

\* The new Handle of a disposed one's slot is free like the old one was.
LEMMA RequeueStutters ==
  ASSUME PoolInv, NEW t \in Threads, DisposeRequeue(t)
  PROVE  UNCHANGED Allocator!vars
<1> DEFINE h == th[t].h
<1> USE ClosurePoolAssumption DEF slotVars
<1>1. /\ th[t].pc = "requeue" /\ h \in held /\ h \in Handles /\ Reachable(h)
      /\ h \notin Queued /\ handle[h].disposed
      /\ \A u \in Threads : Disposing(u) /\ th[u].h = h => u = t
  BY DEF DisposeRequeue, Disposing, PoolInv, HandleInv, ThreadInv, HolderInv, QueueInv, TypeOK
<1>2. PICK n \in {x \in Handles : ~Reachable(x)} :
        /\ handle' = [handle EXCEPT ![n] = [slot |-> handle[h].slot, holder |-> handle[h].holder,
                                            disposed |-> FALSE]]
        /\ partialQueue' = partialQueue \cup {n}
  BY DEF DisposeRequeue
<1>3. UNCHANGED <<freeQueue, held, closure, created>>
  BY DEF DisposeRequeue
<1>4. /\ th'[t].h = None /\ th'[t].pc = "idle"
      /\ \A u \in Threads \ {t} : th'[u] = th[u]
  BY DEF DisposeRequeue, Goto, Idle, At, PoolInv, TypeOK
<1>5. /\ handle'[n].slot = handle[h].slot
      /\ \A x \in Handles \ {n} : handle'[x] = handle[x]
  BY <1>2 DEF PoolInv, TypeOK
<1>6. handle'[n] # None
  <2>1. handle'[n] \in HandleFields
    BY <1>1, <1>2, Typed DEF HandleFields, PoolInv, TypeOK
  <2> QED BY <2>1
<1> HIDE DEF h
<1>7. \A x \in Handles \ {n} : Freeing(x)' <=> Freeing(x) /\ x # h
  BY <1>1, <1>2, <1>3, <1>4 DEF Freeing, Queued, Disposing, PoolInv, HandleInv, ThreadInv, h
<1>8. Freeing(h) /\ Freeing(n)' /\ n # h /\ n \notin held
  BY <1>1, <1>2, <1>3 DEF Freeing, Queued, h, PoolInv, HandleInv, HolderInv
<1>9. FreeSlots' = FreeSlots
  <2>1. {x \in Handles : Reachable(x) /\ Freeing(x)}'
          = ({x \in Handles : Reachable(x) /\ Freeing(x)} \ {h}) \cup {n}
    BY <1>2, <1>5, <1>6, <1>7, <1>8 DEF Reachable
  <2>2. handle[h].slot \in FreeSlots /\ handle'[n].slot \in FreeSlots'
    BY <1>1, <1>2, <1>5, <1>6, <1>8 DEF FreeSlots, Reachable
  <2>3. FreeSlots' \subseteq FreeSlots
    BY <2>1, <2>2, <1>2, <1>5, <1>8 DEF FreeSlots
  <2>4. FreeSlots \subseteq FreeSlots'
    BY <2>1, <2>2, <1>2, <1>5, <1>8 DEF FreeSlots, Reachable
  <2> QED BY <2>3, <2>4
<1>10. ClientSlots' = ClientSlots
  <2>1. \A x \in held : handle'[x] = handle[x]
    BY <1>5, <1>8 DEF PoolInv, TypeOK
  <2> QED BY <1>3, <2>1 DEF ClientSlots
<1> QED BY <1>3, <1>9, <1>10 DEF Allocator!vars

\* Forgetting a Handle gives its slot up, unless it was disposed of before.
LEMMA DropGivesUp ==
  ASSUME PoolInv, NEW h \in Handles, Drop(h)
  PROVE  Allocator!GiveUp(handle[h].slot) \/ UNCHANGED Allocator!vars
<1> DEFINE s == handle[h].slot
<1> USE ClosurePoolAssumption DEF poolVars, slotVars
<1>1. h \in held /\ Reachable(h) /\ h \notin Queued /\ ~InUse(h)
  BY DEF Drop, PoolInv, HandleInv, HolderInv, QueueInv
<1>2. /\ held' = held \ {h} /\ handle' = [handle EXCEPT ![h] = None]
      /\ UNCHANGED <<partialQueue, freeQueue, closure, created, th>>
  BY DEF Drop
<1>3. \A x \in Handles : Freeing(x)' <=> Freeing(x)
  BY <1>2 DEF Freeing, Queued
<1>4. ~Freeing(h)
  BY <1>1 DEF Freeing, InUse
<1>5. /\ handle'[h] = None
      /\ \A x \in Handles \ {h} : handle'[x] = handle[x]
  BY <1>2 DEF PoolInv, TypeOK
<1>6. FreeSlots' = FreeSlots
  BY <1>3, <1>4, <1>5 DEF FreeSlots, Reachable
<1>7. \A x \in held : x \in Handles /\ Reachable(x)
  BY DEF PoolInv, HandleInv, HolderInv, TypeOK
<1>8. CASE handle[h].disposed
  <2>1. ClientSlots' = ClientSlots
    BY <1>2, <1>5, <1>7, <1>8 DEF ClientSlots
  <2> QED BY <2>1, <1>2, <1>6 DEF Allocator!vars
<1>9. CASE ~handle[h].disposed
  <2>1. \A x \in held : ~handle[x].disposed /\ x # h => handle[x].slot # s
    BY <1>1, <1>7, <1>9, OneOwner
  <2>2. ClientSlots' = ClientSlots \ {s} /\ s \in ClientSlots
    BY <2>1, <1>1, <1>2, <1>5, <1>7, <1>9 DEF ClientSlots
  <2> QED BY <2>2, <1>2, <1>6 DEF Allocator!GiveUp
<1> QED BY <1>8, <1>9

\* useMagazine on a drained magazine without reachable Handles makes all of
\* its autorelease slots free at once, and no others.
LEMMA UseMagazineFrees ==
  ASSUME PoolInv, NEW m \in Magazines, NEW g, NEW hs \in [Holders -> Magazines \cup {None}],
         g = [next |-> 0, freeCount |-> Cardinality(AutoIdx(m, autorelease))],
         UseMagazine(m, g, hs),
         \A t \in Threads : th'[t] = th[t] \/ (th[t].h = None /\ th'[t].h = None),
         held' = held
  PROVE  /\ FreeSlots' = FreeSlots \cup {s \in {m} \X SlotIdx : autorelease[s]}
         /\ ClientSlots' = ClientSlots
<1> USE ClosurePoolAssumption
<1> DEFINE S == {s \in {m} \X SlotIdx : autorelease[s]}
<1>1. Get(m, g, autorelease) = S
  BY GetTakesAll DEF PoolInv, TypeOK
<1>2. PICK ho \in {x \in Holders : hs[x] = None},
           fresh \in SUBSET {h \in Handles : ~Reachable(h)} :
        \E f \in Bijection(fresh, Get(m, g, autorelease)) :
          handle' = NewHandles(fresh, f, ho) /\ Publish(g, fresh)
  BY DEF UseMagazine
<1>3. PICK f \in Bijection(fresh, Get(m, g, autorelease)) :
          handle' = NewHandles(fresh, f, ho) /\ Publish(g, fresh)
  BY <1>2
<1>4. f \in [fresh -> S] /\ \A s \in S : \E x \in fresh : f[x] = s
  BY <1>1, <1>3 DEF Bijection, Surjection
<1>5. \A s \in S : s \in Slots
  BY DEF Slots
<1> HIDE DEF S
<1>6. Queued' = Queued \cup fresh
  BY <1>3 DEF Publish, Queued
<1>7. \A x \in fresh : handle'[x] # None /\ handle'[x].slot = f[x]
  <2> SUFFICES ASSUME NEW x \in fresh PROVE handle'[x] # None /\ handle'[x].slot = f[x]
    OBVIOUS
  <2>1. handle'[x] = [slot |-> f[x], holder |-> ho, disposed |-> FALSE]
    BY <1>2, <1>3 DEF NewHandles
  <2>2. handle'[x] \in HandleFields
    BY <2>1, <1>2, <1>4, <1>5 DEF HandleFields
  <2>3. handle'[x].slot = f[x]
    BY <2>1
  <2> QED BY <2>2, <2>3
<1>8. \A x \in Handles \ fresh : handle'[x] = handle[x]
  BY <1>3 DEF NewHandles
<1>9. \A x \in Handles \ fresh : Freeing(x)' <=> Freeing(x)
  BY <1>6 DEF Freeing
<1>10. \A x \in fresh : Freeing(x)' /\ ~Reachable(x) /\ x \in Handles
  BY <1>2, <1>6 DEF Freeing
<1>11. {x \in Handles : Reachable(x) /\ Freeing(x)}'
          = {x \in Handles : Reachable(x) /\ Freeing(x)} \cup fresh
  BY <1>7, <1>8, <1>9, <1>10 DEF Reachable
<1>12. FreeSlots' \subseteq FreeSlots \cup S
  BY <1>4, <1>7, <1>8, <1>11 DEF FreeSlots
<1>13. FreeSlots \subseteq FreeSlots'
  BY <1>8, <1>10, <1>11 DEF FreeSlots
<1>14. S \subseteq FreeSlots'
  BY <1>4, <1>7, <1>11 DEF FreeSlots
<1>15. \A x \in held : x \in Handles \ fresh
  BY <1>10 DEF PoolInv, HandleInv, HolderInv, TypeOK
<1>16. ClientSlots' = ClientSlots
  BY <1>8, <1>15 DEF ClientSlots
<1> QED BY <1>12, <1>13, <1>14, <1>16 DEF S

\* A magazine adds its slots.
LEMMA NewMagazineGrows ==
  ASSUME PoolInv, NEW t \in Threads, NewMagazine(t)
  PROVE  \E m \in Magazines : Allocator!Grow(m)
<1> USE ClosurePoolAssumption
<1>1. PICK m \in Magazines \ created :
        /\ created' = created \cup {m}
        /\ UseMagazine(m, [next |-> 0, freeCount |-> N], holderOf)
        /\ Goto(t, At("addMagazine", None, m, th[t].c, TRUE))
  BY DEF NewMagazine
<1> DEFINE g == [next |-> 0, freeCount |-> N]
<1>2. g = [next |-> 0, freeCount |-> Cardinality(AutoIdx(m, autorelease))]
  <2>1. AutoIdx(m, autorelease) = SlotIdx
    BY DEF AutoIdx, PoolInv, UncreatedInv
  <2>2. Cardinality(SlotIdx) = N
    BY FS_Interval DEF SlotIdx
  <2> QED BY <2>1, <2>2
<1>3. UseMagazine(m, g, holderOf)
  BY <1>1
<1> HIDE DEF g
<1>4. \A u \in Threads : th'[u] = th[u] \/ (th[u].h = None /\ th'[u].h = None)
  <2>1. th[t].h = None
    BY DEF NewMagazine, PoolInv, HandleInv, ThreadInv
  <2>2. /\ th'[t] = At("addMagazine", None, m, th[t].c, TRUE)
        /\ \A u \in Threads \ {t} : th'[u] = th[u]
    BY <1>1 DEF Goto, PoolInv, TypeOK
  <2>3. th'[t].h = None
    BY <2>2 DEF At
  <2>4. \A u \in Threads \ {t} : th'[u] = th[u]
    BY <2>2
  <2> QED BY <2>1, <2>3, <2>4
<1>5. held' = held /\ closure' = closure
  BY DEF NewMagazine, slotVars
<1>6. {s \in {m} \X SlotIdx : autorelease[s]} = {m} \X SlotIdx
  BY <1>1 DEF PoolInv, UncreatedInv
<1>7. FreeSlots' = FreeSlots \cup ({m} \X SlotIdx) /\ ClientSlots' = ClientSlots
  BY <1>2, <1>3, <1>4, <1>5, <1>6, UseMagazineFrees DEF PoolInv, TypeOK
<1> QED BY <1>1, <1>5, <1>7 DEF Allocator!Grow, Allocator!SlotsOf

\* Recycling takes back the slots that are to be released.
LEMMA RecycleTakesBack ==
  ASSUME PoolInv, NEW ho \in Holders, Recycle(ho)
  PROVE  Allocator!TakeBack({s \in {holderOf[ho]} \X SlotIdx : autorelease[s]})
<1> DEFINE m == holderOf[ho]
           g == Recycled(m)
           hs == [holderOf EXCEPT ![ho] = None]
           S == {s \in {m} \X SlotIdx : autorelease[s]}
<1> USE ClosurePoolAssumption
<1>1. m \in created /\ m \in Magazines
  BY DEF PoolInv, HandleInv, HolderInv, TypeOK, Recycle
<1>2. \A h \in Handles : Reachable(h) => handle[h].slot[1] # m
  <2> SUFFICES ASSUME NEW h \in Handles, Reachable(h) PROVE handle[h].slot[1] # m
    OBVIOUS
  <2>1. handle[h].holder \in Holders /\ holderOf[handle[h].holder] = handle[h].slot[1]
    BY ReachableSlot
  <2>2. handle[h].holder # ho
    BY DEF Recycle, HolderUnreachable
  <2> QED BY <1>1, <2>1, <2>2 DEF PoolInv, HandleInv, OneHolder, TypeOK
<1>3. \A s \in S : /\ s \in Slots /\ s[1] = m /\ s[1] \in created
                   /\ s \notin FreeSlots /\ s \notin ClientSlots
  BY <1>1, <1>2 DEF Slots, FreeSlots, ClientSlots, PoolInv, HandleInv, HolderInv, TypeOK
<1>4. UNCHANGED <<created, autorelease, held, th>>
  BY DEF Recycle
<1>5. closure' = [s \in Slots |-> IF s \in S THEN None ELSE closure[s]]
  BY <1>1 DEF Recycle, ClearedClosures, NullClosure, Slots
<1>6. g = [next |-> 0, freeCount |-> Cardinality(AutoIdx(m, autorelease))]
      /\ IsFiniteSet(AutoIdx(m, autorelease)) /\ Cardinality(AutoIdx(m, autorelease)) \in Nat
  <2>1. mag[m].freeCount = 0
    BY <1>1 DEF PoolInv, DrainedWhileHeld
  <2>2. IsFiniteSet(SlotIdx) /\ AutoIdx(m, autorelease) \in SUBSET SlotIdx
    BY FS_Interval DEF SlotIdx, AutoIdx
  <2>3. IsFiniteSet(AutoIdx(m, autorelease)) /\ Cardinality(AutoIdx(m, autorelease)) \in Nat
    BY <2>2, FS_Subset, FS_CardinalityType
  <2> QED BY <2>1, <2>3 DEF Recycled, AutoIdx
<1>7. FreeSlots' = FreeSlots \cup S /\ ClientSlots' = ClientSlots
  <2>1. CASE UseMagazine(m, g, hs)
    <3>1. /\ held' = held
          /\ \A t \in Threads : th'[t] = th[t] \/ (th[t].h = None /\ th'[t].h = None)
      BY <1>4
    <3>2. g = [next |-> 0, freeCount |-> Cardinality(AutoIdx(m, autorelease))]
      BY <1>6
    <3>4. hs \in [Holders -> Magazines \cup {None}]
      BY DEF PoolInv, TypeOK
    <3> HIDE DEF m, g, hs, S
    <3>3. /\ FreeSlots' = FreeSlots \cup {s \in {m} \X SlotIdx : autorelease[s]}
          /\ ClientSlots' = ClientSlots
      BY <1>1, <2>1, <3>1, <3>2, <3>4, UseMagazineFrees
    <3> QED BY <3>3 DEF S
  <2>2. CASE IsEmpty(g) /\ UNCHANGED <<handle, partialQueue, freeQueue>>
    <3>1. AutoIdx(m, autorelease) = {}
      BY <1>6, <2>2, FS_EmptySet DEF IsEmpty
    <3>2. S = {}
      BY <3>1 DEF AutoIdx
    <3>3. FreeSlots' = FreeSlots /\ ClientSlots' = ClientSlots
      BY <1>4, <2>2 DEF FreeSlots, ClientSlots, Reachable, Freeing, Queued
    <3> QED BY <3>2, <3>3
  <2> QED BY <2>1, <2>2 DEF Recycle
<1> HIDE DEF S
<1>8. Allocator!TakeBack(S)
  BY <1>3, <1>4, <1>5, <1>7 DEF Allocator!TakeBack, Allocator!Slots, Slots
<1> QED BY <1>8 DEF S, m

\* No slots yet.
LEMMA InitAllocator == Init => Allocator!Init
<1> SUFFICES ASSUME Init PROVE Allocator!Init
  OBVIOUS
<1>1. FreeSlots = {} /\ ClientSlots = {}
  BY DEF Init, FreeSlots, ClientSlots, Reachable
<1> QED BY <1>1 DEF Init, Allocator!Init, NullClosure, Slots, Allocator!Slots

\* A thread that is looking for a slot has a closure to install in it.
Asking ==
  \A t \in Threads :
    th[t].pc \notin {"idle", "setAutoRelease", "resetSlot", "requeue"} => th[t].c \in Closures

\* Who asks for a Handle has a Closure to ask it for.
LEMMA AskingInv == PoolInv /\ Asking /\ [Next]_vars => Asking'
<1> SUFFICES ASSUME PoolInv, Asking, [Next]_vars, NEW u \in Threads,
                    th'[u].pc \notin {"idle", "setAutoRelease", "resetSlot", "requeue"}
             PROVE  th'[u].c \in Closures
  BY DEF Asking
<1> USE DEF PoolInv, TypeOK, Asking, Goto, At, Idle
<1>1. ASSUME NEW t \in Threads, ThreadStep(t) PROVE th'[u].c \in Closures
  <2>1. CASE \E c \in Closures : NewClosureHandle(t, c)
    BY <2>1 DEF NewClosureHandle
  <2>2. CASE PollFree(t) \/ AllocPollPartial(t) \/ AllocPollFree(t)
    BY <2>2 DEF PollFree, AllocPollPartial, AllocPollFree, Poll
  <2>3. CASE NewMagazine(t) \/ NewMagazineFails(t) \/ AddMagazine(t) \/ Install(t)
    BY <2>3 DEF NewMagazine, NewMagazineFails, AddMagazine, Install
  <2>4. CASE SetAutoReleaseWrite(t) \/ DisposeRequeue(t)
    BY <2>4 DEF SetAutoReleaseWrite, DisposeRequeue
  <2>5. CASE DisposeResetSlot(t)
    BY <2>5 DEF DisposeResetSlot
  <2>6. ASSUME NEW h \in Handles, NEW v \in BOOLEAN, SetAutoRelease(t, h, v)
        PROVE  th'[u].c \in Closures
    BY <2>6 DEF SetAutoRelease
  <2>7. ASSUME NEW h \in Handles, Dispose(t, h)
        PROVE  th'[u].c \in Closures
    BY <2>7 DEF Dispose
  <2> QED BY <1>1, <2>1, <2>2, <2>3, <2>4, <2>5, <2>6, <2>7 DEF ThreadStep
<1>2. CASE \/ \E h \in Handles : Drop(h)
           \/ \E ho \in Holders : Recycle(ho)
           \/ UNCHANGED vars
  BY <1>2 DEF Drop, Recycle, vars
<1> QED BY <1>1, <1>2 DEF Next

\* Every step of the pool is one of the allocator, or none.
LEMMA StepRefines ==
  ASSUME PoolInv, Asking, [Next]_vars
  PROVE  [Allocator!Next]_(Allocator!vars)
<1> USE DEF Allocator!Next
<1>1. CASE \E t \in Threads : ThreadStep(t)
  <2>1. PICK t \in Threads : ThreadStep(t)
    BY <1>1
  <2>2. ASSUME NEW c \in Closures, NewClosureHandle(t, c) PROVE UNCHANGED Allocator!vars
    BY <2>2, NewClosureHandleStutters
  <2>3. CASE PollFree(t) \/ AllocPollPartial(t) \/ AllocPollFree(t)
    BY <2>3, PollStutters DEF PollFree, AllocPollPartial, AllocPollFree, PCs
  <2>4. CASE NewMagazine(t)
    BY <2>4, NewMagazineGrows
  <2>5. CASE NewMagazineFails(t) \/ AddMagazine(t)
    BY <2>5, FailOrAddStutters
  <2>6. CASE Install(t)
    <3>1. th[t].h \in Handles /\ Reachable(th[t].h) /\ th[t].c \in Closures
      BY <2>6 DEF Install, PoolInv, HandleInv, ThreadInv, Asking
    <3>2. handle[th[t].h].slot \in Allocator!Slots
      BY <3>1, Typed DEF Slots, Allocator!Slots
    <3> QED BY <2>6, <3>1, <3>2, InstallAcquires
  <2>7. CASE SetAutoReleaseWrite(t) \/ \E h \in Handles, v \in BOOLEAN : SetAutoRelease(t, h, v)
    BY <2>7, SetAutoReleaseStutters
  <2>8. ASSUME NEW h \in Handles, Dispose(t, h) PROVE Allocator!Next
    <3>1. Reachable(h)
      BY <2>8 DEF Dispose, Calls, PoolInv, HandleInv, HolderInv
    <3>2. handle[h].slot \in Allocator!Slots
      BY <3>1, Typed DEF Slots, Allocator!Slots
    <3> QED BY <2>8, <3>2, DisposeGivesUp
  <2>9. CASE DisposeResetSlot(t)
    <3>1. th[t].h \in Handles /\ Reachable(th[t].h)
      BY <2>9 DEF DisposeResetSlot, Disposing, PoolInv, HandleInv, ThreadInv, HolderInv, TypeOK
    <3>2. {handle[th[t].h].slot} \in SUBSET Allocator!Slots
      BY <3>1, Typed DEF Slots, Allocator!Slots
    <3> QED BY <2>9, <3>2, ResetTakesBack
  <2>10. CASE DisposeRequeue(t)
    BY <2>10, RequeueStutters
  <2> QED BY <2>1, <2>2, <2>3, <2>4, <2>5, <2>6, <2>7, <2>8, <2>9, <2>10 DEF ThreadStep
<1>2. ASSUME NEW h \in Handles, Drop(h) PROVE [Allocator!Next]_(Allocator!vars)
  <2>1. Reachable(h)
    BY <1>2 DEF Drop, PoolInv, HandleInv, HolderInv
  <2>2. handle[h].slot \in Allocator!Slots
    BY <2>1, Typed DEF Slots, Allocator!Slots
  <2> QED BY <1>2, <2>2, DropGivesUp
<1>3. ASSUME NEW ho \in Holders, Recycle(ho) PROVE Allocator!Next
  <2>1. holderOf[ho] \in Magazines
    BY <1>3 DEF Recycle, PoolInv, TypeOK
  <2>2. {s \in {holderOf[ho]} \X SlotIdx : autorelease[s]} \in SUBSET Allocator!Slots
    BY <2>1 DEF Allocator!Slots
  <2> QED BY <1>3, <2>2, RecycleTakesBack
<1>4. CASE UNCHANGED vars
  BY <1>4 DEF vars, Allocator!vars, FreeSlots, ClientSlots, Reachable, Freeing, Queued
<1> QED BY <1>1, <1>2, <1>3, <1>4 DEF Next

\* ClosurePool implements SlotAllocator, for any number of threads, magazines,
\* slots and Handles, shared or not: ClosureManager may be reasoned about with
\* the allocator in place of the pool.
THEOREM Implements == Spec => ImplementsAllocator
<1>1. Init => Allocator!Init
  BY InitAllocator
<1>2. PoolInv /\ Asking /\ [Next]_vars => [Allocator!Next]_(Allocator!vars)
  BY StepRefines
<1>3. Init => Asking
  BY DEF Init, Asking, Idle, At
<1> QED BY <1>1, <1>2, <1>3, AskingInv, PoolInvariance, PTL
        DEF Spec, ImplementsAllocator, Allocator!Spec

(***************************************************************************)
(* Handles confined to one thread at a time.  What a step does to the free *)
(* slots is known from the refinement above.                               *)
(***************************************************************************)
LEMMA FreeSlotsTyped == PoolInv => FreeSlots \subseteq Slots
BY Typed DEF FreeSlots

\* A thread that touches the slot of its Handle owns that slot.
LEMMA UserOwns ==
  ASSUME PoolInv, OneUser, NotOvertaken, NEW t \in Threads,
         th[t].pc \in {"install", "setAutoRelease", "resetSlot"}
  PROVE  /\ th[t].h \in Handles /\ Reachable(th[t].h) /\ handle[th[t].h].slot \in Slots
         /\ OwnerRuns(handle[th[t].h].slot)
<1>1. th[t].h \in Handles /\ Reachable(th[t].h) /\ Owns(th[t].h)
  BY DEF PoolInv, HandleInv, ThreadInv, HolderInv, TypeOK, Disposing, Owns, NotOvertaken
<1> QED BY <1>1, ReachableSlot, ClosurePoolAssumption DEF OwnerRuns

\* setAutoRelease writes to no free slot: its Handle is not disposed of.
LEMMA WriteHitsNoFreeSlot ==
  ASSUME PoolInv, ConfinedInv, NEW t \in Threads, SetAutoReleaseWrite(t)
  PROVE  handle[th[t].h].slot \notin FreeSlots
<1> DEFINE h == th[t].h
<1>1. /\ th[t].pc = "setAutoRelease" /\ h \in Handles /\ Reachable(h) /\ h \in held
      /\ ~handle[h].disposed
  BY DEF SetAutoReleaseWrite, PoolInv, HandleInv, ThreadInv, HolderInv, TypeOK,
         ConfinedInv, NotOvertaken
<1>2. ~Freeing(h)
  BY <1>1, ClosurePoolAssumption DEF Freeing, PoolInv, HandleInv, QueueInv, ConfinedInv, OneUser
<1>3. ASSUME NEW x \in Handles, Reachable(x), Freeing(x), handle[x].slot = handle[h].slot
      PROVE  FALSE
  BY <1>1, <1>2, <1>3, OneOwner
<1> QED BY <1>3 DEF FreeSlots

\* Every free slot stays as new, whatever a step does to it.
LEMMA FreshStep ==
  ASSUME PoolInv, Asking, ConfinedInv, [Next]_vars
  PROVE  FreeSlotsFresh'
<1> USE DEF ConfinedInv, FreeSlotsFresh
<1>1. ASSUME NEW t \in Threads, ThreadStep(t) PROVE FreeSlotsFresh'
  <2> USE DEF Allocator!vars, poolVars, gcVars, slotVars
  <2>1. ASSUME NEW c \in Closures, NewClosureHandle(t, c) PROVE FreeSlotsFresh'
    BY <2>1, NewClosureHandleStutters DEF NewClosureHandle
  <2>2. CASE PollFree(t) \/ AllocPollPartial(t) \/ AllocPollFree(t)
    <3>1. UNCHANGED Allocator!vars
      BY <2>2, PollStutters DEF PollFree, AllocPollPartial, AllocPollFree, PCs
    <3> QED BY <2>2, <3>1 DEF PollFree, AllocPollPartial, AllocPollFree
  <2>3. CASE NewMagazine(t)
    <3>1. PICK m \in Magazines : Allocator!Grow(m)
      BY <2>3, NewMagazineGrows
    <3> QED BY <2>3, <3>1 DEF NewMagazine, Allocator!Grow, Allocator!SlotsOf, PoolInv, UncreatedInv
  <2>4. CASE NewMagazineFails(t) \/ AddMagazine(t)
    BY <2>4, FailOrAddStutters DEF NewMagazineFails, AddMagazine
  <2>5. CASE Install(t)
    <3> DEFINE o == handle[th[t].h].slot
    <3>1. Allocator!Acquire(o, th[t].c)
      BY <2>5, InstallAcquires
    <3>2. FreeSlots' = FreeSlots \ {o} /\ closure' = [closure EXCEPT ![o] = th[t].c]
      BY <3>1 DEF Allocator!Acquire
    <3>3. autorelease' = autorelease
      BY <2>5 DEF Install
    <3> HIDE DEF o
    <3> QED BY <3>2, <3>3, FreeSlotsTyped DEF PoolInv, TypeOK, NullClosure
  <2>6. ASSUME NEW h \in Handles, NEW v \in BOOLEAN, SetAutoRelease(t, h, v)
        PROVE  FreeSlotsFresh'
    BY <2>6, SetAutoReleaseStutters DEF SetAutoRelease
  <2>7. CASE SetAutoReleaseWrite(t)
    <3> DEFINE o == handle[th[t].h].slot
    <3>1. autorelease' = [autorelease EXCEPT ![o] = th[t].v] /\ o \notin FreeSlots
      BY <2>7, WriteHitsNoFreeSlot DEF SetAutoReleaseWrite
    <3>2. FreeSlots' = FreeSlots /\ closure' = closure
      BY <2>7, SetAutoReleaseStutters
    <3> HIDE DEF o
    <3> QED BY <3>1, <3>2, FreeSlotsTyped DEF PoolInv, TypeOK, NullClosure
  <2>8. ASSUME NEW h \in Handles, Dispose(t, h) PROVE FreeSlotsFresh'
    BY <2>8, DisposeGivesUp DEF Dispose, Allocator!GiveUp
  <2>9. CASE DisposeResetSlot(t)
    <3>1. Allocator!TakeBack({handle[th[t].h].slot}) /\ handle[th[t].h].slot \in Slots
      BY <2>9, ResetTakesBack, UserOwns DEF DisposeResetSlot
    <3> QED BY <2>9, <3>1 DEF DisposeResetSlot, Allocator!TakeBack, PoolInv, TypeOK
  <2>10. CASE DisposeRequeue(t)
    BY <2>10, RequeueStutters DEF DisposeRequeue
  <2> QED BY <1>1, <2>1, <2>2, <2>3, <2>4, <2>5, <2>6, <2>7, <2>8, <2>9, <2>10 DEF ThreadStep
<1>2. ASSUME NEW h \in Handles, Drop(h) PROVE FreeSlotsFresh'
  BY <1>2, DropGivesUp DEF Drop, slotVars, Allocator!vars, Allocator!GiveUp
<1>3. ASSUME NEW ho \in Holders, Recycle(ho) PROVE FreeSlotsFresh'
  <2> DEFINE S == {s \in {holderOf[ho]} \X SlotIdx : autorelease[s]}
  <2>1. Allocator!TakeBack(S) /\ autorelease' = autorelease
    BY <1>3, RecycleTakesBack DEF Recycle
  <2>2. S \subseteq Slots /\ \A s \in S : autorelease[s]
    BY <1>3 DEF Recycle, PoolInv, TypeOK, Slots
  <2> HIDE DEF S
  <2> QED BY <2>1, <2>2, FreeSlotsTyped DEF Allocator!TakeBack, Allocator!Slots, Slots, NullClosure
<1>4. CASE UNCHANGED vars
  BY <1>4 DEF vars, FreeSlots, Reachable, Freeing, Queued
<1> QED BY <1>1, <1>2, <1>3, <1>4 DEF Next

\* A thread starts to use a Handle that nobody uses, or lets go of its own; a
\* Handle is disposed of by its user only.
LEMMA UserStep ==
  ASSUME ~SharedHandles, PoolInv, OneUser, NotOvertaken, NEW t \in Threads,
         \A u \in Threads \ {t} : th'[u] = th[u],
         th'[t].h \in {None, th[t].h} \/ ~InUse(th'[t].h),
         th'[t].pc = "setAutoRelease" => ~handle'[th'[t].h].disposed,
         \A u \in Threads \ {t} :
           th[u].pc = "setAutoRelease" => handle'[th[u].h] = handle[th[u].h]
  PROVE  OneUser' /\ NotOvertaken'
BY DEF OneUser, InUse, NotOvertaken

\* With Handles confined to a thread, no setAutoRelease overlaps a dispose.
LEMMA UserInv ==
  ASSUME ~SharedHandles, PoolInv, OneUser, NotOvertaken, [Next]_vars
  PROVE  OneUser' /\ NotOvertaken'
<1> USE ClosurePoolAssumption
<1> DEFINE Pinning == {u \in Threads : th[u].pc = "setAutoRelease"}
<1>1. \A u \in Pinning : th[u].h \in held /\ th[u].h \in Handles /\ Reachable(th[u].h)
  BY DEF PoolInv, HandleInv, ThreadInv, HolderInv, TypeOK
<1>3. ASSUME NEW t \in Threads, ThreadStep(t) PROVE OneUser' /\ NotOvertaken'
  <2>1. \A l : Goto(t, l) => th'[t] = l /\ \A u \in Threads \ {t} : th'[u] = th[u]
    BY DEF Goto, PoolInv, TypeOK
  <2>2. \A h \in Queued : ~InUse(h)
    BY DEF PoolInv, HandleInv, QueueInv
  <2>3. ASSUME NEW c \in Closures, NewClosureHandle(t, c) PROVE OneUser' /\ NotOvertaken'
    <3>1. handle' = handle /\ \A u \in Threads \ {t} : th'[u] = th[u]
      BY <2>1, <2>3 DEF NewClosureHandle, gcVars
    <3>2. th'[t].h \in {None} \cup Queued /\ th'[t].pc \in {"install", "pollFree"}
      BY <2>3 DEF NewClosureHandle, At, Queued, Goto, PoolInv, TypeOK
    <3> QED BY <2>2, <3>1, <3>2, UserStep
  <2>4. CASE PollFree(t) \/ AllocPollPartial(t) \/ AllocPollFree(t)
    <3>1. handle' = handle /\ \A u \in Threads \ {t} : th'[u] = th[u]
      BY <2>1, <2>4 DEF PollFree, AllocPollPartial, AllocPollFree, Poll, gcVars
    <3>2. /\ th'[t].h \in {None} \cup Queued
          /\ th'[t].pc \in {"install", "allocPartial", "allocFree", "newMagazine"}
      BY <2>4 DEF PollFree, AllocPollPartial, AllocPollFree, Poll, At, Queued, Goto, PoolInv, TypeOK
    <3> QED BY <2>2, <3>1, <3>2, UserStep
  <2>5. CASE NewMagazine(t)
    <3>1. /\ \A h \in Handles : Reachable(h) => handle'[h] = handle[h]
          /\ \A u \in Threads \ {t} : th'[u] = th[u]
      BY <2>1, <2>5 DEF NewMagazine, UseMagazine, NewHandles
    <3>2. th'[t].h = None /\ th'[t].pc = "addMagazine"
      BY <2>1, <2>5 DEF NewMagazine, At
    <3> QED BY <1>1, <3>1, <3>2, UserStep
  <2>6. CASE NewMagazineFails(t) \/ Install(t) \/ SetAutoReleaseWrite(t)
    <3>1. handle' = handle /\ \A u \in Threads \ {t} : th'[u] = th[u]
      BY <2>1, <2>6 DEF NewMagazineFails, Install, SetAutoReleaseWrite, gcVars
    <3>2. th'[t].h = None /\ th'[t].pc = "idle"
      BY <2>1, <2>6 DEF NewMagazineFails, Install, SetAutoReleaseWrite, Idle, At
    <3> QED BY <3>1, <3>2, UserStep
  <2>7. CASE AddMagazine(t)
    <3>1. handle' = handle /\ \A u \in Threads \ {t} : th'[u] = th[u]
      BY <2>1, <2>7 DEF AddMagazine, gcVars
    <3>2. th'[t].h = None /\ th'[t].pc = "allocPartial"
      BY <2>1, <2>7 DEF AddMagazine, At
    <3> QED BY <3>1, <3>2, UserStep
  <2>8. ASSUME NEW h \in Handles, NEW v \in BOOLEAN, SetAutoRelease(t, h, v)
        PROVE  OneUser' /\ NotOvertaken'
    <3>1. /\ handle' = handle /\ ~InUse(h) /\ ~handle[h].disposed
          /\ \A u \in Threads \ {t} : th'[u] = th[u]
      BY <2>1, <2>8 DEF SetAutoRelease, Calls, gcVars
    <3>2. th'[t].h = h
      BY <2>1, <2>8 DEF SetAutoRelease, At
    <3> QED BY <3>1, <3>2, UserStep
  <2>9. ASSUME NEW h \in Handles, Dispose(t, h) PROVE OneUser' /\ NotOvertaken'
    <3>1. ~InUse(h) /\ \A u \in Threads \ {t} : th'[u] = th[u]
      BY <2>1, <2>9 DEF Dispose, Calls
    <3>2. th'[t].h = h /\ th'[t].pc = "resetSlot"
      BY <2>1, <2>9 DEF Dispose, At
    <3>3. \A x \in Handles \ {h} : handle'[x] = handle[x]
      BY <2>9 DEF Dispose, PoolInv, TypeOK
    <3>4. \A u \in Pinning : th[u].h \in Handles \ {h}
      BY <1>1, <3>1 DEF InUse
    <3> QED BY <3>1, <3>2, <3>3, <3>4, UserStep
  <2>10. CASE DisposeResetSlot(t)
    <3>1. handle' = handle /\ \A u \in Threads \ {t} : th'[u] = th[u]
      BY <2>1, <2>10 DEF DisposeResetSlot, gcVars
    <3>2. th'[t].h = th[t].h /\ th'[t].pc = "requeue"
      BY <2>1, <2>10 DEF DisposeResetSlot, At
    <3> QED BY <3>1, <3>2, UserStep
  <2>11. CASE DisposeRequeue(t)
    <3>1. /\ \A x \in Handles : Reachable(x) => handle'[x] = handle[x]
          /\ \A u \in Threads \ {t} : th'[u] = th[u]
      BY <2>1, <2>11 DEF DisposeRequeue, PoolInv, TypeOK
    <3>2. th'[t].h = None /\ th'[t].pc = "idle"
      BY <2>1, <2>11 DEF DisposeRequeue, Idle, At
    <3> QED BY <1>1, <3>1, <3>2, UserStep
  <2> QED BY <1>3, <2>3, <2>4, <2>5, <2>6, <2>7, <2>8, <2>9, <2>10, <2>11 DEF ThreadStep
<1>4. ASSUME NEW h \in Handles, Drop(h) PROVE OneUser' /\ NotOvertaken'
  <2>1. th' = th /\ \A x \in Handles \ {h} : handle'[x] = handle[x]
    BY <1>4 DEF Drop, PoolInv, TypeOK
  <2>2. \A u \in Pinning : th[u].h \in Handles \ {h}
    BY <1>1, <1>4 DEF Drop, InUse
  <2> QED BY <2>1, <2>2 DEF OneUser, NotOvertaken
<1>5. ASSUME NEW ho \in Holders, Recycle(ho) PROVE OneUser' /\ NotOvertaken'
  <2>1. th' = th /\ \A h \in Handles : Reachable(h) => handle'[h] = handle[h]
    BY <1>5 DEF Recycle, UseMagazine, NewHandles
  <2> QED BY <1>1, <2>1 DEF OneUser, NotOvertaken
<1>6. CASE UNCHANGED vars
  BY <1>6 DEF vars, OneUser, NotOvertaken
<1> QED BY <1>3, <1>4, <1>5, <1>6 DEF Next

\* If no two threads use one Handle at once, what is queued is as new, and no
\* thread works on a Handle that another one has, or has disposed of.
THEOREM Confined ==
  ASSUME ~SharedHandles
  PROVE  Spec => []ConfinedInv
<1>1. Init => ConfinedInv /\ Asking
  BY DEF Init, ConfinedInv, FreeSlotsFresh, FreeSlots, Reachable, OneUser, NotOvertaken,
         Asking, Idle, At
<1>2. PoolInv /\ Asking /\ ConfinedInv /\ [Next]_vars => ConfinedInv'
  BY FreshStep, UserInv DEF ConfinedInv
<1> QED BY <1>1, <1>2, AskingInv, PoolInvariance, PTL DEF Spec

\* What newClosureHandle takes off a queue is a slot as good as new, if no two
\* threads use one Handle at the same time: no setAutoRelease is still on its
\* way to the slot, and no closure of the former owner is left in it.
THEOREM QueuedSlotsAreFresh ==
  ASSUME ~SharedHandles
  PROVE  Spec => []QueuedSlotIsFresh
<1>1. PoolInv /\ ConfinedInv => QueuedSlotIsFresh
  BY DEF PoolInv, HandleInv, QueueInv, TypeOK, Queued, ConfinedInv, FreeSlotsFresh, FreeSlots,
         Freeing, QueuedSlotIsFresh
<1> QED BY <1>1, Confined, PoolInvariance, PTL

\* A pinned slot keeps its pin and its closure through every step that is not
\* its owner's, the Cleaner's included.
THEOREM PinsRespected ==
  ASSUME ~SharedHandles
  PROVE  Spec => PinRespected
<1> DEFINE Kept == \A s \in Slots : ~autorelease[s] =>
                     OwnerRuns(s) \/ (~autorelease'[s] /\ closure'[s] = closure[s])
<1>1. ASSUME PoolInv, ConfinedInv, Next PROVE Kept
  <2> USE DEF poolVars, gcVars, slotVars
  <2>1. ASSUME NEW t \in Threads, ThreadStep(t) PROVE Kept
    <3>1. CASE Install(t) \/ SetAutoReleaseWrite(t) \/ DisposeResetSlot(t)
      <4> DEFINE o == handle[th[t].h].slot
      <4>1. OwnerRuns(o)
        BY <1>1, <3>1, UserOwns DEF Install, SetAutoReleaseWrite, DisposeResetSlot, ConfinedInv
      <4>2. \A s \in Slots \ {o} : autorelease'[s] = autorelease[s] /\ closure'[s] = closure[s]
        BY <1>1, <3>1 DEF Install, SetAutoReleaseWrite, DisposeResetSlot, PoolInv, TypeOK
      <4> QED BY <4>1, <4>2
    <3>2. CASE UNCHANGED <<autorelease, closure>>
      BY <3>2
    <3> QED BY <2>1, <3>1, <3>2 DEF ThreadStep, NewClosureHandle, PollFree, AllocPollPartial,
          AllocPollFree, NewMagazine, NewMagazineFails, AddMagazine, SetAutoRelease, Dispose,
          DisposeRequeue
  <2>2. CASE \E h \in Handles : Drop(h)
    BY <2>2 DEF Drop
  <2>3. CASE \E ho \in Holders : Recycle(ho)
    BY <2>3 DEF Recycle, ClearedClosures
  <2> QED BY <1>1, <2>1, <2>2, <2>3 DEF Next
<1>2. PoolInv /\ ConfinedInv /\ [Next]_vars => [Kept]_vars
  BY <1>1
<1> QED BY <1>2, Confined, PoolInvariance, PTL DEF Spec, PinRespected

================================================================================
