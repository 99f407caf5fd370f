---------------------------- MODULE LibraryProofs ----------------------------
(***************************************************************************)
(* LibraryInv is an inductive invariant of Library, for any number of      *)
(* threads, names and Libraries, whether or not the thunks hold, and with  *)
(* it Library implements WeakCache.                                        *)
(***************************************************************************)
EXTENDS Library, FiniteSetTheorems, TLAPS

PCs == {"idle", "deref", "dlopen", "dlerror", "construct", "put",
        "clear", "dlsym", "symerror", "catch"}

\* A Goto changes the place of one thread.
LEMMA GotoStep ==
  ASSUME TypeOK, NEW t \in Threads, NEW pc \in PCs, Goto(t, pc)
  PROVE  /\ th' \in [Threads -> Local]
         /\ th'[t] = [pc |-> pc, name |-> th[t].name, via |-> th[t].via, lib |-> th[t].lib]
         /\ th'[t].pc = pc
         /\ \A u \in Threads \ {t} : th'[u] = th[u]
<1>1. th[t] \in Local /\ [th[t] EXCEPT !.pc = pc] \in Local
  BY DEF TypeOK, Local, PCs
<1>2. [th[t] EXCEPT !.pc = pc] = [pc |-> pc, name |-> th[t].name, via |-> th[t].via, lib |-> th[t].lib]
  BY <1>1 DEF Local
<1>3. [th[t] EXCEPT !.pc = pc].pc = pc
  BY <1>2
<1>4. th'[t] = [th[t] EXCEPT !.pc = pc]
  BY DEF TypeOK, Goto
<1>5. th' \in [Threads -> Local] /\ \A u \in Threads \ {t} : th'[u] = th[u]
  BY <1>1 DEF TypeOK, Goto
<1> QED BY <1>2, <1>3, <1>4, <1>5

\* A Return makes the thread idle and hands over a Library.
LEMMA ReturnStep ==
  ASSUME TypeOK, NEW t \in Threads, NEW l \in Libs, Return(t, l)
  PROVE  /\ th' \in [Threads -> Local] /\ held' \in SUBSET Libs
         /\ held' = held \cup {l}
         /\ th'[t] = Idle
         /\ \A u \in Threads \ {t} : th'[u] = th[u]
<1>1. Idle \in Local
  BY DEF Idle, Local, AllNames
<1> QED BY <1>1 DEF TypeOK, Return

\* While something of a name is open its count is positive.
LEMMA OpenCounted ==
  ASSUME TypeOK, HandlesAccounted, NEW l \in Libs, lib[l].state \in {"opened", "live"}
  PROVE  count[lib[l].name] \in Nat /\ count[lib[l].name] > 0
<1> DEFINE n == lib[l].name
<1>1. n \in AllNames /\ l \in Open(n) /\ IsFiniteSet(Open(n))
  BY FS_Subset, LibraryAssumption DEF LibraryAssumption, Open, TypeOK, Fields
<1>2. Cardinality(Open(n)) # 0 /\ Cardinality(Open(n)) \in Nat
  BY <1>1, FS_EmptySet, FS_CardinalityType
<1> QED BY <1>1, <1>2 DEF HandlesAccounted

\* Every step keeps the types.
LEMMA TypeNext ==
  ASSUME TypeOK, ThreadInv, HandlesAccounted, [Next]_vars
  PROVE  TypeOK'
<1>1. ASSUME NEW t \in Threads, NEW n \in Names, GetCachedInstance(t, n) PROVE TypeOK'
  BY <1>1 DEF GetCachedInstance, TypeOK, Idle, Local, AllNames
<1>2. ASSUME NEW t \in Threads, NEW n \in AllNames, OpenLibrary(t, n) PROVE TypeOK'
  BY <1>2 DEF OpenLibrary, TypeOK, Idle, Local, AllNames
<1>3. ASSUME NEW t \in Threads, NEW l \in Libs, GetSymbolAddress(t, l) PROVE TypeOK'
  <2>1. [pc |-> "clear", name |-> lib[l].name, via |-> "open", lib |-> l] \in Local
    BY DEF TypeOK, Fields, Local
  <2> QED BY <1>3, <2>1 DEF GetSymbolAddress, TypeOK
<1>4. ASSUME NEW t \in Threads, Deref(t) PROVE TypeOK'
  <2>1. th[t].lib \in Libs
    BY <1>4 DEF Deref, ThreadInv, Knows, At
  <2>2. th' \in [Threads -> Local] /\ held' \in SUBSET Libs
    BY <1>4, <2>1, GotoStep, ReturnStep DEF Deref, PCs, TypeOK
  <2> QED BY <1>4, <2>2 DEF Deref, TypeOK
<1>5. ASSUME NEW t \in Threads, GetDefault(t) PROVE TypeOK'
  <2>1. th' \in [Threads -> Local] /\ held' \in SUBSET Libs
    <3>1. [pc |-> "dlopen", name |-> Null, via |-> "default", lib |-> None] \in Local
      BY DEF Local, AllNames
    <3> QED BY <1>5, <3>1, ReturnStep DEF GetDefault, TypeOK
  <2> QED BY <1>5, <2>1 DEF GetDefault, TypeOK
<1>6. ASSUME NEW t \in Threads, DlOpen(t) PROVE TypeOK'
  <2>1. CASE Goto(t, "dlerror") /\ UNCHANGED <<lib, count>>
             /\ dlerr' = [dlerr EXCEPT ![Slot(t)] = Message("dlopen", t)]
             /\ failure' = [failure EXCEPT ![t] = Message("dlopen", t)]
    <3>1. th' \in [Threads -> Local]
      BY <2>1, GotoStep DEF PCs
    <3> QED BY <1>6, <2>1, <3>1 DEF DlOpen, TypeOK, Message, Messages
  <2>2. CASE UNCHANGED <<dlerr, failure>> /\ \E l \in Libs :
               /\ lib' = [lib EXCEPT ![l] = [state |-> "opened", name |-> th[t].name,
                                             by |-> t, via |-> th[t].via]]
               /\ count' = [count EXCEPT ![th[t].name] = @ + 1]
               /\ th' = [th EXCEPT ![t] = [pc |-> "construct", name |-> th[t].name,
                                            via |-> th[t].via, lib |-> l]]
    <3>1. PICK l \in Libs :
               /\ lib' = [lib EXCEPT ![l] = [state |-> "opened", name |-> th[t].name,
                                             by |-> t, via |-> th[t].via]]
               /\ count' = [count EXCEPT ![th[t].name] = @ + 1]
               /\ th' = [th EXCEPT ![t] = [pc |-> "construct", name |-> th[t].name,
                                            via |-> th[t].via, lib |-> l]]
      BY <2>2
    <3>2. [state |-> "opened", name |-> th[t].name, by |-> t, via |-> th[t].via] \in Fields
      BY DEF TypeOK, Fields, Local
    <3>3. th' \in [Threads -> Local]
      <4>1. [pc |-> "construct", name |-> th[t].name, via |-> th[t].via, lib |-> l] \in Local
        BY DEF TypeOK, Local
      <4> QED BY <3>1, <4>1 DEF TypeOK
    <3>4. th[t].name \in AllNames
      BY DEF TypeOK, Local
    <3>5. lib' \in [Libs -> Fields] /\ count' \in [AllNames -> Nat]
      BY <3>1, <3>2, <3>4 DEF TypeOK
    <3> QED BY <1>6, <2>2, <3>3, <3>5 DEF DlOpen, TypeOK
  <2> QED BY <1>6, <2>1, <2>2 DEF DlOpen
<1>7. ASSUME NEW t \in Threads, DlOpenFails(t) PROVE TypeOK'
  <2>1. Said(t) \in Messages \cup {Unknown, None}
    BY DEF Said, TypeOK, Slots
  <2>2. th' \in [Threads -> Local] /\ default' \in {"uninit", None} \cup Libs
    BY <1>7 DEF DlOpenFails, TypeOK, Idle, Local, AllNames
  <2> QED BY <1>7, <2>1, <2>2 DEF DlOpenFails, Forgotten, TypeOK
<1>8. ASSUME NEW t \in Threads, Construct(t) PROVE TypeOK'
  <2>1. th[t].lib \in Libs /\ [lib[th[t].lib] EXCEPT !.state = "live"] \in Fields
    <3>1. th[t].lib \in Libs
      BY <1>8 DEF Construct, ThreadInv, Knows, At
    <3> QED BY <3>1 DEF TypeOK, Fields
  <2>2. th' \in [Threads -> Local] /\ held' \in SUBSET Libs
    BY <1>8, <2>1, GotoStep, ReturnStep DEF Construct, PCs, TypeOK
  <2>3. lib' \in [Libs -> Fields]
    BY <1>8, <2>1 DEF Construct, TypeOK
  <2> QED BY <1>8, <2>1, <2>2, <2>3 DEF Construct, TypeOK
<1>9. ASSUME NEW t \in Threads, Put(t) PROVE TypeOK'
  <2>1. th[t].lib \in Libs /\ th[t].name \in AllNames
    BY <1>9 DEF Put, ThreadInv, Knows, At, TypeOK, Local
  <2>2. th' \in [Threads -> Local] /\ held' \in SUBSET Libs
    BY <1>9, <2>1, ReturnStep DEF Put, TypeOK
  <2> QED BY <1>9, <2>1, <2>2 DEF Put, TypeOK
<1>10. ASSUME NEW t \in Threads, ClearDlerror(t) PROVE TypeOK'
  <2>1. th' \in [Threads -> Local]
    BY <1>10, GotoStep DEF ClearDlerror, PCs
  <2> QED BY <1>10, <2>1 DEF ClearDlerror, Forgotten, TypeOK
<1>11. ASSUME NEW t \in Threads, DlSym(t) PROVE TypeOK'
  <2>1. th' \in [Threads -> Local]
    <3>1. Idle \in Local
      BY DEF Idle, Local, AllNames
    <3> QED BY <1>11, <3>1, GotoStep DEF DlSym, PCs, TypeOK
  <2>2. Message("dlsym", t) \in Messages
    BY DEF Message, Messages
  <2>3. /\ failure' \in [Threads -> Messages \cup {None}]
        /\ dlerr' \in [Slots -> Messages \cup {None}]
    BY <1>11, <2>2 DEF DlSym, TypeOK
  <2> QED BY <1>11, <2>1, <2>3 DEF DlSym, TypeOK
<1>12. ASSUME NEW t \in Threads, DlSymFails(t) PROVE TypeOK'
  <2>1. th' \in [Threads -> Local]
    BY <1>12, GotoStep DEF DlSymFails, PCs
  <2> QED BY <1>12, <2>1 DEF DlSymFails, Forgotten, TypeOK
<1>13. ASSUME NEW t \in Threads, CatchSymbol(t) PROVE TypeOK'
  <2>1. Said(t) \in Messages \cup {Unknown, None}
    BY DEF Said, TypeOK, Slots
  <2>2. th' \in [Threads -> Local]
    BY <1>13 DEF CatchSymbol, TypeOK, Idle, Local, AllNames
  <2> QED BY <1>13, <2>1, <2>2 DEF CatchSymbol, Forgotten, TypeOK
<1>14. ASSUME NEW l \in Libs, Forget(l) PROVE TypeOK'
  BY <1>14 DEF Forget, TypeOK, Idle, Local, AllNames
<1>15. ASSUME NEW l \in Libs, Clear(l) PROVE TypeOK'
  BY <1>15 DEF Clear, TypeOK, Idle, Local, AllNames
<1>16. ASSUME NEW l \in Libs, RunThunk(l) PROVE TypeOK'
  <2>1. count[lib[l].name] \in Nat /\ count[lib[l].name] > 0
    BY <1>16, OpenCounted DEF RunThunk
  <2>2. [lib[l] EXCEPT !.state = "closed"] \in Fields
    BY DEF TypeOK, Fields
  <2>3. lib' \in [Libs -> Fields]
    BY <1>16, <2>2 DEF RunThunk, TypeOK
  <2>4. count[lib[l].name] - 1 \in Nat
    BY <2>1
  <2>5. count' = [count EXCEPT ![lib[l].name] = count[lib[l].name] - 1]
    BY <1>16 DEF RunThunk
  <2>6. count' \in [AllNames -> Nat]
    BY <2>4, <2>5 DEF TypeOK
  <2> QED BY <1>16, <2>3, <2>6 DEF RunThunk, TypeOK
<1>17. CASE UNCHANGED vars
  BY <1>17 DEF vars, TypeOK, Idle, Local, AllNames
<1> QED BY <1>1, <1>2, <1>3, <1>4, <1>5, <1>6, <1>7, <1>8, <1>9, <1>10, <1>11, <1>12, <1>13, <1>14, <1>15, <1>16, <1>17 DEF Next

\* No step opens or closes a handle without its Library.
LEMMA AccountedNext ==
  ASSUME TypeOK, HandlesAccounted, ThreadInv, [Next]_vars
  PROVE  HandlesAccounted'
<1>1. ASSUME NEW t \in Threads, NEW n \in Names, GetCachedInstance(t, n) PROVE HandlesAccounted'
  BY <1>1 DEF GetCachedInstance, HandlesAccounted, Open
<1>2. ASSUME NEW t \in Threads, NEW n \in AllNames, OpenLibrary(t, n) PROVE HandlesAccounted'
  BY <1>2 DEF OpenLibrary, HandlesAccounted, Open
<1>3. ASSUME NEW t \in Threads, NEW l \in Libs, GetSymbolAddress(t, l) PROVE HandlesAccounted'
  BY <1>3 DEF GetSymbolAddress, HandlesAccounted, Open
<1>4. ASSUME NEW t \in Threads, Deref(t) PROVE HandlesAccounted'
  BY <1>4 DEF Deref, Goto, Return, HandlesAccounted, Open
<1>5. ASSUME NEW t \in Threads, GetDefault(t) PROVE HandlesAccounted'
  BY <1>5 DEF GetDefault, Return, HandlesAccounted, Open
<1>6. ASSUME NEW t \in Threads, DlOpen(t) PROVE HandlesAccounted'
  <2>1. CASE UNCHANGED <<lib, count>>
    BY <2>1 DEF HandlesAccounted, Open
  <2>2. CASE UNCHANGED <<dlerr, failure>> /\ ~UNCHANGED <<lib, count>>
    <3>1. PICK l \in Libs :
            /\ lib[l].state = "none"
            /\ lib' = [lib EXCEPT ![l] = [state |-> "opened", name |-> th[t].name,
                                          by |-> t, via |-> th[t].via]]
            /\ count' = [count EXCEPT ![th[t].name] = @ + 1]
      BY <1>6, <2>2 DEF DlOpen
    <3> PICK n \in AllNames : n = th[t].name
      BY DEF TypeOK, Local
    <3>2. Open(n)' = Open(n) \cup {l} /\ l \notin Open(n)
      BY <3>1 DEF Open, TypeOK
    <3>3. \A m \in AllNames \ {n} : Open(m)' = Open(m)
      BY <3>1 DEF Open, TypeOK
    <3>4. IsFiniteSet(Open(n))
      BY FS_Subset, LibraryAssumption DEF LibraryAssumption, Open
    <3>5. Cardinality(Open(n)') = Cardinality(Open(n)) + 1
      BY <3>2, <3>4, FS_AddElement
    <3>6. count' = [count EXCEPT ![n] = @ + 1]
      BY <3>1
    <3> QED BY <3>3, <3>5, <3>6 DEF HandlesAccounted, TypeOK
  <2> QED BY <1>6, <2>1, <2>2 DEF DlOpen
<1>7. ASSUME NEW t \in Threads, DlOpenFails(t) PROVE HandlesAccounted'
  BY <1>7 DEF DlOpenFails, HandlesAccounted, Open
<1>8. ASSUME NEW t \in Threads, Construct(t) PROVE HandlesAccounted'
  <2>1. lib' = [lib EXCEPT ![th[t].lib].state = "live"] /\ UNCHANGED count
    BY <1>8 DEF Construct
  <2>2. th[t].lib \in Libs /\ lib[th[t].lib].state = "opened"
    BY <1>8 DEF Construct, ThreadInv, Knows, At
  <2>3. \A n \in AllNames : Open(n)' = Open(n)
    BY <2>1, <2>2 DEF Open, TypeOK, Fields
  <2> QED BY <2>1, <2>3 DEF HandlesAccounted
<1>9. ASSUME NEW t \in Threads, Put(t) PROVE HandlesAccounted'
  BY <1>9 DEF Put, Return, HandlesAccounted, Open
<1>10. ASSUME NEW t \in Threads, ClearDlerror(t) PROVE HandlesAccounted'
  BY <1>10 DEF ClearDlerror, Goto, HandlesAccounted, Open
<1>11. ASSUME NEW t \in Threads, DlSym(t) PROVE HandlesAccounted'
  BY <1>11 DEF DlSym, Goto, HandlesAccounted, Open
<1>12. ASSUME NEW t \in Threads, DlSymFails(t) PROVE HandlesAccounted'
  BY <1>12 DEF DlSymFails, Goto, HandlesAccounted, Open
<1>13. ASSUME NEW t \in Threads, CatchSymbol(t) PROVE HandlesAccounted'
  BY <1>13 DEF CatchSymbol, HandlesAccounted, Open
<1>14. ASSUME NEW l \in Libs, Forget(l) PROVE HandlesAccounted'
  BY <1>14 DEF Forget, HandlesAccounted, Open
<1>15. ASSUME NEW l \in Libs, Clear(l) PROVE HandlesAccounted'
  BY <1>15 DEF Clear, HandlesAccounted, Open
<1>16. ASSUME NEW l \in Libs, RunThunk(l) PROVE HandlesAccounted'
  <2>1. /\ lib[l].state = "live"
        /\ lib' = [lib EXCEPT ![l].state = "closed"]
        /\ count' = [count EXCEPT ![lib[l].name] = @ - 1]
    BY <1>16 DEF RunThunk
  <2>2. Open(lib[l].name)' = Open(lib[l].name) \ {l} /\ l \in Open(lib[l].name)
    BY <2>1 DEF Open, TypeOK, Fields
  <2>3. \A n \in AllNames \ {lib[l].name} : Open(n)' = Open(n)
    BY <2>1 DEF Open, TypeOK, Fields
  <2>4. IsFiniteSet(Open(lib[l].name)) /\ lib[l].name \in AllNames
    BY FS_Subset, LibraryAssumption DEF LibraryAssumption, Open, TypeOK, Fields
  <2>5. Cardinality(Open(lib[l].name)') = Cardinality(Open(lib[l].name)) - 1
    <3> DEFINE S == Open(lib[l].name)
    <3> HIDE DEF S
    <3>1. S' = S \ {l} /\ l \in S /\ IsFiniteSet(S)
      BY <2>2, <2>4 DEF S
    <3>2. Cardinality(S \ {l}) = Cardinality(S) - 1
      BY <3>1, FS_RemoveElement, Zenon
    <3>3. Cardinality(S') = Cardinality(S) - 1
      BY <3>1, <3>2
    <3> QED BY <3>3 DEF S
  <2> QED BY <2>1, <2>3, <2>4, <2>5 DEF HandlesAccounted, TypeOK
<1>17. CASE UNCHANGED vars
  BY <1>17 DEF vars, HandlesAccounted, Open
<1> QED BY <1>1, <1>2, <1>3, <1>4, <1>5, <1>6, <1>7, <1>8, <1>9, <1>10, <1>11, <1>12, <1>13, <1>14, <1>15, <1>16, <1>17 DEF Next


\* A thread that does not move knows what it knew while no Library changes.
LEMMA OthersKnow ==
  ASSUME ThreadInv, UNCHANGED <<pinned, lib, cleared>>, NEW t \in Threads, Knows(t)',
         \A u \in Threads \ {t} : th'[u] = th[u]
  PROVE  ThreadInv'
BY DEF ThreadInv, Knows, At

\* Every step leaves each thread with what it knew.
LEMMA ThreadNext ==
  ASSUME TypeOK, ThreadInv, CollectInv, [Next]_vars
  PROVE  ThreadInv'
<1>1. ASSUME NEW t \in Threads, NEW n \in Names, GetCachedInstance(t, n) PROVE ThreadInv'
  <2>1. /\ th'[t] = [pc |-> IF cache[n] = None THEN "dlopen" ELSE "deref", name |-> n,
                     via |-> "cache", lib |-> cache[n]]
        /\ \A u \in Threads \ {t} : th'[u] = th[u]
    BY <1>1 DEF GetCachedInstance, TypeOK
  <2>2. Knows(t)'
    BY <1>1, <2>1 DEF GetCachedInstance, TypeOK, CollectInv, Knows, At
  <2> QED BY <1>1, <2>1, <2>2, OthersKnow DEF GetCachedInstance
<1>2. ASSUME NEW t \in Threads, NEW n \in AllNames, OpenLibrary(t, n) PROVE ThreadInv'
  <2>1. /\ th'[t] = [pc |-> "dlopen", name |-> n, via |-> "open", lib |-> None]
        /\ \A u \in Threads \ {t} : th'[u] = th[u]
    BY <1>2 DEF OpenLibrary, TypeOK
  <2>2. Knows(t)'
    BY <2>1 DEF Knows, At
  <2> QED BY <1>2, <2>1, <2>2, OthersKnow DEF OpenLibrary
<1>3. ASSUME NEW t \in Threads, NEW l \in Libs, GetSymbolAddress(t, l) PROVE ThreadInv'
  <2>1. /\ th'[t] = [pc |-> "clear", name |-> lib[l].name, via |-> "open", lib |-> l]
        /\ \A u \in Threads \ {t} : th'[u] = th[u]
    BY <1>3 DEF GetSymbolAddress, TypeOK
  <2>2. Knows(t)'
    BY <1>3, <2>1 DEF GetSymbolAddress, CollectInv, Knows, At
  <2> QED BY <1>3, <2>1, <2>2, OthersKnow DEF GetSymbolAddress
<1>4. ASSUME NEW t \in Threads, Deref(t) PROVE ThreadInv'
  <2>1. CASE Return(t, th[t].lib)
    <3>1. th'[t] = Idle /\ \A u \in Threads \ {t} : th'[u] = th[u]
      BY <2>1 DEF Return, TypeOK
    <3>2. Knows(t)'
      BY <3>1 DEF Knows, At, Idle
    <3> QED BY <1>4, <3>1, <3>2, OthersKnow DEF Deref
  <2>2. CASE Goto(t, "dlopen")
    <3>1. /\ th'[t] = [pc |-> "dlopen", name |-> th[t].name, via |-> th[t].via, lib |-> th[t].lib]
          /\ \A u \in Threads \ {t} : th'[u] = th[u]
      BY <2>2, GotoStep DEF PCs
    <3>2. Knows(t)'
      BY <1>4, <3>1 DEF Deref, ThreadInv, Knows, At
    <3> QED BY <1>4, <3>1, <3>2, OthersKnow DEF Deref
  <2> QED BY <1>4, <2>1, <2>2 DEF Deref
<1>5. ASSUME NEW t \in Threads, GetDefault(t) PROVE ThreadInv'
  <2>1. /\ th'[t] = Idle \/ th'[t] = [pc |-> "dlopen", name |-> Null, via |-> "default", lib |-> None]
        /\ \A u \in Threads \ {t} : th'[u] = th[u]
    BY <1>5 DEF GetDefault, Return, TypeOK
  <2>2. Knows(t)'
    BY <2>1 DEF Knows, At, Idle
  <2> QED BY <1>5, <2>1, <2>2, OthersKnow DEF GetDefault
<1>6. ASSUME NEW t \in Threads, DlOpen(t) PROVE ThreadInv'
  <2>1. CASE Goto(t, "dlerror") /\ UNCHANGED <<lib, count>>
    <3>1. /\ th'[t] = [pc |-> "dlerror", name |-> th[t].name, via |-> th[t].via, lib |-> th[t].lib]
          /\ \A u \in Threads \ {t} : th'[u] = th[u]
      BY <2>1, GotoStep DEF PCs
    <3>2. Knows(t)'
      BY <1>6, <3>1 DEF DlOpen, ThreadInv, Knows, At
    <3> QED BY <1>6, <2>1, <3>1, <3>2, OthersKnow DEF DlOpen
  <2>2. CASE \E l \in Libs :
               /\ lib[l].state = "none"
               /\ lib' = [lib EXCEPT ![l] = [state |-> "opened", name |-> th[t].name,
                                             by |-> t, via |-> th[t].via]]
               /\ th' = [th EXCEPT ![t] = [pc |-> "construct", name |-> th[t].name,
                                           via |-> th[t].via, lib |-> l]]
    <3>1. PICK l \in Libs :
               /\ lib[l].state = "none"
               /\ lib' = [lib EXCEPT ![l] = [state |-> "opened", name |-> th[t].name,
                                             by |-> t, via |-> th[t].via]]
               /\ th' = [th EXCEPT ![t] = [pc |-> "construct", name |-> th[t].name,
                                           via |-> th[t].via, lib |-> l]]
      BY <2>2
    <3>2. /\ th'[t] = [pc |-> "construct", name |-> th[t].name, via |-> th[t].via, lib |-> l]
          /\ lib'[l] = [state |-> "opened", name |-> th[t].name, by |-> t, via |-> th[t].via]
          /\ \A u \in Threads \ {t} : th'[u] = th[u]
          /\ \A m \in Libs \ {l} : lib'[m] = lib[m]
      BY <3>1 DEF TypeOK
    <3>3. Knows(t)'
      BY <1>6, <3>2 DEF DlOpen, ThreadInv, Knows, At
    <3>4. ASSUME NEW u \in Threads \ {t} PROVE Knows(u)'
      <4>1. Knows(u) /\ th'[u] = th[u] /\ pinned' = pinned /\ cleared' = cleared
        BY <1>6, <3>2 DEF DlOpen, ThreadInv
      <4> QED BY <3>1, <3>2, <4>1 DEF Knows, At
    <3> QED BY <3>3, <3>4 DEF ThreadInv
  <2> QED BY <1>6, <2>1, <2>2 DEF DlOpen
<1>7. ASSUME NEW t \in Threads, DlOpenFails(t) PROVE ThreadInv'
  <2>1. /\ th'[t] = Idle
        /\ \A u \in Threads \ {t} : th'[u] = th[u]
    BY <1>7 DEF DlOpenFails, Return, TypeOK
  <2>2. Knows(t)'
    BY <2>1 DEF Knows, At, Idle
  <2> QED BY <1>7, <2>1, <2>2, OthersKnow DEF DlOpenFails
<1>8. ASSUME NEW t \in Threads, Construct(t) PROVE ThreadInv'
  <2>1. /\ th[t].lib \in Libs /\ lib[th[t].lib].state = "opened" /\ lib[th[t].lib].by = t
        /\ lib[th[t].lib].name = th[t].name
        /\ th[t].via = "cache" => th[t].name \in Names
        /\ th[t].lib \notin cleared
    BY <1>8 DEF Construct, ThreadInv, CollectInv, Knows, At
  <2> PICK l \in Libs : l = th[t].lib
    BY <2>1
  <2>2. /\ lib'[l] = [state |-> "live", name |-> lib[l].name, by |-> lib[l].by, via |-> lib[l].via]
        /\ \A m \in Libs \ {l} : lib'[m] = lib[m]
        /\ UNCHANGED <<pinned, cleared>>
    BY <1>8 DEF Construct, TypeOK, Fields
  <2>3. /\ \/ th'[t] = [pc |-> "put", name |-> th[t].name, via |-> th[t].via, lib |-> l]
              /\ th[t].via = "cache"
           \/ th'[t] = Idle
        /\ \A u \in Threads \ {t} : th'[u] = th[u]
    BY <1>8, GotoStep DEF Construct, Return, PCs, TypeOK
  <2>4. Knows(t)'
    BY <2>1, <2>2, <2>3 DEF Knows, At, Idle
  <2>5. ASSUME NEW u \in Threads \ {t} PROVE Knows(u)'
    <3>1. Knows(u) /\ th'[u] = th[u]
      BY <2>3 DEF ThreadInv
    <3> QED BY <2>1, <2>2, <3>1 DEF Knows, At
  <2> QED BY <2>4, <2>5 DEF ThreadInv
<1>9. ASSUME NEW t \in Threads, Put(t) PROVE ThreadInv'
  <2>1. /\ th'[t] = Idle
        /\ \A u \in Threads \ {t} : th'[u] = th[u]
    BY <1>9 DEF Put, Return, TypeOK
  <2>2. Knows(t)'
    BY <2>1 DEF Knows, At, Idle
  <2> QED BY <1>9, <2>1, <2>2, OthersKnow DEF Put
<1>10. ASSUME NEW t \in Threads, ClearDlerror(t) PROVE ThreadInv'
  <2>1. /\ th'[t] = [pc |-> "dlsym", name |-> th[t].name, via |-> th[t].via, lib |-> th[t].lib]
        /\ \A u \in Threads \ {t} : th'[u] = th[u]
    BY <1>10, GotoStep DEF ClearDlerror, PCs
  <2>2. Knows(t)'
    BY <1>10, <2>1 DEF ClearDlerror, ThreadInv, Knows, At
  <2> QED BY <1>10, <2>1, <2>2, OthersKnow DEF ClearDlerror
<1>11. ASSUME NEW t \in Threads, DlSym(t) PROVE ThreadInv'
  <2>1. /\ \/ th'[t] = Idle
           \/ th'[t] = [pc |-> "symerror", name |-> th[t].name, via |-> th[t].via, lib |-> th[t].lib]
        /\ \A u \in Threads \ {t} : th'[u] = th[u]
    BY <1>11, GotoStep DEF DlSym, PCs, TypeOK
  <2>2. Knows(t)'
    BY <1>11, <2>1 DEF DlSym, ThreadInv, Knows, At, Idle
  <2> QED BY <1>11, <2>1, <2>2, OthersKnow DEF DlSym
<1>12. ASSUME NEW t \in Threads, DlSymFails(t) PROVE ThreadInv'
  <2>1. /\ th'[t] = [pc |-> "catch", name |-> th[t].name, via |-> th[t].via, lib |-> th[t].lib]
        /\ \A u \in Threads \ {t} : th'[u] = th[u]
    BY <1>12, GotoStep DEF DlSymFails, PCs
  <2>2. Knows(t)'
    BY <1>12, <2>1 DEF DlSymFails, ThreadInv, Knows, At
  <2> QED BY <1>12, <2>1, <2>2, OthersKnow DEF DlSymFails
<1>13. ASSUME NEW t \in Threads, CatchSymbol(t) PROVE ThreadInv'
  <2>1. /\ th'[t] = Idle
        /\ \A u \in Threads \ {t} : th'[u] = th[u]
    BY <1>13 DEF CatchSymbol, Return, TypeOK
  <2>2. Knows(t)'
    BY <2>1 DEF Knows, At, Idle
  <2> QED BY <1>13, <2>1, <2>2, OthersKnow DEF CatchSymbol
<1>14. ASSUME NEW l \in Libs, Forget(l) PROVE ThreadInv'
  BY <1>14 DEF Forget, ThreadInv, Knows, At, Idle, TypeOK
<1>15. ASSUME NEW l \in Libs, Clear(l) PROVE ThreadInv'
  <2>1. ASSUME NEW u \in Threads PROVE Knows(u)'
    <3>1. Knows(u) /\ (th[u].pc = "put" => th[u].lib # l)
      BY <1>15 DEF Clear, StronglyReachable, ThreadInv
    <3> QED BY <1>15, <3>1 DEF Clear, Knows, At
  <2> QED BY <2>1 DEF ThreadInv
<1>16. ASSUME NEW l \in Libs, RunThunk(l) PROVE ThreadInv'
  <2>1. /\ lib'[l] = [state |-> "closed", name |-> lib[l].name, by |-> lib[l].by, via |-> lib[l].via]
        /\ \A m \in Libs \ {l} : lib'[m] = lib[m]
        /\ l \in cleared /\ lib[l].state = "live" /\ ~pinned
        /\ UNCHANGED <<pinned, cleared, th>>
    BY <1>16 DEF RunThunk, TypeOK, Fields, CollectInv
  <2>2. ASSUME NEW u \in Threads PROVE Knows(u)'
    <3>1. Knows(u)
      BY DEF ThreadInv
    <3> QED BY <2>1, <3>1 DEF Knows, At
  <2> QED BY <2>2 DEF ThreadInv
<1>17. CASE UNCHANGED vars
  BY <1>17 DEF vars, ThreadInv, Knows, At, Idle, TypeOK
<1> QED BY <1>1, <1>2, <1>3, <1>4, <1>5, <1>6, <1>7, <1>8, <1>9, <1>10, <1>11, <1>12, <1>13, <1>14, <1>15, <1>16, <1>17 DEF Next

\* No step collects what is referred to, or hands out what is collected.
LEMMA CollectNext ==
  ASSUME TypeOK, ThreadInv, CollectInv, [Next]_vars
  PROVE  CollectInv'
<1>1. ASSUME NEW t \in Threads, NEW n \in Names, GetCachedInstance(t, n) PROVE CollectInv'
  BY <1>1 DEF GetCachedInstance, CollectInv, TypeOK
<1>2. ASSUME NEW t \in Threads, NEW n \in AllNames, OpenLibrary(t, n) PROVE CollectInv'
  BY <1>2 DEF OpenLibrary, CollectInv, TypeOK
<1>3. ASSUME NEW t \in Threads, NEW l \in Libs, GetSymbolAddress(t, l) PROVE CollectInv'
  BY <1>3 DEF GetSymbolAddress, CollectInv, TypeOK
<1>4. ASSUME NEW t \in Threads, Deref(t) PROVE CollectInv'
  <2>1. /\ th[t].lib \in Libs
        /\ th[t].lib \notin cleared => lib[th[t].lib].state = "live"
    BY <1>4 DEF Deref, ThreadInv, Knows, At, CollectInv
  <2>2. held' \in SUBSET (held \cup (Libs \ cleared))
    BY <1>4, <2>1 DEF Deref, Return, TypeOK
  <2>3. \A m \in held' : m \in held \/ (m = th[t].lib /\ m \notin cleared)
    BY <1>4, <2>1 DEF Deref, Return, TypeOK
  <2> QED BY <1>4, <2>1, <2>3 DEF Deref, CollectInv
<1>5. ASSUME NEW t \in Threads, GetDefault(t) PROVE CollectInv'
  BY <1>5 DEF GetDefault, Return, CollectInv, TypeOK
<1>6. ASSUME NEW t \in Threads, DlOpen(t) PROVE CollectInv'
  <2>1. CASE UNCHANGED lib
    BY <1>6, <2>1 DEF DlOpen, CollectInv
  <2>2. CASE ~UNCHANGED lib
    <3>1. PICK l \in Libs :
             /\ lib[l].state = "none"
             /\ lib' = [lib EXCEPT ![l] = [state |-> "opened", name |-> th[t].name,
                                           by |-> t, via |-> th[t].via]]
      BY <1>6, <2>2 DEF DlOpen
    <3>2. /\ lib'[l] = [state |-> "opened", name |-> th[t].name, by |-> t, via |-> th[t].via]
          /\ \A m \in Libs \ {l} : lib'[m] = lib[m]
      BY <3>1 DEF TypeOK
    <3>3. th[t].via = "cache" => th[t].name \in Names
      BY DEF ThreadInv, Knows
    <3> QED BY <1>6, <3>1, <3>2, <3>3 DEF DlOpen, CollectInv
  <2> QED BY <2>1, <2>2
<1>7. ASSUME NEW t \in Threads, DlOpenFails(t) PROVE CollectInv'
  <2>1. \A l \in Libs : default' = l => default = l
    BY <1>7, LibraryAssumption DEF DlOpenFails, LibraryAssumption
  <2> QED BY <1>7, <2>1 DEF DlOpenFails, CollectInv
<1>8. ASSUME NEW t \in Threads, Construct(t) PROVE CollectInv'
  <2> PICK l \in Libs : l = th[t].lib
    BY <1>8 DEF Construct, ThreadInv, Knows, At
  <2>1. /\ lib'[l] = [state |-> "live", name |-> lib[l].name, by |-> lib[l].by, via |-> lib[l].via]
        /\ \A m \in Libs \ {l} : lib'[m] = lib[m]
    BY <1>8 DEF Construct, TypeOK, Fields
  <2>2. /\ lib[l].state = "opened" /\ lib[l].via = th[t].via /\ lib[l].by = t
        /\ lib[l].name = th[t].name /\ l \notin cleared
    BY <1>8 DEF Construct, ThreadInv, CollectInv, Knows, At
  <2>3. UNCHANGED <<pinned, cache, cleared>> /\ (default' = default \/ default' = l)
        /\ (held' = held \/ held' = held \cup {l})
    BY <1>8 DEF Construct, Return
  <2> QED BY <2>1, <2>2, <2>3 DEF CollectInv
<1>9. ASSUME NEW t \in Threads, Put(t) PROVE CollectInv'
  <2>1. /\ th[t].lib \in Libs /\ lib[th[t].lib].state = "live" /\ th[t].lib \notin cleared
    BY <1>9 DEF Put, ThreadInv, Knows, At
  <2>2. \A n \in Names, l \in Libs : cache'[n] = l => cache[n] = l \/ l = th[t].lib
    BY <1>9 DEF Put, TypeOK
  <2>3. held' = held \cup {th[t].lib} /\ UNCHANGED <<pinned, lib, cleared, default>>
    BY <1>9 DEF Put, Return
  <2> QED BY <2>1, <2>2, <2>3 DEF CollectInv
<1>10. ASSUME NEW t \in Threads, ClearDlerror(t) PROVE CollectInv'
  BY <1>10 DEF ClearDlerror, Goto, CollectInv, TypeOK
<1>11. ASSUME NEW t \in Threads, DlSym(t) PROVE CollectInv'
  BY <1>11 DEF DlSym, Goto, CollectInv, TypeOK
<1>12. ASSUME NEW t \in Threads, DlSymFails(t) PROVE CollectInv'
  BY <1>12 DEF DlSymFails, Goto, CollectInv, TypeOK
<1>13. ASSUME NEW t \in Threads, CatchSymbol(t) PROVE CollectInv'
  BY <1>13 DEF CatchSymbol, CollectInv, TypeOK
<1>14. ASSUME NEW l \in Libs, Forget(l) PROVE CollectInv'
  BY <1>14 DEF Forget, CollectInv, TypeOK
<1>15. ASSUME NEW l \in Libs, Clear(l) PROVE CollectInv'
  <2>1. lib[l].state = "live" /\ ~pinned /\ l \notin held /\ default # l
    BY <1>15 DEF Clear, StronglyReachable
  <2> QED BY <1>15, <2>1 DEF Clear, CollectInv, TypeOK
<1>16. ASSUME NEW l \in Libs, RunThunk(l) PROVE CollectInv'
  BY <1>16 DEF RunThunk, CollectInv, TypeOK
<1>17. CASE UNCHANGED vars
  BY <1>17 DEF vars, CollectInv, TypeOK
<1> QED BY <1>1, <1>2, <1>3, <1>4, <1>5, <1>6, <1>7, <1>8, <1>9, <1>10, <1>11, <1>12, <1>13, <1>14, <1>15, <1>16, <1>17 DEF Next

\* No step makes a thread open a cached name twice.
LEMMA OpenedNext ==
  ASSUME TypeOK, ThreadInv, CollectInv, OpenedInv, OneOpenPerThread, [Next]_vars
  PROVE  OpenedInv' /\ OneOpenPerThread'
<1>1. ASSUME NEW t \in Threads, NEW n \in Names, GetCachedInstance(t, n) PROVE OpenedInv' /\ OneOpenPerThread'
  BY <1>1 DEF GetCachedInstance, OpenedInv, OneOpenPerThread, At, Idle, TypeOK
<1>2. ASSUME NEW t \in Threads, NEW n \in AllNames, OpenLibrary(t, n) PROVE OpenedInv' /\ OneOpenPerThread'
  BY <1>2 DEF OpenLibrary, OpenedInv, OneOpenPerThread, At, Idle, TypeOK
<1>3. ASSUME NEW t \in Threads, NEW l \in Libs, GetSymbolAddress(t, l) PROVE OpenedInv' /\ OneOpenPerThread'
  BY <1>3 DEF GetSymbolAddress, OpenedInv, OneOpenPerThread, At, Idle, TypeOK
<1>4. ASSUME NEW t \in Threads, Deref(t) PROVE OpenedInv' /\ OneOpenPerThread'
  <2>1. th[t].lib \in Libs /\ (pinned => th[t].lib \notin cleared)
    BY <1>4 DEF Deref, ThreadInv, Knows, At, CollectInv
  <2>2. pinned => th'[t] = Idle /\ \A u \in Threads \ {t} : th'[u] = th[u]
    BY <1>4, <2>1 DEF Deref, Return, TypeOK
  <2> QED BY <1>4, <2>2 DEF Deref, OpenedInv, OneOpenPerThread, At, Idle
<1>5. ASSUME NEW t \in Threads, GetDefault(t) PROVE OpenedInv' /\ OneOpenPerThread'
  BY <1>5 DEF GetDefault, Return, OpenedInv, OneOpenPerThread, At, Idle, TypeOK
<1>6. ASSUME NEW t \in Threads, DlOpen(t) PROVE OpenedInv' /\ OneOpenPerThread'
  <2>1. CASE Goto(t, "dlerror") /\ UNCHANGED <<lib, count>>
    <3>1. th'[t].pc = "dlerror" /\ \A u \in Threads \ {t} : th'[u] = th[u]
      BY <2>1, GotoStep DEF PCs
    <3> QED BY <1>6, <2>1, <3>1 DEF DlOpen, OpenedInv, OneOpenPerThread, At
  <2>2. CASE \E l \in Libs :
               /\ lib[l].state = "none"
               /\ lib' = [lib EXCEPT ![l] = [state |-> "opened", name |-> th[t].name,
                                             by |-> t, via |-> th[t].via]]
               /\ th' = [th EXCEPT ![t] = [pc |-> "construct", name |-> th[t].name,
                                           via |-> th[t].via, lib |-> l]]
    <3>1. PICK l \in Libs :
               /\ lib[l].state = "none"
               /\ lib' = [lib EXCEPT ![l] = [state |-> "opened", name |-> th[t].name,
                                             by |-> t, via |-> th[t].via]]
               /\ th' = [th EXCEPT ![t] = [pc |-> "construct", name |-> th[t].name,
                                           via |-> th[t].via, lib |-> l]]
      BY <2>2
    <3>2. /\ th'[t] = [pc |-> "construct", name |-> th[t].name, via |-> th[t].via, lib |-> l]
          /\ lib'[l] = [state |-> "opened", name |-> th[t].name, by |-> t, via |-> th[t].via]
          /\ \A u \in Threads \ {t} : th'[u] = th[u]
          /\ \A m \in Libs \ {l} : lib'[m] = lib[m]
      BY <3>1 DEF TypeOK
    <3>3. UNCHANGED <<pinned, cache>> /\ At(t, "dlopen")
      BY <1>6 DEF DlOpen
    <3>4. pinned /\ th[t].via = "cache" => \A m \in Libs :
            ~(lib[m].state # "none" /\ lib[m].via = "cache" /\ lib[m].name = th[t].name /\ lib[m].by = t)
      BY <3>3 DEF OpenedInv
    <3>5. OneOpenPerThread'
      BY <3>2, <3>3, <3>4 DEF OneOpenPerThread
    <3>6. OpenedInv'
      BY <3>1, <3>2, <3>3 DEF OpenedInv, At
    <3> QED BY <3>5, <3>6
  <2> QED BY <1>6, <2>1, <2>2 DEF DlOpen
<1>7. ASSUME NEW t \in Threads, DlOpenFails(t) PROVE OpenedInv' /\ OneOpenPerThread'
  BY <1>7 DEF DlOpenFails, OpenedInv, OneOpenPerThread, At, Idle, TypeOK
<1>8. ASSUME NEW t \in Threads, Construct(t) PROVE OpenedInv' /\ OneOpenPerThread'
  <2> PICK l \in Libs : l = th[t].lib
    BY <1>8 DEF Construct, ThreadInv, Knows, At
  <2>1. /\ lib'[l] = [state |-> "live", name |-> lib[l].name, by |-> lib[l].by, via |-> lib[l].via]
        /\ \A m \in Libs \ {l} : lib'[m] = lib[m]
    BY <1>8 DEF Construct, TypeOK, Fields
  <2>2. /\ lib[l].state = "opened" /\ lib[l].via = th[t].via /\ lib[l].by = t
        /\ lib[l].name = th[t].name /\ l \notin cleared
    BY <1>8 DEF Construct, ThreadInv, CollectInv, Knows, At
  <2>3. UNCHANGED <<pinned, cache>>
        /\ \/ th'[t] = [pc |-> "put", name |-> th[t].name, via |-> th[t].via, lib |-> l]
           \/ th'[t] = Idle /\ th[t].via # "cache"
        /\ \A u \in Threads \ {t} : th'[u] = th[u]
    BY <1>8, GotoStep DEF Construct, Return, PCs, TypeOK
  <2>4. OneOpenPerThread'
    BY <2>1, <2>2, <2>3 DEF OneOpenPerThread
  <2>5. OpenedInv'
    BY <2>1, <2>2, <2>3 DEF OpenedInv, At, Idle
  <2> QED BY <2>4, <2>5
<1>9. ASSUME NEW t \in Threads, Put(t) PROVE OpenedInv' /\ OneOpenPerThread'
  <2>1. /\ th[t].lib \in Libs /\ lib[th[t].lib].name = th[t].name /\ th[t].name \in Names
    BY <1>9 DEF Put, ThreadInv, Knows, At
  <2>2. /\ cache'[th[t].name] # None
        /\ \A n \in AllNames : cache[n] # None => cache'[n] # None
    BY <1>9, <2>1, LibraryAssumption DEF Put, LibraryAssumption, TypeOK, AllNames
  <2>3. /\ th'[t] = Idle /\ \A u \in Threads \ {t} : th'[u] = th[u]
        /\ UNCHANGED <<pinned, lib>>
    BY <1>9 DEF Put, Return, TypeOK
  <2>4. \A m \in Libs : lib[m].name \in AllNames
    BY DEF TypeOK, Fields
  <2> QED BY <2>1, <2>2, <2>3, <2>4 DEF OpenedInv, OneOpenPerThread, At, Idle
<1>10. ASSUME NEW t \in Threads, ClearDlerror(t) PROVE OpenedInv' /\ OneOpenPerThread'
  BY <1>10 DEF ClearDlerror, Goto, OpenedInv, OneOpenPerThread, At, Idle, TypeOK
<1>11. ASSUME NEW t \in Threads, DlSym(t) PROVE OpenedInv' /\ OneOpenPerThread'
  <2>0. Idle.pc = "idle"
    BY DEF Idle
  <2>1. /\ th'[t].pc \in {"idle", "symerror"} /\ At(t, "dlsym")
        /\ \A u \in Threads \ {t} : th'[u] = th[u]
    BY <1>11, <2>0, GotoStep DEF DlSym, PCs, TypeOK
  <2> QED BY <1>11, <2>1 DEF DlSym, OpenedInv, OneOpenPerThread, At
<1>12. ASSUME NEW t \in Threads, DlSymFails(t) PROVE OpenedInv' /\ OneOpenPerThread'
  BY <1>12 DEF DlSymFails, Goto, OpenedInv, OneOpenPerThread, At, Idle, TypeOK
<1>13. ASSUME NEW t \in Threads, CatchSymbol(t) PROVE OpenedInv' /\ OneOpenPerThread'
  BY <1>13 DEF CatchSymbol, OpenedInv, OneOpenPerThread, At, Idle, TypeOK
<1>14. ASSUME NEW l \in Libs, Forget(l) PROVE OpenedInv' /\ OneOpenPerThread'
  BY <1>14 DEF Forget, OpenedInv, OneOpenPerThread, At, Idle, TypeOK
<1>15. ASSUME NEW l \in Libs, Clear(l) PROVE OpenedInv' /\ OneOpenPerThread'
  BY <1>15 DEF Clear, OpenedInv, OneOpenPerThread, At, Idle, TypeOK
<1>16. ASSUME NEW l \in Libs, RunThunk(l) PROVE OpenedInv' /\ OneOpenPerThread'
  BY <1>16 DEF RunThunk, OpenedInv, OneOpenPerThread, At, Idle, TypeOK
<1>17. CASE UNCHANGED vars
  BY <1>17 DEF vars, OpenedInv, OneOpenPerThread, At, Idle, TypeOK
<1> QED BY <1>1, <1>2, <1>3, <1>4, <1>5, <1>6, <1>7, <1>8, <1>9, <1>10, <1>11, <1>12, <1>13, <1>14, <1>15, <1>16, <1>17 DEF Next

\* Every step keeps a message until it is reported.
LEMMA ErrorNext ==
  ASSUME TypeOK, ThreadInv, ErrorInv, [Next]_vars
  PROVE  ErrorInv'
<1>1. ASSUME NEW t \in Threads, NEW n \in Names, GetCachedInstance(t, n) PROVE ErrorInv'
  BY <1>1 DEF GetCachedInstance, ErrorInv, Reported, TypeOK, At, Idle, Slot, Slots, Forgotten, Said, Message
<1>2. ASSUME NEW t \in Threads, NEW n \in AllNames, OpenLibrary(t, n) PROVE ErrorInv'
  BY <1>2 DEF OpenLibrary, ErrorInv, Reported, TypeOK, At, Idle, Slot, Slots, Forgotten, Said, Message
<1>3. ASSUME NEW t \in Threads, NEW l \in Libs, GetSymbolAddress(t, l) PROVE ErrorInv'
  BY <1>3 DEF GetSymbolAddress, ErrorInv, Reported, TypeOK, At, Idle, Slot, Slots, Forgotten, Said, Message
<1>4. ASSUME NEW t \in Threads, Deref(t) PROVE ErrorInv'
  <2>0. Idle.pc = "idle"
    BY DEF Idle
  <2>1. /\ th'[t].pc \in {"idle", "dlopen"} /\ At(t, "deref")
        /\ \A u \in Threads \ {t} : th'[u] = th[u]
    BY <1>4, <2>0, GotoStep DEF Deref, Return, PCs, TypeOK
  <2> QED BY <1>4, <2>1 DEF Deref, ErrorInv, Reported, At
<1>5. ASSUME NEW t \in Threads, GetDefault(t) PROVE ErrorInv'
  BY <1>5 DEF GetDefault, Return, ErrorInv, Reported, TypeOK, At, Idle, Slot, Slots, Forgotten, Said, Message
<1>6. ASSUME NEW t \in Threads, DlOpen(t) PROVE ErrorInv'
  <2>1. CASE Goto(t, "dlerror") /\ dlerr' = [dlerr EXCEPT ![Slot(t)] = Message("dlopen", t)]
                                /\ failure' = [failure EXCEPT ![t] = Message("dlopen", t)]
    <3>1. th'[t].pc = "dlerror" /\ \A u \in Threads \ {t} : th'[u] = th[u]
      BY <2>1, GotoStep DEF PCs
    <3> QED BY <1>6, <2>1, <3>1 DEF DlOpen, ErrorInv, Reported, At, Slot, Slots, TypeOK
  <2>2. CASE UNCHANGED <<dlerr, failure>> /\ \E l \in Libs :
               th' = [th EXCEPT ![t] = [pc |-> "construct", name |-> th[t].name,
                                        via |-> th[t].via, lib |-> l]]
    <3>1. th'[t].pc = "construct" /\ At(t, "dlopen") /\ \A u \in Threads \ {t} : th'[u] = th[u]
      BY <1>6, <2>2 DEF DlOpen, TypeOK
    <3> QED BY <1>6, <2>2, <3>1 DEF DlOpen, ErrorInv, Reported, At
  <2> QED BY <1>6, <2>1, <2>2 DEF DlOpen
<1>7. ASSUME NEW t \in Threads, DlOpenFails(t) PROVE ErrorInv'
  BY <1>7 DEF DlOpenFails, ErrorInv, Reported, TypeOK, At, Idle, Slot, Slots, Forgotten, Said, Message
<1>8. ASSUME NEW t \in Threads, Construct(t) PROVE ErrorInv'
  <2>0. Idle.pc = "idle"
    BY DEF Idle
  <2>1. /\ th'[t].pc \in {"idle", "put"} /\ At(t, "construct")
        /\ \A u \in Threads \ {t} : th'[u] = th[u]
    BY <1>8, <2>0, GotoStep DEF Construct, Return, PCs, TypeOK
  <2> QED BY <1>8, <2>1 DEF Construct, ErrorInv, Reported, At
<1>9. ASSUME NEW t \in Threads, Put(t) PROVE ErrorInv'
  BY <1>9 DEF Put, Return, ErrorInv, Reported, TypeOK, At, Idle, Slot, Slots, Forgotten, Said, Message
<1>10. ASSUME NEW t \in Threads, ClearDlerror(t) PROVE ErrorInv'
  BY <1>10 DEF ClearDlerror, Goto, ErrorInv, Reported, TypeOK, At, Idle, Slot, Slots, Forgotten, Said, Message
<1>11. ASSUME NEW t \in Threads, DlSym(t) PROVE ErrorInv'
  <2>1. CASE th' = [th EXCEPT ![t] = Idle] /\ UNCHANGED <<dlerr, failure>>
    BY <1>11, <2>1 DEF DlSym, ErrorInv, Reported, At, Idle, TypeOK
  <2>2. CASE Goto(t, "symerror") /\ failure'[t] \in {None, Message("dlsym", t)}
              /\ \A u \in Threads \ {t} :
                   failure'[u] = failure[u] /\ (~SharedDlerror => dlerr'[u] = dlerr[u])
    <3>1. th'[t].pc = "symerror" /\ \A u \in Threads \ {t} : th'[u] = th[u]
      BY <2>2, GotoStep DEF PCs
    <3>2. UNCHANGED lastError /\ (Message("dlsym", t)).op = "dlsym"
      BY <1>11 DEF DlSym, Message
    <3>3. failure'[t] = None \/ (failure'[t]).op = "dlsym"
      BY <2>2, <3>2
    <3>4. Reported(t)'
      BY <3>1, <3>3 DEF Reported, At
    <3>5. ASSUME ~SharedDlerror, NEW u \in Threads \ {t} PROVE Reported(u)'
      BY <2>2, <3>1, <3>2, <3>5 DEF ErrorInv, Reported, At
    <3> QED BY <3>4, <3>5 DEF ErrorInv
  <2> QED BY <1>11, <2>1, <2>2 DEF DlSym, TypeOK, Slot, Slots
<1>12. ASSUME NEW t \in Threads, DlSymFails(t) PROVE ErrorInv'
  BY <1>12 DEF DlSymFails, Goto, ErrorInv, Reported, TypeOK, At, Idle, Slot, Slots, Forgotten, Said, Message
<1>13. ASSUME NEW t \in Threads, CatchSymbol(t) PROVE ErrorInv'
  BY <1>13 DEF CatchSymbol, ErrorInv, Reported, TypeOK, At, Idle, Slot, Slots, Forgotten, Said, Message
<1>14. ASSUME NEW l \in Libs, Forget(l) PROVE ErrorInv'
  BY <1>14 DEF Forget, ErrorInv, Reported, TypeOK, At, Idle, Slot, Slots, Forgotten, Said, Message
<1>15. ASSUME NEW l \in Libs, Clear(l) PROVE ErrorInv'
  BY <1>15 DEF Clear, ErrorInv, Reported, TypeOK, At, Idle, Slot, Slots, Forgotten, Said, Message
<1>16. ASSUME NEW l \in Libs, RunThunk(l) PROVE ErrorInv'
  BY <1>16 DEF RunThunk, ErrorInv, Reported, TypeOK, At, Idle, Slot, Slots, Forgotten, Said, Message
<1>17. CASE UNCHANGED vars
  BY <1>17 DEF vars, ErrorInv, Reported, TypeOK, At, Idle, Slot, Slots, Forgotten, Said, Message
<1> QED BY <1>1, <1>2, <1>3, <1>4, <1>5, <1>6, <1>7, <1>8, <1>9, <1>10, <1>11, <1>12, <1>13, <1>14, <1>15, <1>16, <1>17 DEF Next


\* At the start nothing is open.
LEMMA InitInv == Init => LibraryInv
<1> SUFFICES ASSUME Init PROVE LibraryInv
  OBVIOUS
<1> USE LibraryAssumption DEF Init, LibraryAssumption, Idle
<1>1. TypeOK
  BY DEF TypeOK, Fields, Local, AllNames
<1>2. HandlesAccounted
  <2>1. \A n \in AllNames : Open(n) = {}
    BY DEF Open
  <2> QED BY <2>1, FS_EmptySet DEF HandlesAccounted
<1>3. ThreadInv /\ CollectInv
  BY DEF ThreadInv, Knows, CollectInv, At
<1>4. OpenedInv /\ OneOpenPerThread /\ ErrorInv
  BY DEF OpenedInv, OneOpenPerThread, ErrorInv, Reported, At
<1> QED BY <1>1, <1>2, <1>3, <1>4 DEF LibraryInv

\* Every step keeps the invariant.
LEMMA NextInv == LibraryInv /\ [Next]_vars => LibraryInv'
BY TypeNext, AccountedNext, ThreadNext, CollectNext, OpenedNext, ErrorNext DEF LibraryInv

\* The inductive invariant of opening, caching, collecting and reporting.
THEOREM LibraryInvariance == Spec => []LibraryInv
BY InitInv, NextInv, PTL DEF Spec

\* The count of open handles is the number of Libraries that keep one open:
\* no race closes a handle twice or leaks one.
THEOREM HandlesBalance == Spec => []HandlesAccounted
<1>1. LibraryInv => HandlesAccounted
  BY DEF LibraryInv
<1> QED BY <1>1, LibraryInvariance, PTL

\* What the application holds is open.
THEOREM HeldIsOpen == Spec => []UsableIsOpen
<1>1. LibraryInv => UsableIsOpen
  BY OpenCounted DEF LibraryInv, UsableIsOpen, CollectInv
<1> QED BY <1>1, LibraryInvariance, PTL

\* dlsym is never given a closed handle: the thunk that keeps every Library
\* alive is what makes getSymbolAddress safe.
THEOREM SymbolsAreSafe == Spec => []SymbolFromOpenHandle
<1>1. ASSUME LibraryInv, NEW t \in Threads, pinned, At(t, "dlsym")
      PROVE  count[th[t].name] > 0
  <2>1. /\ th[t].lib \in Libs /\ lib[th[t].lib].name = th[t].name
        /\ lib[th[t].lib].state = "live"
    BY <1>1 DEF LibraryInv, ThreadInv, Knows, At
  <2> QED BY <1>1, <2>1, OpenCounted DEF LibraryInv
<1>2. LibraryInv => SymbolFromOpenHandle
  BY <1>1 DEF SymbolFromOpenHandle
<1> QED BY <1>2, LibraryInvariance, PTL

\* A thread opens a cached name once, whatever races it loses.
THEOREM OpensBounded == Spec => []OneOpenPerThread
<1>1. LibraryInv => OneOpenPerThread
  BY DEF LibraryInv
<1> QED BY <1>1, LibraryInvariance, PTL

\* Where dlerror is kept per thread, a failed open is reported to its thread.
THEOREM OwnErrors == Spec => [](~SharedDlerror => ErrorOfOwnOpen)
<1>1. LibraryInv => (~SharedDlerror => ErrorOfOwnOpen)
  BY DEF LibraryInv, ErrorInv, Reported, ErrorOfOwnOpen, At
<1> QED BY <1>1, LibraryInvariance, PTL

----------------------------------------------------------------------------
(***************************************************************************)
(* Refinement: getCachedInstance does what WeakCache says of a request.    *)
(* Libraries that are not opened for the cache play no part in it.         *)
(***************************************************************************)

\* The request of a thread, and the Library it has opened for it.
LEMMA OfThread ==
  ASSUME NEW t \in Threads
  PROVE  /\ Cache!Asking(t) =
              IF th[t].via = "cache" THEN {[by |-> t, key |-> th[t].name]} ELSE {}
         /\ Cache!Made(t) = IF Making(t) THEN {[by |-> t, o |-> th[t].lib]} ELSE {}
BY DEF Cache!Asking, Cache!Made, Requests, Fresh

\* A step of one thread leaves the requests of the others as they are.
LEMMA RequestsStep ==
  ASSUME NEW t \in Threads, \A u \in Threads \ {t} : th'[u] = th[u]
  PROVE  /\ Requests' = (Requests \ Cache!Asking(t)) \cup Cache!Asking(t)'
         /\ Cache!Asking(t)' =
              IF th'[t].via = "cache" THEN {[by |-> t, key |-> th'[t].name]} ELSE {}
<1>1. Cache!Asking(t)' =
        IF th'[t].via = "cache" THEN {[by |-> t, key |-> th'[t].name]} ELSE {}
  BY DEF Cache!Asking, Requests
<1>2. ASSUME NEW r PROVE r \in Requests' <=> r \in (Requests \ Cache!Asking(t)) \cup Cache!Asking(t)'
  BY <1>1, OfThread DEF Requests
<1> QED BY <1>1, <1>2

\* Nor does it change what the others have opened.
LEMMA FreshStep ==
  ASSUME NEW t \in Threads, \A u \in Threads \ {t} : th'[u] = th[u]
  PROVE  /\ Fresh' = (Fresh \ Cache!Made(t)) \cup Cache!Made(t)'
         /\ Cache!Made(t)' = IF Making(t)' THEN {[by |-> t, o |-> th'[t].lib]} ELSE {}
<1>1. Cache!Made(t)' = IF Making(t)' THEN {[by |-> t, o |-> th'[t].lib]} ELSE {}
  BY DEF Cache!Made, Fresh
<1>2. \A u \in Threads \ {t} : Making(u)' <=> Making(u)
  BY DEF Making
<1>3. ASSUME NEW r PROVE r \in Fresh' <=> r \in (Fresh \ Cache!Made(t)) \cup Cache!Made(t)'
  BY <1>1, <1>2, OfThread DEF Fresh
<1> QED BY <1>1, <1>3

\* Threads that go on with what they were doing ask and make nothing new.
LEMMA SameThreads ==
  ASSUME \A u \in Threads : /\ th'[u].via = "cache" <=> th[u].via = "cache"
                            /\ th[u].via = "cache" => th'[u].name = th[u].name
                            /\ Making(u)' <=> Making(u)
                            /\ Making(u) => th'[u].lib = th[u].lib
  PROVE  Requests' = Requests /\ Fresh' = Fresh
<1>1. ASSUME NEW r PROVE r \in Requests' <=> r \in Requests
  BY DEF Requests
<1>2. ASSUME NEW f PROVE f \in Fresh' <=> f \in Fresh
  BY DEF Fresh
<1> QED BY <1>1, <1>2

\* A step of a thread that is not on its way through getCachedInstance, ...
LEMMA OutsideRequest ==
  ASSUME NEW t \in Threads, \A u \in Threads \ {t} : th'[u] = th[u],
         th[t].via # "cache", th'[t].via # "cache"
  PROVE  Requests' = Requests /\ Fresh' = Fresh
<1>1. \A u \in Threads : Making(u)' <=> Making(u)
  BY DEF Making
<1>2. ~Making(t)
  BY DEF Making
<1> QED BY <1>1, <1>2, SameThreads

\* ... or one on its way that does not change what the thread is about.
LEMMA InsideRequest ==
  ASSUME NEW t \in Threads, \A u \in Threads \ {t} : th'[u] = th[u],
         th'[t].via = th[t].via, th'[t].name = th[t].name, th'[t].lib = th[t].lib,
         th'[t].pc \in {"construct", "put"} <=> th[t].pc \in {"construct", "put"}
  PROVE  Requests' = Requests /\ Fresh' = Fresh
<1>1. \A u \in Threads : Making(u)' <=> Making(u)
  BY DEF Making
<1> QED BY <1>1, SameThreads

\* Libraries of the cache that are as usable as before.
LEMMA SameLibs ==
  ASSUME \A l \in Libs : /\ Usable(l)' <=> Usable(l)
                         /\ Usable(l) => lib'[l].name = lib[l].name
  PROVE  Alive' = Alive
<1>1. ASSUME NEW a PROVE a \in Alive' <=> a \in Alive
  BY DEF Alive
<1> QED BY <1>1

LEMMA SameHeld ==
  ASSUME TypeOK, held' \subseteq Libs,
         \A l \in Libs : (l \in held' /\ Cached(l)') <=> (l \in held /\ Cached(l))
  PROVE  HeldCached' = HeldCached
<1>1. ASSUME NEW l PROVE l \in HeldCached' <=> l \in HeldCached
  BY DEF HeldCached, TypeOK
<1> QED BY <1>1

\* While the Libraries and what is held stay, so does what the cache has.
LEMMA SameStore ==
  ASSUME UNCHANGED <<lib, cleared, held>>
  PROVE  Alive' = Alive /\ HeldCached' = HeldCached
<1>1. \A l \in Libs : (Usable(l)' <=> Usable(l)) /\ (Cached(l)' <=> Cached(l))
  BY DEF Usable, Cached
<1>2. Alive' = Alive
  BY <1>1, SameLibs
<1>3. HeldCached' = HeldCached
  BY DEF HeldCached, Cached
<1> QED BY <1>2, <1>3

\* Looking up is asking.
LEMMA GetAsks ==
  ASSUME LibraryInv, UnpublishedInv, NEW t \in Threads, NEW n \in Names, GetCachedInstance(t, n)
  PROVE  Cache!Ask(t)
<1> DEFINE r == [by |-> t, key |-> n]
<1>1. /\ th[t].via # "cache" /\ \A u \in Threads \ {t} : th'[u] = th[u]
      /\ th'[t].via = "cache" /\ th'[t].name = n /\ th'[t].pc \in {"dlopen", "deref"}
  BY DEF GetCachedInstance, At, UnpublishedInv, LibraryInv, TypeOK
<1>2. Cache!Asking(t) = {} /\ Cache!Asking(t)' = {r}
  BY <1>1, OfThread, RequestsStep
<1>3. Requests' = Requests \cup {r}
  BY <1>1, <1>2, RequestsStep
<1>4. Cache!Made(t) = {} /\ Cache!Made(t)' = {}
  BY <1>1, OfThread, FreshStep DEF Making
<1>5. Fresh' = Fresh
  BY <1>1, <1>4, FreshStep
<1>6. Alive' = Alive /\ HeldCached' = HeldCached
  BY SameStore DEF GetCachedInstance
<1>7. r.by = t /\ r \in Requests'
  BY <1>3
<1> HIDE DEF r
<1> QED BY <1>2, <1>3, <1>5, <1>6, <1>7 DEF Cache!Ask

\* A Library that is returned, found or opened, is open and of the name asked
\* for, and no other thread is still about to put it.
LEMMA ReturnAnswers ==
  ASSUME LibraryInv, KeyedInv, UnpublishedInv, NEW t \in Threads,
         th[t].pc \in {"deref", "put"}, th[t].lib \notin cleared,
         Return(t, th[t].lib), UNCHANGED <<lib, cleared>>
  PROVE  Cache!Answer(t, th[t].lib)
<1> DEFINE l == th[t].lib
<1>1. l \in Libs /\ th[t].via = "cache"
  BY DEF LibraryInv, ThreadInv, Knows, At
<1>0. Usable(l) /\ Cached(l) /\ lib[l].name = th[t].name
  <2>1. Cached(l) /\ lib[l].name = th[t].name
    BY <1>1 DEF KeyedInv, Making, At
  <2>2. lib[l].state \in {"opened", "live"}
    BY <1>1 DEF LibraryInv, ThreadInv, CollectInv, Knows, At
  <2> QED BY <2>1, <2>2 DEF Usable
<1>2. th'[t] = Idle /\ (\A u \in Threads \ {t} : th'[u] = th[u]) /\ held' = held \cup {l}
  BY <1>1, ReturnStep DEF LibraryInv
<1>3. th'[t].via # "cache" /\ ~Making(t)'
  BY <1>2 DEF Idle, Making
<1>4. Requests' = Requests \ Cache!Asking(t) /\ Fresh' = Fresh \ Cache!Made(t)
  BY <1>2, <1>3, RequestsStep, FreshStep
<1>5. [by |-> t, key |-> th[t].name] \in Cache!Asking(t)
  BY <1>1, OfThread
<1>6. [o |-> l, key |-> [by |-> t, key |-> th[t].name].key] \in Alive
  BY <1>0, <1>1 DEF Alive
<1>7. ASSUME NEW f \in Fresh PROVE f.by = t <=> f.o = l
  <2>1. PICK u \in Threads : Making(u) /\ f = [by |-> u, o |-> th[u].lib]
    BY DEF Fresh
  <2>2. CASE u = t
    BY <2>1, <2>2
  <2>3. CASE u # t
    <3>1. lib[th[u].lib].by = u
      BY <2>1 DEF LibraryInv, ThreadInv, Knows, At, Making
    <3>2. th[t].pc = "put" => lib[l].by = t
      BY DEF LibraryInv, ThreadInv, Knows, At
    <3>3. th[t].pc = "deref" => l # th[u].lib
      BY <2>1, <2>3 DEF UnpublishedInv, At
    <3> QED BY <2>1, <2>3, <3>1, <3>2, <3>3
  <2> QED BY <2>2, <2>3
<1>8. Alive' = Alive
  BY SameLibs DEF Usable, Cached
<1>9. HeldCached' = HeldCached \cup {l}
  <2>1. ASSUME NEW m PROVE m \in HeldCached' <=> m \in HeldCached \cup {l}
    BY <1>0, <1>2 DEF HeldCached, Cached
  <2> QED BY <2>1
<1> HIDE DEF l
<1>10. Cache!Answer(t, l)
  BY <1>4, <1>5, <1>6, <1>7, <1>8, <1>9 DEF Cache!Answer
<1> QED BY <1>10 DEF l

LEMMA DerefRefines ==
  ASSUME LibraryInv, KeyedInv, UnpublishedInv, NEW t \in Threads, Deref(t)
  PROVE  [Cache!Next]_(Cache!vars)
<1>1. /\ th[t].pc = "deref" /\ th[t].lib \in Libs /\ th[t].via = "cache"
      /\ UNCHANGED <<lib, cleared>>
  BY DEF Deref, LibraryInv, ThreadInv, Knows, At
<1>2. CASE th[t].lib \notin cleared /\ Return(t, th[t].lib)
  <2>1. Cache!Answer(t, th[t].lib)
    BY <1>1, <1>2, ReturnAnswers
  <2> QED BY <1>1, <2>1 DEF Cache!Next
<1>3. CASE Goto(t, "dlopen") /\ UNCHANGED held
  <2>1. /\ th'[t] = [pc |-> "dlopen", name |-> th[t].name, via |-> th[t].via, lib |-> th[t].lib]
        /\ \A u \in Threads \ {t} : th'[u] = th[u]
    BY <1>3, GotoStep DEF PCs, LibraryInv
  <2>2. Requests' = Requests /\ Fresh' = Fresh
    BY <1>1, <2>1, InsideRequest
  <2>3. Alive' = Alive /\ HeldCached' = HeldCached
    BY <1>1, <1>3, SameStore
  <2> QED BY <2>2, <2>3 DEF Cache!vars
<1> QED BY <1>2, <1>3 DEF Deref

\* Opening makes a Library that was not there; a failing dlopen, or one that is
\* not for the cache, changes nothing yet.
LEMMA DlOpenRefines ==
  ASSUME LibraryInv, NEW t \in Threads, DlOpen(t)
  PROVE  [Cache!Next]_(Cache!vars)
<1>1. th[t].pc = "dlopen" /\ UNCHANGED <<cleared, held>>
  BY DEF DlOpen, At
<1>2. CASE Goto(t, "dlerror") /\ UNCHANGED lib
  <2>1. /\ th'[t] = [pc |-> "dlerror", name |-> th[t].name, via |-> th[t].via, lib |-> th[t].lib]
        /\ \A u \in Threads \ {t} : th'[u] = th[u]
    BY <1>2, GotoStep DEF PCs, LibraryInv
  <2>2. Requests' = Requests /\ Fresh' = Fresh
    BY <1>1, <2>1, InsideRequest
  <2>3. Alive' = Alive /\ HeldCached' = HeldCached
    BY <1>1, <1>2, SameStore
  <2> QED BY <2>2, <2>3 DEF Cache!vars
<1>3. ASSUME NEW l \in Libs, lib[l].state = "none",
             lib' = [lib EXCEPT ![l] = [state |-> "opened", name |-> th[t].name,
                                        by |-> t, via |-> th[t].via]],
             th' = [th EXCEPT ![t] = [pc |-> "construct", name |-> th[t].name,
                                      via |-> th[t].via, lib |-> l]]
      PROVE  [Cache!Next]_(Cache!vars)
  <2>1. /\ lib'[l].state = "opened" /\ lib'[l].name = th[t].name /\ lib'[l].via = th[t].via
        /\ \A m \in Libs \ {l} : lib'[m] = lib[m]
    BY <1>3 DEF LibraryInv, TypeOK
  <2>2. /\ th'[t].pc = "construct" /\ th'[t].name = th[t].name /\ th'[t].via = th[t].via
        /\ th'[t].lib = l /\ \A u \in Threads \ {t} : th'[u] = th[u]
    BY <1>3 DEF LibraryInv, TypeOK
  <2>3. l \notin held /\ l \notin cleared /\ ~Usable(l)
    BY <1>3 DEF LibraryInv, CollectInv, Usable
  <2>4. \A m \in Libs \ {l} : (Usable(m)' <=> Usable(m)) /\ (Cached(m)' <=> Cached(m))
    BY <1>1, <2>1 DEF Usable, Cached
  <2>5. HeldCached' = HeldCached
    BY <1>1, <2>3, <2>4, SameHeld DEF LibraryInv, TypeOK
  <2>6. CASE th[t].via # "cache"
    <3>1. Requests' = Requests /\ Fresh' = Fresh
      BY <2>2, <2>6, OutsideRequest
    <3>2. ~Usable(l)'
      BY <2>1, <2>6 DEF Usable, Cached
    <3>3. Alive' = Alive
      BY <2>1, <2>3, <2>4, <3>2, SameLibs
    <3> QED BY <2>5, <3>1, <3>3 DEF Cache!vars
  <2>7. CASE th[t].via = "cache"
    <3>1. Requests' = Requests
      <4>1. \A u \in Threads : th'[u].via = th[u].via /\ th'[u].name = th[u].name
        BY <2>2
      <4>2. ASSUME NEW r PROVE r \in Requests' <=> r \in Requests
        BY <4>1 DEF Requests
      <4> QED BY <4>2
    <3>2. Cache!Made(t) = {} /\ Cache!Made(t)' = {[by |-> t, o |-> l]}
      BY <1>1, <2>2, <2>7, OfThread, FreshStep DEF Making
    <3>3. Fresh' = Fresh \cup {[by |-> t, o |-> l]}
      BY <2>2, <3>2, FreshStep
    <3>4. [by |-> t, key |-> th[t].name] \in Cache!Asking(t)
      BY <2>7, OfThread
    <3>5. Usable(l)'
      BY <1>1, <2>1, <2>3, <2>7 DEF Usable, Cached
    <3>6. Alive' = Alive \cup {[o |-> l, key |-> th[t].name]}
      <4>1. ASSUME NEW a PROVE a \in Alive' <=> a \in Alive \cup {[o |-> l, key |-> th[t].name]}
        BY <2>1, <2>3, <2>4, <3>5 DEF Alive
      <4> QED BY <4>1
    <3>7. \A a \in Alive : a.o # l
      BY <2>3 DEF Alive
    <3>8. [by |-> t, key |-> th[t].name].key = th[t].name
      OBVIOUS
    <3>9. Cache!Make(t, l)
      BY <2>5, <3>1, <3>2, <3>3, <3>4, <3>6, <3>7, <3>8 DEF Cache!Make
    <3> QED BY <3>9 DEF Cache!Next
  <2> QED BY <2>6, <2>7
<1> QED BY <1>2, <1>3 DEF DlOpen

\* A failed dlopen ends the request.
LEMMA DlOpenFailsRefines ==
  ASSUME LibraryInv, NEW t \in Threads, DlOpenFails(t)
  PROVE  [Cache!Next]_(Cache!vars)
<1>1. /\ th[t].pc = "dlerror" /\ UNCHANGED <<lib, cleared, held>>
      /\ th'[t].via # "cache" /\ th'[t].pc = "idle" /\ \A u \in Threads \ {t} : th'[u] = th[u]
  BY DEF DlOpenFails, At, Idle, LibraryInv, TypeOK
<1>2. Alive' = Alive /\ HeldCached' = HeldCached
  BY <1>1, SameStore
<1>3. CASE th[t].via = "cache"
  <2>1. Cache!Asking(t) # {} /\ Requests' = Requests \ Cache!Asking(t)
    BY <1>1, <1>3, OfThread, RequestsStep
  <2>2. Cache!Made(t) = {} /\ Cache!Made(t)' = {}
    BY <1>1, OfThread, FreshStep DEF Making
  <2>3. Fresh' = Fresh
    BY <1>1, <2>2, FreshStep
  <2>4. Cache!Fail(t)
    BY <1>2, <2>1, <2>2, <2>3 DEF Cache!Fail
  <2> QED BY <2>4 DEF Cache!Next
<1>4. CASE th[t].via # "cache"
  <2>1. Requests' = Requests /\ Fresh' = Fresh
    BY <1>1, <1>4, OutsideRequest
  <2> QED BY <1>2, <2>1 DEF Cache!vars
<1> QED BY <1>3, <1>4

\* The constructor changes nothing the cache knows of.
LEMMA ConstructStutters ==
  ASSUME LibraryInv, NEW t \in Threads, Construct(t)
  PROVE  UNCHANGED Cache!vars
<1> DEFINE l == th[t].lib
<1>1. /\ th[t].pc = "construct" /\ l \in Libs /\ lib[l].state = "opened" /\ lib[l].via = th[t].via
      /\ cleared' = cleared
  BY DEF Construct, At, LibraryInv, ThreadInv, Knows
<1>2. /\ lib'[l].state = "live" /\ lib'[l].name = lib[l].name /\ lib'[l].via = lib[l].via
      /\ \A m \in Libs \ {l} : lib'[m] = lib[m]
  BY <1>1 DEF Construct, LibraryInv, TypeOK, Fields
<1>3. \A m \in Libs : /\ Usable(m)' <=> Usable(m)
                      /\ Cached(m)' <=> Cached(m)
                      /\ lib'[m].name = lib[m].name
  BY <1>1, <1>2 DEF Usable, Cached
<1>4. Alive' = Alive
  BY <1>3, SameLibs
<1>5. CASE th[t].via = "cache" /\ Goto(t, "put") /\ UNCHANGED held
  <2>1. /\ th'[t] = [pc |-> "put", name |-> th[t].name, via |-> th[t].via, lib |-> th[t].lib]
        /\ \A u \in Threads \ {t} : th'[u] = th[u]
    BY <1>5, GotoStep DEF PCs, LibraryInv
  <2>2. Requests' = Requests /\ Fresh' = Fresh
    BY <1>1, <2>1, InsideRequest
  <2>3. HeldCached' = HeldCached
    BY <1>3, <1>5, SameHeld DEF LibraryInv, TypeOK
  <2> QED BY <1>4, <2>2, <2>3 DEF Cache!vars
<1>6. CASE th[t].via # "cache" /\ Return(t, l)
  <2>1. th'[t] = Idle /\ (\A u \in Threads \ {t} : th'[u] = th[u]) /\ held' = held \cup {l}
    BY <1>1, <1>6, ReturnStep DEF LibraryInv
  <2>2. Requests' = Requests /\ Fresh' = Fresh
    BY <1>6, <2>1, OutsideRequest DEF Idle
  <2>3. ~Cached(l)
    BY <1>1, <1>6 DEF Cached
  <2>4. HeldCached' = HeldCached
    BY <1>1, <1>3, <2>1, <2>3, SameHeld DEF LibraryInv, TypeOK
  <2> QED BY <1>4, <2>2, <2>4 DEF Cache!vars
<1> QED BY <1>5, <1>6 DEF Construct

\* Opening without the cache, the default library and symbols are none of its
\* business.
LEMMA OutsideStutters ==
  ASSUME LibraryInv, UnpublishedInv, NEW t \in Threads,
         \/ \E n \in AllNames : OpenLibrary(t, n)
         \/ \E l \in Libs : GetSymbolAddress(t, l)
         \/ GetDefault(t) \/ ClearDlerror(t) \/ DlSym(t) \/ DlSymFails(t) \/ CatchSymbol(t)
  PROVE  UNCHANGED Cache!vars
<1>1. th[t].via # "cache"
  BY DEF UnpublishedInv, At, OpenLibrary, GetSymbolAddress, GetDefault, ClearDlerror, DlSym,
     DlSymFails, CatchSymbol
<1>2. UNCHANGED <<lib, cleared>>
  BY DEF OpenLibrary, GetSymbolAddress, GetDefault, ClearDlerror, DlSym, DlSymFails, CatchSymbol
<1>3. th'[t].via # "cache" /\ \A u \in Threads \ {t} : th'[u] = th[u]
  <2>1. th \in [Threads -> Local] /\ Idle.via # "cache"
    BY DEF LibraryInv, TypeOK, Idle
  <2>2. ASSUME NEW pc \in PCs, Goto(t, pc)
        PROVE  th'[t].via = th[t].via /\ \A u \in Threads \ {t} : th'[u] = th[u]
    <3>1. TypeOK
      BY DEF LibraryInv
    <3>2. /\ th'[t] = [pc |-> pc, name |-> th[t].name, via |-> th[t].via, lib |-> th[t].lib]
          /\ \A u \in Threads \ {t} : th'[u] = th[u]
      BY <2>2, <3>1, GotoStep
    <3> QED BY <3>2
  <2>3. CASE \/ \E n \in AllNames : OpenLibrary(t, n)
             \/ \E l \in Libs : GetSymbolAddress(t, l)
             \/ GetDefault(t)
    BY <2>1, <2>3 DEF OpenLibrary, GetSymbolAddress, GetDefault, Return
  <2>4. CASE ClearDlerror(t) \/ DlSym(t) \/ DlSymFails(t) \/ CatchSymbol(t)
    <3>1. th' = [th EXCEPT ![t] = Idle] \/ \E pc \in {"dlsym", "symerror", "catch"} : Goto(t, pc)
      BY <2>4 DEF ClearDlerror, DlSym, DlSymFails, CatchSymbol
    <3>2. {"dlsym", "symerror", "catch"} \subseteq PCs
      BY DEF PCs
    <3> QED BY <1>1, <2>1, <2>2, <3>1, <3>2
  <2> QED BY <2>3, <2>4
<1>4. Requests' = Requests /\ Fresh' = Fresh
  BY <1>1, <1>3, OutsideRequest
<1>5. CASE held' = held
  <2>1. Alive' = Alive /\ HeldCached' = HeldCached
    BY <1>2, <1>5, SameStore
  <2> QED BY <1>4, <2>1 DEF Cache!vars
<1>6. CASE held' # held
  <2>1. default \in Libs /\ held' = held \cup {default}
    BY <1>6 DEF OpenLibrary, GetSymbolAddress, GetDefault, ClearDlerror, DlSym, DlSymFails,
       CatchSymbol, Return
  <2>2. ~Cached(default) /\ \A l \in Libs : (Usable(l)' <=> Usable(l)) /\ (Cached(l)' <=> Cached(l))
    BY <1>2, <2>1 DEF UnpublishedInv, Usable, Cached
  <2>3. HeldCached' = HeldCached
    BY <2>1, <2>2, SameHeld DEF LibraryInv, TypeOK
  <2>4. Alive' = Alive
    BY <1>2, <2>2, SameLibs
  <2> QED BY <1>4, <2>3, <2>4 DEF Cache!vars
<1> QED BY <1>5, <1>6

\* Forgetting drops, clearing lets a Library die, and its thunk runs after that.
LEMMA CollectRefines ==
  ASSUME LibraryInv, NEW l \in Libs, Forget(l) \/ Clear(l) \/ RunThunk(l)
  PROVE  [Cache!Next]_(Cache!vars)
<1>1. Requests' = Requests /\ Fresh' = Fresh
  <2>1. th' = th
    BY DEF Forget, Clear, RunThunk
  <2> QED BY <2>1 DEF Requests, Fresh, Making
<1>2. CASE Forget(l)
  <2>1. Alive' = Alive
    BY <1>2, SameLibs DEF Forget, Usable, Cached
  <2>2. HeldCached' = HeldCached \ {l}
    <3>1. ASSUME NEW m PROVE m \in HeldCached' <=> m \in HeldCached \ {l}
      BY <1>2 DEF Forget, HeldCached, Cached
    <3> QED BY <3>1
  <2>3. CASE l \in HeldCached
    <3>1. Cache!Drop(l)
      BY <1>1, <2>1, <2>2, <2>3 DEF Cache!Drop
    <3> QED BY <3>1 DEF Cache!Next
  <2>4. CASE l \notin HeldCached
    <3>1. HeldCached' = HeldCached
      BY <2>2, <2>4
    <3> QED BY <1>1, <2>1, <3>1 DEF Cache!vars
  <2> QED BY <2>3, <2>4
<1>3. CASE Clear(l)
  <2>1. cleared' = cleared \cup {l} /\ lib' = lib /\ held' = held
    BY <1>3 DEF Clear
  <2>2. \A m \in Libs : Usable(m)' <=> Usable(m) /\ m # l
    BY <2>1 DEF Usable, Cached
  <2>3. Alive' \subseteq Alive /\ \A a \in Alive \ Alive' : a.o = l
    BY <2>1, <2>2 DEF Alive
  <2>4. l \notin HeldCached /\ \A f \in Fresh : f.o # l
    BY <1>3 DEF Clear, StronglyReachable, HeldCached, Fresh, Making
  <2>5. HeldCached' = HeldCached
    BY <2>1 DEF HeldCached, Cached
  <2>6. Cache!Die
    BY <1>1, <2>3, <2>4, <2>5 DEF Cache!Die
  <2> QED BY <2>6 DEF Cache!Next
<1>4. CASE RunThunk(l)
  <2>1. /\ l \in cleared /\ cleared' = cleared /\ held' = held
        /\ lib'[l].via = lib[l].via /\ \A m \in Libs \ {l} : lib'[m] = lib[m]
    BY <1>4 DEF RunThunk, LibraryInv, TypeOK, Fields
  <2>2. \A m \in Libs : /\ Usable(m)' <=> Usable(m)
                        /\ Usable(m) => lib'[m].name = lib[m].name
                        /\ Cached(m)' <=> Cached(m)
    BY <2>1 DEF Usable, Cached
  <2>3. Alive' = Alive
    BY <2>2, SameLibs
  <2>4. HeldCached' = HeldCached
    BY <2>1, <2>2, SameHeld DEF LibraryInv, TypeOK
  <2> QED BY <1>1, <2>3, <2>4 DEF Cache!vars
<1> QED BY <1>2, <1>3, <1>4

\* Every step of Library is one of WeakCache or none.
LEMMA StepRefines ==
  LibraryInv /\ KeyedInv /\ UnpublishedInv /\ [Next]_vars => [Cache!Next]_(Cache!vars)
<1> SUFFICES ASSUME LibraryInv, KeyedInv, UnpublishedInv, [Next]_vars
             PROVE  [Cache!Next]_(Cache!vars)
  OBVIOUS
<1>1. CASE UNCHANGED vars
  <2>1. UNCHANGED <<th, lib, cleared, held>>
    BY <1>1 DEF vars
  <2>2. Requests' = Requests /\ Fresh' = Fresh
    BY <2>1 DEF Requests, Fresh, Making
  <2> QED BY <2>1, <2>2, SameStore DEF Cache!vars
<1>2. ASSUME NEW t \in Threads, NEW n \in Names, GetCachedInstance(t, n)
      PROVE  [Cache!Next]_(Cache!vars)
  BY <1>2, GetAsks DEF Cache!Next
<1>3. ASSUME NEW t \in Threads, Put(t) PROVE [Cache!Next]_(Cache!vars)
  <2>1. /\ th[t].pc = "put" /\ th[t].lib \in Libs /\ th[t].lib \notin cleared
        /\ UNCHANGED <<lib, cleared>> /\ Return(t, th[t].lib)
    BY <1>3 DEF Put, LibraryInv, ThreadInv, Knows, At
  <2>2. Cache!Answer(t, th[t].lib)
    BY <2>1, ReturnAnswers
  <2> QED BY <2>1, <2>2 DEF Cache!Next
<1>4. ASSUME NEW t \in Threads, DlOpen(t) \/ DlOpenFails(t) \/ Construct(t) \/ Deref(t)
      PROVE  [Cache!Next]_(Cache!vars)
  BY <1>4, DerefRefines, DlOpenRefines, DlOpenFailsRefines, ConstructStutters
<1>5. ASSUME NEW t \in Threads,
             \/ \E n \in AllNames : OpenLibrary(t, n)
             \/ \E l \in Libs : GetSymbolAddress(t, l)
             \/ GetDefault(t) \/ ClearDlerror(t) \/ DlSym(t) \/ DlSymFails(t) \/ CatchSymbol(t)
      PROVE  UNCHANGED Cache!vars
  BY <1>5, OutsideStutters
<1>6. ASSUME NEW l \in Libs, Forget(l) \/ Clear(l) \/ RunThunk(l)
      PROVE  [Cache!Next]_(Cache!vars)
  BY <1>6, CollectRefines
<1> QED BY <1>1, <1>2, <1>3, <1>4, <1>5, <1>6 DEF Next

\* What a step does to the thread that takes it, if one does.
ThreadStep(t) ==
  /\ \A u \in Threads \ {t} : th'[u] = th[u]
  /\ \/ th'[t].via # "cache"
     \/ /\ th'[t].via = th[t].via /\ th'[t].name = th[t].name /\ th'[t].lib = th[t].lib
        /\ \/ th[t].pc = "deref" /\ th'[t].pc = "dlopen"
           \/ th[t].pc = "dlopen" /\ th'[t].pc = "dlerror"
           \/ th[t].pc = "construct" /\ th'[t].pc = "put"
           \/ th[t].pc \in {"clear", "dlsym", "symerror"}
     \/ \E n \in Names : /\ GetCachedInstance(t, n) /\ th'[t].name = n
                         /\ th'[t].pc \in {"dlopen", "deref"} /\ th'[t].lib = cache[n]
                         /\ th'[t].pc = "deref" => cache[n] # None
     \/ /\ th[t].pc = "dlopen" /\ th'[t].pc = "construct" /\ th'[t].name = th[t].name
        /\ th'[t].via = th[t].via /\ th'[t].lib \in Libs /\ lib[th'[t].lib].state = "none"
        /\ lib' = [lib EXCEPT ![th'[t].lib] = [state |-> "opened", name |-> th[t].name,
                                               by |-> t, via |-> th[t].via]]

\* The place and the locals of a thread, after a step it takes.
LEMMA ThreadMoves ==
  ASSUME LibraryInv, NEW t \in Threads,
         \/ \E n \in Names : GetCachedInstance(t, n)
         \/ \E n \in AllNames : OpenLibrary(t, n)
         \/ \E l \in Libs : GetSymbolAddress(t, l)
         \/ Deref(t) \/ GetDefault(t) \/ DlOpen(t) \/ DlOpenFails(t) \/ Construct(t) \/ Put(t)
         \/ ClearDlerror(t) \/ DlSym(t) \/ DlSymFails(t) \/ CatchSymbol(t)
  PROVE  ThreadStep(t)
<1> USE DEF ThreadStep
<1> DEFINE Others == \A u \in Threads \ {t} : th'[u] = th[u]
<1>1. th \in [Threads -> Local] /\ Idle.via # "cache"
  BY DEF LibraryInv, TypeOK, Idle
<1>2. th' = [th EXCEPT ![t] = Idle] => Others /\ th'[t].via # "cache"
  BY <1>1
<1>3. ASSUME NEW pc \in PCs, Goto(t, pc)
      PROVE  /\ Others /\ th'[t].pc = pc /\ th'[t].via = th[t].via /\ th'[t].name = th[t].name
             /\ th'[t].lib = th[t].lib
  <2>1. TypeOK
    BY DEF LibraryInv
  <2>2. /\ th'[t] = [pc |-> pc, name |-> th[t].name, via |-> th[t].via, lib |-> th[t].lib]
        /\ Others
    BY <1>3, <2>1, GotoStep
  <2> HIDE DEF Others
  <2> QED BY <2>2
<1>4. CASE \E n \in Names : GetCachedInstance(t, n)
  <2>1. PICK n \in Names : GetCachedInstance(t, n)
    BY <1>4
  <2>2. /\ Others /\ th'[t].name = n /\ th'[t].lib = cache[n]
        /\ th'[t].pc = IF cache[n] = None THEN "dlopen" ELSE "deref"
    BY <1>1, <2>1 DEF GetCachedInstance
  <2> QED BY <2>1, <2>2
<1>5. CASE \/ \E n \in AllNames : OpenLibrary(t, n)
           \/ \E l \in Libs : GetSymbolAddress(t, l)
           \/ GetDefault(t)
  BY <1>1, <1>2, <1>5 DEF OpenLibrary, GetSymbolAddress, GetDefault, Return
<1>6. CASE Deref(t)
  <2>1. CASE Goto(t, "dlopen")
    BY <1>3, <1>6, <2>1 DEF Deref, At, PCs
  <2>2. CASE Return(t, th[t].lib)
    BY <1>2, <2>2 DEF Return
  <2> QED BY <1>6, <2>1, <2>2 DEF Deref
<1>7. CASE DlOpen(t)
  <2>1. CASE Goto(t, "dlerror")
    BY <1>3, <1>7, <2>1 DEF DlOpen, At, PCs
  <2>2. ASSUME NEW l \in Libs, lib[l].state = "none",
               lib' = [lib EXCEPT ![l] = [state |-> "opened", name |-> th[t].name,
                                          by |-> t, via |-> th[t].via]],
               th' = [th EXCEPT ![t] = [pc |-> "construct", name |-> th[t].name,
                                        via |-> th[t].via, lib |-> l]]
        PROVE  /\ Others /\ th'[t].pc = "construct" /\ th'[t].name = th[t].name
               /\ th'[t].via = th[t].via /\ th'[t].lib = l
    BY <1>1, <2>2
  <2>3. th[t].pc = "dlopen"
    BY <1>7 DEF DlOpen, At
  <2> HIDE DEF Others
  <2>4. ASSUME NEW l \in Libs, lib[l].state = "none",
               lib' = [lib EXCEPT ![l] = [state |-> "opened", name |-> th[t].name,
                                          by |-> t, via |-> th[t].via]],
               th' = [th EXCEPT ![t] = [pc |-> "construct", name |-> th[t].name,
                                        via |-> th[t].via, lib |-> l]]
        PROVE  /\ Others
               /\ th[t].pc = "dlopen" /\ th'[t].pc = "construct" /\ th'[t].name = th[t].name
               /\ th'[t].via = th[t].via /\ th'[t].lib \in Libs /\ lib[th'[t].lib].state = "none"
               /\ lib' = [lib EXCEPT ![th'[t].lib] = [state |-> "opened", name |-> th[t].name,
                                                      by |-> t, via |-> th[t].via]]
    BY <2>2, <2>3, <2>4
  <2> QED BY <1>7, <2>1, <2>4 DEF DlOpen, Others
<1>8. CASE Construct(t)
  <2>1. CASE Goto(t, "put")
    BY <1>3, <1>8, <2>1 DEF Construct, At, PCs
  <2>2. CASE Return(t, th[t].lib)
    BY <1>2, <2>2 DEF Return
  <2> QED BY <1>8, <2>1, <2>2 DEF Construct
<1>9. CASE DlOpenFails(t) \/ Put(t) \/ CatchSymbol(t)
  BY <1>2, <1>9 DEF DlOpenFails, Put, CatchSymbol, Return
<1>10. CASE ClearDlerror(t) \/ DlSym(t) \/ DlSymFails(t)
  <2>1. /\ th[t].pc \in {"clear", "dlsym", "symerror"}
        /\ \/ th' = [th EXCEPT ![t] = Idle]
           \/ \E pc \in {"dlsym", "symerror", "catch"} : Goto(t, pc)
    BY <1>10 DEF ClearDlerror, DlSym, DlSymFails, At
  <2>2. {"dlsym", "symerror", "catch"} \subseteq PCs
    BY DEF PCs
  <2> QED BY <1>2, <1>3, <2>1, <2>2
<1> QED BY <1>4, <1>5, <1>6, <1>7, <1>8, <1>9, <1>10

\* A Library once opened keeps its name and what it was opened for.
LEMMA LibKeeps ==
  ASSUME LibraryInv, [Next]_vars
  PROVE  \A l \in Libs : lib[l].state # "none" => lib'[l].name = lib[l].name /\ lib'[l].via = lib[l].via
<1> USE DEF LibraryInv, TypeOK
<1>1. CASE lib' = lib
  BY <1>1
<1>2. ASSUME NEW t \in Threads, DlOpen(t), lib' # lib
      PROVE  \A l \in Libs : lib[l].state # "none" => lib'[l] = lib[l]
  BY <1>2 DEF DlOpen
<1>3. ASSUME NEW t \in Threads, Construct(t)
      PROVE  \A l \in Libs : lib'[l].name = lib[l].name /\ lib'[l].via = lib[l].via
  BY <1>3 DEF Construct, Fields
<1>4. ASSUME NEW k \in Libs, RunThunk(k)
      PROVE  \A l \in Libs : lib'[l].name = lib[l].name /\ lib'[l].via = lib[l].via
  BY <1>4 DEF RunThunk, Fields
<1>5. \/ lib' = lib
      \/ \E t \in Threads : DlOpen(t) \/ Construct(t)
      \/ \E k \in Libs : RunThunk(k)
  <2>1. CASE UNCHANGED vars
    BY <2>1 DEF vars
  <2>2. ASSUME NEW t \in Threads,
               \/ \E n \in Names : GetCachedInstance(t, n)
               \/ \E n \in AllNames : OpenLibrary(t, n)
               \/ \E l \in Libs : GetSymbolAddress(t, l)
               \/ Deref(t) \/ GetDefault(t) \/ DlOpenFails(t) \/ Put(t)
               \/ ClearDlerror(t) \/ DlSym(t) \/ DlSymFails(t) \/ CatchSymbol(t)
        PROVE  lib' = lib
    BY <2>2 DEF GetCachedInstance, OpenLibrary, GetSymbolAddress, Deref, GetDefault, DlOpenFails,
       Put, ClearDlerror, DlSym, DlSymFails, CatchSymbol
  <2>3. ASSUME NEW l \in Libs, Forget(l) \/ Clear(l) PROVE lib' = lib
    BY <2>3 DEF Forget, Clear
  <2> QED BY <2>1, <2>2, <2>3 DEF Next
<1> QED BY <1>1, <1>2, <1>3, <1>4, <1>5

\* The map gets what a thread puts, and nothing else.
LEMMA MapMoves ==
  ASSUME LibraryInv, [Next]_vars, NEW n \in Names
  PROVE  \/ cache'[n] = cache[n]
         \/ \E t \in Threads : Put(t) /\ th[t].name = n /\ cache'[n] = th[t].lib
<1>1. CASE cache' = cache
  BY <1>1
<1>2. ASSUME NEW t \in Threads, Put(t), cache'[n] # cache[n]
      PROVE  th[t].name = n /\ cache'[n] = th[t].lib
  BY <1>2 DEF Put, LibraryInv, TypeOK
<1>3. cache' = cache \/ \E t \in Threads : Put(t)
  <2>1. CASE UNCHANGED vars
    BY <2>1 DEF vars
  <2>2. ASSUME NEW t \in Threads,
               \/ \E m \in Names : GetCachedInstance(t, m)
               \/ \E m \in AllNames : OpenLibrary(t, m)
               \/ \E l \in Libs : GetSymbolAddress(t, l)
               \/ Deref(t) \/ GetDefault(t) \/ DlOpen(t) \/ DlOpenFails(t) \/ Construct(t)
               \/ ClearDlerror(t) \/ DlSym(t) \/ DlSymFails(t) \/ CatchSymbol(t)
        PROVE  cache' = cache
    BY <2>2 DEF GetCachedInstance, OpenLibrary, GetSymbolAddress, Deref, GetDefault, DlOpen,
       DlOpenFails, Construct, ClearDlerror, DlSym, DlSymFails, CatchSymbol
  <2>3. ASSUME NEW l \in Libs, Forget(l) \/ Clear(l) \/ RunThunk(l) PROVE cache' = cache
    BY <2>3 DEF Forget, Clear, RunThunk
  <2> QED BY <2>1, <2>2, <2>3 DEF Next
<1> QED BY <1>1, <1>2, <1>3

\* Every step is that of a thread, or of none.
LEMMA StepThreads ==
  ASSUME LibraryInv, [Next]_vars
  PROVE  th' = th \/ \E t \in Threads : ThreadStep(t)
<1>1. CASE UNCHANGED vars
  BY <1>1 DEF vars
<1>2. ASSUME NEW t \in Threads,
             \/ \E n \in Names : GetCachedInstance(t, n)
             \/ \E n \in AllNames : OpenLibrary(t, n)
             \/ \E l \in Libs : GetSymbolAddress(t, l)
             \/ Deref(t) \/ GetDefault(t) \/ DlOpen(t) \/ DlOpenFails(t) \/ Construct(t) \/ Put(t)
             \/ ClearDlerror(t) \/ DlSym(t) \/ DlSymFails(t) \/ CatchSymbol(t)
      PROVE  ThreadStep(t)
  BY <1>2, ThreadMoves
<1>3. ASSUME NEW l \in Libs, Forget(l) \/ Clear(l) \/ RunThunk(l) PROVE th' = th
  BY <1>3 DEF Forget, Clear, RunThunk
<1> QED BY <1>1, <1>2, <1>3 DEF Next

\* So it is the step of a given thread, or leaves that thread where it is.
LEMMA ThisThread ==
  ASSUME LibraryInv, [Next]_vars, NEW t \in Threads
  PROVE  th'[t] = th[t] \/ ThreadStep(t)
<1>1. ASSUME NEW u \in Threads, ThreadStep(u), u # t PROVE th'[t] = th[t]
  <2>1. \A v \in Threads \ {u} : th'[v] = th[v]
    BY <1>1 DEF ThreadStep
  <2> QED BY <1>1, <2>1
<1>2. th' = th \/ \E u \in Threads : ThreadStep(u)
  BY StepThreads
<1> QED BY <1>1, <1>2

\* Whoever finds or makes a Library works on one that has been opened.
LEMMA WorkedOn ==
  ASSUME LibraryInv, NEW t \in Threads, At(t, "deref") \/ Making(t)
  PROVE  th[t].lib \in Libs /\ lib[th[t].lib].state # "none"
BY DEF LibraryInv, ThreadInv, Knows, At, Making

LEMMA KeyedNext == LibraryInv /\ KeyedInv /\ UnpublishedInv /\ [Next]_vars => KeyedInv'
<1> SUFFICES ASSUME LibraryInv, KeyedInv, UnpublishedInv, [Next]_vars PROVE KeyedInv'
  OBVIOUS
<1> DEFINE Found(t) == At(t, "deref") \/ Making(t)
           Keyed(t) == Cached(th[t].lib) /\ lib[th[t].lib].name = th[t].name
<1>1. ASSUME NEW n \in Names, cache'[n] # None
      PROVE  (Cached(cache[n]) /\ lib[cache[n]].name = n)'
  <2>1. CASE cache'[n] = cache[n]
    <3>1. cache[n] \in Libs /\ lib[cache[n]].state # "none"
      BY <1>1, <2>1 DEF LibraryInv, TypeOK, CollectInv
    <3>2. Cached(cache[n]) /\ lib[cache[n]].name = n
      BY <1>1, <2>1 DEF KeyedInv
    <3> QED BY <2>1, <3>1, <3>2, LibKeeps DEF Cached
  <2>2. ASSUME NEW t \in Threads, Put(t), th[t].name = n, cache'[n] = th[t].lib
        PROVE  (Cached(cache[n]) /\ lib[cache[n]].name = n)'
    <3>1. Making(t)
      BY <2>2 DEF Put, At, Making, LibraryInv, ThreadInv, Knows
    <3>2. Cached(th[t].lib) /\ lib[th[t].lib].name = n
      BY <2>2, <3>1 DEF KeyedInv
    <3>3. th[t].lib \in Libs /\ lib[th[t].lib].state # "none"
      BY <3>1, WorkedOn
    <3> QED BY <2>2, <3>2, <3>3, LibKeeps DEF Cached
  <2> QED BY <2>1, <2>2, MapMoves
\* A thread that goes on with its Library knows of it what it knew.
<1>2. ASSUME NEW u \in Threads, Found(u), th'[u].lib = th[u].lib, th'[u].name = th[u].name
      PROVE  Keyed(u)'
  <2>1. Keyed(u) /\ th[u].lib \in Libs /\ lib[th[u].lib].state # "none"
    BY <1>2, WorkedOn DEF KeyedInv
  <2> QED BY <1>2, <2>1, LibKeeps DEF Cached
<1>3. ASSUME NEW u \in Threads, th'[u] = th[u], Found(u)' PROVE Keyed(u)'
  <2>1. Found(u)
    BY <1>3 DEF At, Making
  <2> QED BY <1>2, <1>3, <2>1
<1>4. ASSUME NEW t \in Threads, ThreadStep(t), Found(t)' PROVE Keyed(t)'
  <2>0. th'[t].via = "cache" \/ th'[t].pc = "deref"
    BY <1>4 DEF Making, At
  <2>5. th'[t].via = "cache"
    BY <2>0, NextInv DEF LibraryInv, ThreadInv, Knows, At
  <2>1. CASE /\ th'[t].via = th[t].via /\ th'[t].name = th[t].name /\ th'[t].lib = th[t].lib
             /\ \/ th[t].pc = "deref" /\ th'[t].pc = "dlopen"
                \/ th[t].pc = "dlopen" /\ th'[t].pc = "dlerror"
                \/ th[t].pc = "construct" /\ th'[t].pc = "put"
                \/ th[t].pc \in {"clear", "dlsym", "symerror"}
    <3>1. th[t].pc \notin {"clear", "dlsym", "symerror"}
      BY <2>1, <2>5 DEF UnpublishedInv
    <3>2. Found(t)
      BY <1>4, <2>1, <2>5, <3>1 DEF Making, At
    <3> QED BY <1>2, <2>1, <3>2
  <2>2. ASSUME NEW n \in Names, GetCachedInstance(t, n), th'[t].name = n, th'[t].lib = cache[n],
               th'[t].pc = "deref" => cache[n] # None, th'[t].pc \in {"dlopen", "deref"}
        PROVE  Keyed(t)'
    <3>1. cache[n] # None /\ lib' = lib
      BY <1>4, <2>2 DEF GetCachedInstance, Making, At
    <3> QED BY <2>2, <3>1 DEF KeyedInv, Cached
  <2>3. CASE /\ th[t].pc = "dlopen" /\ th'[t].pc = "construct" /\ th'[t].name = th[t].name
             /\ th'[t].via = th[t].via /\ th'[t].lib \in Libs /\ lib[th'[t].lib].state = "none"
             /\ lib' = [lib EXCEPT ![th'[t].lib] = [state |-> "opened", name |-> th[t].name,
                                                    by |-> t, via |-> th[t].via]]
    <3>1. lib'[th'[t].lib] = [state |-> "opened", name |-> th[t].name, by |-> t, via |-> th[t].via]
      BY <2>3 DEF LibraryInv, TypeOK
    <3> QED BY <2>3, <2>5, <3>1 DEF Cached
  <2> HIDE DEF Found, Keyed
  <2> QED BY <1>4, <2>1, <2>2, <2>3, <2>5 DEF ThreadStep
<1>5. ASSUME NEW u \in Threads, Found(u)' PROVE Keyed(u)'
  <2>1. CASE th' = th
    BY <1>3, <1>5, <2>1
  <2>2. ASSUME NEW t \in Threads, ThreadStep(t) PROVE Keyed(u)'
    <3>1. CASE u = t
      BY <1>4, <1>5, <2>2, <3>1
    <3>2. CASE u # t
      <4>1. th'[u] = th[u]
        BY <2>2, <3>2 DEF ThreadStep
      <4> HIDE DEF Found, Keyed
      <4> QED BY <1>3, <1>5, <4>1
    <3> QED BY <3>1, <3>2
  <2> QED BY <2>1, <2>2, StepThreads
<1> QED BY <1>1, <1>5 DEF KeyedInv

\* Nobody finds a Library before it is put, and the default one never.
LEMMA UnpublishedNext == LibraryInv /\ KeyedInv /\ UnpublishedInv /\ [Next]_vars => UnpublishedInv'
<1> SUFFICES ASSUME LibraryInv, KeyedInv, UnpublishedInv, [Next]_vars PROVE UnpublishedInv'
  OBVIOUS
\* A thread that makes a Library was making it, or has just opened it.
<1>1. ASSUME NEW t \in Threads, Making(t)'
      PROVE  \/ Making(t) /\ th'[t].lib = th[t].lib
             \/ lib[th'[t].lib].state = "none" /\ th[t].pc = "dlopen"
  <2>1. CASE th'[t] = th[t]
    BY <1>1, <2>1 DEF Making
  <2>2. CASE ThreadStep(t)
    <3>1. th'[t].via = "cache" /\ th'[t].pc \in {"construct", "put"}
      BY <1>1 DEF Making
    <3>2. th[t].via = "cache" => th[t].pc \notin {"clear", "dlsym", "symerror"}
      BY DEF UnpublishedInv
    <3> QED BY <2>2, <3>1, <3>2 DEF ThreadStep, Making
  <2>3. th'[t] = th[t] \/ ThreadStep(t)
    BY ThisThread
  <2> QED BY <2>1, <2>2, <2>3
\* A thread that has found a Library had found it, or finds it in the map now.
<1>2. ASSUME NEW u \in Threads, At(u, "deref")'
      PROVE  \/ At(u, "deref") /\ th'[u].lib = th[u].lib
             \/ /\ \E n \in Names : th'[u].lib = cache[n] /\ cache[n] # None
                /\ lib' = lib /\ \A v \in Threads \ {u} : th'[v] = th[v]
  <2>1. CASE th'[u] = th[u]
    BY <1>2, <2>1 DEF At
  <2>2. CASE ThreadStep(u)
    <3>1. th'[u].pc = "deref" /\ th'[u].via = "cache"
      BY <1>2, NextInv DEF At, LibraryInv, ThreadInv, Knows
    <3>2. th[u].via = "cache" => th[u].pc \notin {"clear", "dlsym", "symerror"}
      BY DEF UnpublishedInv
    <3>3. PICK n \in Names : GetCachedInstance(u, n) /\ th'[u].lib = cache[n] /\ cache[n] # None
      BY <2>2, <3>1, <3>2 DEF ThreadStep
    <3> QED BY <2>2, <3>3 DEF GetCachedInstance, ThreadStep
  <2>3. th'[u] = th[u] \/ ThreadStep(u)
    BY ThisThread
  <2> QED BY <2>1, <2>2, <2>3
<1>3. ASSUME NEW t \in Threads, Making(t)', NEW n \in Names PROVE cache'[n] # th'[t].lib
  <2>1. CASE cache'[n] = cache[n]
    <3>1. CASE Making(t) /\ th'[t].lib = th[t].lib
      BY <2>1, <3>1 DEF UnpublishedInv
    <3>2. CASE lib[th'[t].lib].state = "none"
      <4>1. th'[t].lib \in Libs
        BY <1>3, WorkedOn, NextInv DEF Making, LibraryInv, ThreadInv, Knows
      <4> QED BY <2>1, <3>2, <4>1 DEF LibraryInv, CollectInv
    <3> QED BY <1>1, <1>3, <3>1, <3>2
  <2>2. ASSUME NEW u \in Threads, Put(u), cache'[n] = th[u].lib PROVE cache'[n] # th'[t].lib
    <3>1. /\ th[u].pc = "put" /\ th[u].lib \in Libs /\ lib[th[u].lib].by = u
          /\ lib[th[u].lib].state = "live"
      BY <2>2 DEF Put, At, LibraryInv, ThreadInv, Knows
    <3>2. t # u
      <4>1. th'[u] = Idle
        BY <2>2, <3>1, ReturnStep DEF Put, LibraryInv
      <4> QED BY <1>3, <4>1 DEF Making, Idle
    <3>3. CASE Making(t) /\ th'[t].lib = th[t].lib
      <4>1. lib[th[t].lib].by = t
        BY <3>3 DEF LibraryInv, ThreadInv, Knows, At, Making
      <4> QED BY <2>2, <3>1, <3>2, <3>3, <4>1
    <3>4. CASE lib[th'[t].lib].state = "none"
      BY <2>2, <3>1, <3>4
    <3> QED BY <1>1, <1>3, <3>3, <3>4
  <2> QED BY <2>1, <2>2, MapMoves
<1>4. ASSUME NEW t \in Threads, Making(t)', NEW u \in Threads \ {t}, At(u, "deref")'
      PROVE  th'[u].lib # th'[t].lib
  <2>1. CASE At(u, "deref") /\ th'[u].lib = th[u].lib
    <3>1. th[u].lib \in Libs /\ lib[th[u].lib].state # "none"
      BY <2>1, WorkedOn
    <3>2. CASE Making(t) /\ th'[t].lib = th[t].lib
      BY <2>1, <3>2 DEF UnpublishedInv
    <3>3. CASE lib[th'[t].lib].state = "none"
      BY <2>1, <3>1, <3>3
    <3> QED BY <1>1, <1>4, <3>2, <3>3
  <2>2. ASSUME NEW n \in Names, th'[u].lib = cache[n], cache[n] # None,
               \A v \in Threads \ {u} : th'[v] = th[v]
        PROVE  th'[u].lib # th'[t].lib
    <3>1. th'[t] = th[t]
      BY <1>4, <2>2
    <3>2. Making(t)
      BY <1>4, <3>1 DEF Making
    <3> QED BY <2>2, <3>1, <3>2 DEF UnpublishedInv
  <2> QED BY <1>2, <1>4, <2>1, <2>2
<1>5. default' \in Libs => ~Cached(default)'
  <2>1. CASE default' = default
    <3>1. default \in Libs => ~Cached(default) /\ lib[default].state # "none"
      BY DEF UnpublishedInv, LibraryInv, CollectInv
    <3> QED BY <2>1, <3>1, LibKeeps DEF Cached
  <2>2. ASSUME NEW t \in Threads, DlOpenFails(t), default' # default PROVE default' = None
    BY <2>2 DEF DlOpenFails
  <2>3. ASSUME NEW t \in Threads, Construct(t), default' # default
        PROVE  ~Cached(default)'
    <3>1. default' = th[t].lib /\ th[t].via = "default"
      BY <2>3 DEF Construct
    <3>2. /\ th[t].lib \in Libs /\ lib[th[t].lib].via = "default"
          /\ lib[th[t].lib].state = "opened"
      BY <2>3, <3>1 DEF Construct, At, LibraryInv, ThreadInv, Knows
    <3> QED BY <3>1, <3>2, LibKeeps DEF Cached
  <2>4. default' = default \/ \E t \in Threads : DlOpenFails(t) \/ Construct(t)
    <3>1. CASE UNCHANGED vars
      BY <3>1 DEF vars
    <3>2. ASSUME NEW t \in Threads,
                 \/ \E m \in Names : GetCachedInstance(t, m)
                 \/ \E m \in AllNames : OpenLibrary(t, m)
                 \/ \E l \in Libs : GetSymbolAddress(t, l)
                 \/ Deref(t) \/ GetDefault(t) \/ DlOpen(t) \/ Put(t)
                 \/ ClearDlerror(t) \/ DlSym(t) \/ DlSymFails(t) \/ CatchSymbol(t)
          PROVE  default' = default
      BY <3>2 DEF GetCachedInstance, OpenLibrary, GetSymbolAddress, Deref, GetDefault, DlOpen,
         Put, ClearDlerror, DlSym, DlSymFails, CatchSymbol
    <3>3. ASSUME NEW l \in Libs, Forget(l) \/ Clear(l) \/ RunThunk(l) PROVE default' = default
      BY <3>3 DEF Forget, Clear, RunThunk
    <3> QED BY <3>1, <3>2, <3>3 DEF Next
  <2>5. None \notin Libs
    BY LibraryAssumption DEF LibraryAssumption
  <2> QED BY <2>1, <2>2, <2>3, <2>4, <2>5
<1>6. ASSUME NEW t \in Threads, th'[t].via = "cache"
      PROVE  th'[t].pc \in {"deref", "dlopen", "dlerror", "construct", "put"}
  <2>1. CASE th'[t] = th[t]
    BY <1>6, <2>1 DEF UnpublishedInv
  <2>2. CASE ThreadStep(t)
    <3>1. th[t].via = "cache" => th[t].pc \notin {"clear", "dlsym", "symerror"}
      BY DEF UnpublishedInv
    <3> QED BY <1>6, <2>2, <3>1 DEF ThreadStep
  <2>3. th'[t] = th[t] \/ ThreadStep(t)
    BY ThisThread
  <2> QED BY <2>1, <2>2, <2>3
<1> QED BY <1>3, <1>4, <1>5, <1>6 DEF UnpublishedInv

\* getCachedInstance does what WeakCache says of a request, for any number of
\* threads, names and Libraries: whatever races with it, it returns a Library of
\* the name it was asked for whose handle is open, and its own if it opened one.
THEOREM CachedInstances == Spec => ImplementsWeakCache
<1>1. Init => Cache!Init
  BY DEF Init, Cache!Init, Requests, Alive, Fresh, HeldCached, Making, Usable, Idle
<1>2. Init => KeyedInv /\ UnpublishedInv
  BY LibraryAssumption DEF Init, LibraryAssumption, KeyedInv, UnpublishedInv, Making, At, Idle
<1> QED BY <1>1, <1>2, LibraryInvariance, KeyedNext, UnpublishedNext, StepRefines, PTL
        DEF Spec, ImplementsWeakCache, Cache!Spec
=============================================================================
