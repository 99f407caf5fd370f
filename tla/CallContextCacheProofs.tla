------------------------- MODULE CallContextCacheProofs -------------------------
(***************************************************************************)
(* CacheInv is an inductive invariant of CallContextCache, for any number  *)
(* of threads, signatures and contexts, whether or not the contexts can be *)
(* collected, and with it CallContextCache implements WeakCache.           *)
(***************************************************************************)
EXTENDS CallContextCache, TLAPS

\* The possible values of a thread's state.
Local == [pc : PCs, sig : Signatures \cup {None}, fixed : FixedCounts \cup {None},
          c : Contexts \cup {None}]

\* The possible values of a thread's last answer.
Answer == [sig : Signatures \cup {None}, fixed : FixedCounts \cup {None},
           gotSig : Signatures \cup {None}, gotFixed : FixedCounts \cup {None}]

\* At the start the map is empty and no context exists.
LEMMA InitInv == Init => CacheInv
<1> SUFFICES ASSUME Init PROVE CacheInv
  OBVIOUS
<1> USE CacheAssumption DEF Init, Idle
<1>1. TypeOK
  BY DEF TypeOK, At, PCs, RefStates
<1>2. KeyedInv /\ ThreadInv
  BY DEF KeyedInv, ThreadInv, At
<1>3. SignatureAsRequested /\ NoDeadEntryLeaked
  BY DEF SignatureAsRequested, NoDeadEntryLeaked
<1>4. PinnedInv
  BY DEF PinnedInv, Pinned, NothingCleared, CachedOnceCreated, FirstOfItsThread,
     OneContextPerThread, Exists, At
<1> QED BY <1>1, <1>2, <1>3, <1>4 DEF CacheInv

\* A Goto changes the state of one thread.
LEMMA GotoStep ==
  ASSUME TypeOK, NEW t \in Threads, NEW l \in Local, Goto(t, l)
  PROVE  /\ th' \in [Threads -> Local]
         /\ th'[t] = l
         /\ \A u \in Threads \ {t} : th'[u] = th[u]
BY DEF TypeOK, Goto, Local

\* The fields of a context that exists.
LEMMA FieldsInRange ==
  ASSUME TypeOK
  PROVE  \A d \in Contexts : Exists(d) => /\ context[d].by \in Threads
                                         /\ context[d].sig \in Signatures
BY DEF TypeOK, Exists, Fields

\* What Return does to the variables a caller sees.
LEMMA ReturnStep ==
  ASSUME TypeOK, NEW t \in Threads, NEW c \in Contexts, Exists(c), Return(t, c)
  PROVE  /\ held' = held \cup {c}
         /\ answer' \in [Threads -> Answer]
         /\ answer'[t].sig = th[t].sig /\ answer'[t].gotSig = context[c].sig
         /\ \A u \in Threads \ {t} : answer'[u] = answer[u]
<1>1. context[c].sig \in Signatures /\ context[c].fixed \in FixedCounts
  BY DEF TypeOK, Exists, Fields
<1> DEFINE a == [sig |-> th[t].sig, fixed |-> th[t].fixed,
                 gotSig |-> context[c].sig, gotFixed |-> context[c].fixed]
<1>2. a \in Answer
  BY <1>1 DEF TypeOK, Answer
<1>3. held' = held \cup {c} /\ answer' = [answer EXCEPT ![t] = a]
  BY DEF Return
<1>4. a.sig = th[t].sig /\ a.gotSig = context[c].sig
  OBVIOUS
<1> HIDE DEF a
<1> QED BY <1>2, <1>3, <1>4 DEF TypeOK, Answer

\* The lookup of a signature: a reference that is found is one of the map.
LEMMA GetInv ==
  ASSUME CacheInv, NEW t \in Threads, NEW s \in Signatures, NEW n \in FixedCounts,
         GetCallContext(t, s, n), thunkHolds' = thunkHolds
  PROVE  CacheInv'
<1> USE CacheAssumption DEF CacheInv
<1> DEFINE l == IF contextCache[s] # None THEN At("deref", s, n, contextCache[s])
                                      ELSE At("cull", s, n, None)
<1>0. Goto(t, l) /\ UNCHANGED <<contextCache, context, ref, held, answer>> /\ th[t].pc = "idle"
  BY DEF GetCallContext
<1>1. l \in Local
  BY <1>0 DEF Local, At, Idle, PCs, TypeOK, ThreadInv
<1>2. /\ th' \in [Threads -> Local]
      /\ th'[t] = l
      /\ \A u \in Threads \ {t} : th'[u] = th[u]
  BY <1>1, <1>0, GotoStep
<1>3. TypeOK'
  BY <1>0, <1>2 DEF TypeOK, Answer, Local, RefStates, Fields
<1>4. KeyedInv'
  BY <1>0, <1>2 DEF KeyedInv, Exists, TypeOK
<1>5. ThreadInv'
  BY <1>0, <1>2 DEF ThreadInv, KeyedInv, Exists, At, Idle, TypeOK
<1>6. SignatureAsRequested'
  BY <1>0, <1>2 DEF SignatureAsRequested, TypeOK
<1>7. NoDeadEntryLeaked'
  BY <1>0, <1>2 DEF NoDeadEntryLeaked, At, TypeOK, Idle
<1>8. PinnedInv'
  <2>0. SUFFICES ASSUME thunkHolds = TRUE
        PROVE  Pinned'
    BY DEF PinnedInv
  <2>a. Pinned
    BY <2>0 DEF PinnedInv
  <2>1. NothingCleared'
    BY <1>0, <1>2, <2>0, <2>a DEF Pinned, NothingCleared, TypeOK, KeyedInv, ThreadInv
  <2>2. CachedOnceCreated'
    BY <1>0, <1>2, <2>0, <2>a, FieldsInRange DEF Pinned, NothingCleared,
       CachedOnceCreated, Exists, TypeOK, At, Idle, KeyedInv, ThreadInv
  <2>3. FirstOfItsThread'
    <3> SUFFICES ASSUME NEW u \in Threads, th'[u].pc \in {"cull", "create"},
                        NEW c \in Contexts, Exists(c), context[c].sig = th'[u].sig
                 PROVE  context[c].by # u
      BY <1>0 DEF FirstOfItsThread, Exists
    <3>1. CASE u # t
      BY <1>2, <2>a, <3>1 DEF Pinned, FirstOfItsThread
    <3>2. CASE u = t
      <4>1. contextCache[s] = None /\ context[c].sig = s
        BY <1>2, <3>2 DEF At
      <4>2. \E v \in Threads : v = context[c].by /\ th[v].pc = "put" /\ th[v].c = c
        BY <2>a, <4>1 DEF Pinned, CachedOnceCreated
      <4> QED BY <1>0, <3>2, <4>2
    <3> QED BY <3>1, <3>2
  <2>4. OneContextPerThread'
    BY <1>0, <1>2, <2>0, <2>a, FieldsInRange DEF Pinned, NothingCleared,
       OneContextPerThread, FirstOfItsThread, Exists, TypeOK, At, Idle
  <2> QED BY <2>1, <2>2, <2>3, <2>4 DEF Pinned
<1> QED BY <1>3, <1>4, <1>5, <1>6, <1>7, <1>8 DEF CacheInv

\* A reference that is not cleared yields its context; a cleared one is a miss.
LEMMA DerefInv ==
  ASSUME CacheInv, NEW t \in Threads, Deref(t), thunkHolds' = thunkHolds
  PROVE  CacheInv'
<1> USE CacheAssumption DEF CacheInv
<1> DEFINE c == th[t].c
           miss == At("cull", th[t].sig, th[t].fixed, None)
           l == IF ref[c] = "live" THEN Idle ELSE miss
<1>0. /\ Goto(t, l) /\ UNCHANGED <<contextCache, context, ref>> /\ th[t].pc = "deref"
      /\ \/ ref[c] = "live" /\ Return(t, c)
         \/ ref[c] # "live" /\ UNCHANGED <<held, answer>>
  BY DEF Deref, Return
<1>1. l \in Local
  BY <1>0 DEF Local, At, Idle, PCs, TypeOK, ThreadInv
<1>2. /\ th' \in [Threads -> Local]
      /\ th'[t] = l
      /\ \A u \in Threads \ {t} : th'[u] = th[u]
  BY <1>1, <1>0, GotoStep
<1>r. ref[th[t].c] = "live" =>
      /\ th[t].c \in Contexts /\ held' = held \cup {th[t].c}
      /\ answer' \in [Threads -> Answer]
      /\ answer'[t].sig = th[t].sig /\ answer'[t].gotSig = context[th[t].c].sig
      /\ \A u \in Threads \ {t} : answer'[u] = answer[u]
  BY <1>0, ReturnStep DEF ThreadInv
<1>3. TypeOK'
  BY <1>0, <1>r, <1>2 DEF TypeOK, Answer, Local, RefStates, Fields, ThreadInv, KeyedInv
<1>4. KeyedInv'
  BY <1>0, <1>r, <1>2 DEF KeyedInv, Exists, TypeOK, Fields, ThreadInv
<1>5. ThreadInv'
  BY <1>0, <1>r, <1>2 DEF ThreadInv, KeyedInv, Exists, At, Idle, TypeOK, Fields
<1>6. SignatureAsRequested'
  BY <1>0, <1>r, <1>2 DEF SignatureAsRequested, TypeOK, Fields, ThreadInv, KeyedInv
<1>7. NoDeadEntryLeaked'
  BY <1>0, <1>r, <1>2 DEF NoDeadEntryLeaked, At, TypeOK, Idle, Fields, ThreadInv, KeyedInv
<1>8. PinnedInv'
  <2>0. SUFFICES ASSUME thunkHolds = TRUE
        PROVE  Pinned'
    BY DEF PinnedInv
  <2>a. Pinned
    BY <2>0 DEF PinnedInv
  <2>1. NothingCleared'
    BY <1>0, <1>r, <1>2, <2>0, <2>a DEF Pinned, NothingCleared, TypeOK, KeyedInv, ThreadInv
  <2>2. CachedOnceCreated'
    BY <1>0, <1>r, <1>2, <2>0, <2>a, FieldsInRange DEF Pinned, NothingCleared,
       CachedOnceCreated, Exists, TypeOK, At, Idle, KeyedInv, ThreadInv
  <2>3. FirstOfItsThread'
    BY <1>0, <1>r, <1>2, <2>0, <2>a, FieldsInRange DEF Pinned, NothingCleared,
       FirstOfItsThread, CachedOnceCreated, Exists, TypeOK, At, Idle, KeyedInv,
       ThreadInv
  <2>4. OneContextPerThread'
    BY <1>0, <1>r, <1>2, <2>0, <2>a, FieldsInRange DEF Pinned, NothingCleared,
       OneContextPerThread, FirstOfItsThread, Exists, TypeOK, At, Idle
  <2> QED BY <2>1, <2>2, <2>3, <2>4 DEF Pinned
<1> QED BY <1>3, <1>4, <1>5, <1>6, <1>7, <1>8 DEF CacheInv

\* poll() hands a queued reference to the culling thread.
LEMMA CullInv ==
  ASSUME CacheInv, NEW t \in Threads, Cull(t), thunkHolds' = thunkHolds
  PROVE  CacheInv'
<1> USE CacheAssumption DEF CacheInv
<1>0. th[t].pc = "cull" /\ UNCHANGED <<contextCache, context, held, answer>>
  BY DEF Cull
<1>A. CASE UNCHANGED ref /\ Goto(t, At("create", th[t].sig, th[t].fixed, None))
<2>1. At("create", th[t].sig, th[t].fixed, None) \in Local
    BY <1>0, <1>A DEF Local, At, Idle, PCs, TypeOK, ThreadInv
  <2>2. /\ th' \in [Threads -> Local]
        /\ th'[t] = At("create", th[t].sig, th[t].fixed, None)
        /\ \A u \in Threads \ {t} : th'[u] = th[u]
    BY <2>1, <1>0, <1>A, GotoStep
  <2>3. TypeOK'
    BY <1>0, <1>A, <2>2 DEF TypeOK, Answer, Local, RefStates, Fields
  <2>4. KeyedInv'
    BY <1>0, <1>A, <2>2 DEF KeyedInv, Exists, TypeOK
  <2>5. ThreadInv'
    BY <1>0, <1>A, <2>2 DEF ThreadInv, KeyedInv, Exists, At, Idle, TypeOK
  <2>6. SignatureAsRequested'
    BY <1>0, <1>A, <2>2 DEF SignatureAsRequested, TypeOK
  <2>7. NoDeadEntryLeaked'
    BY <1>0, <1>A, <2>2 DEF NoDeadEntryLeaked, At, TypeOK, Idle
  <2>8. PinnedInv'
    <3>0. SUFFICES ASSUME thunkHolds = TRUE
          PROVE  Pinned'
      BY DEF PinnedInv
    <3>a. Pinned
      BY <3>0 DEF PinnedInv
    <3>1. NothingCleared'
      BY <1>0, <1>A, <2>2, <3>0, <3>a DEF Pinned, NothingCleared, TypeOK, KeyedInv,
         ThreadInv
    <3>2. CachedOnceCreated'
      BY <1>0, <1>A, <2>2, <3>0, <3>a, FieldsInRange DEF Pinned, NothingCleared,
         CachedOnceCreated, Exists, TypeOK, At, Idle, KeyedInv, ThreadInv
    <3>3. FirstOfItsThread'
      BY <1>0, <1>A, <2>2, <3>0, <3>a, FieldsInRange DEF Pinned, NothingCleared,
         FirstOfItsThread, CachedOnceCreated, Exists, TypeOK, At, Idle, KeyedInv,
         ThreadInv
    <3>4. OneContextPerThread'
      BY <1>0, <1>A, <2>2, <3>0, <3>a, FieldsInRange DEF Pinned, NothingCleared,
         OneContextPerThread, FirstOfItsThread, Exists, TypeOK, At, Idle
    <3> QED BY <3>1, <3>2, <3>3, <3>4 DEF Pinned
  <2> QED BY <2>3, <2>4, <2>5, <2>6, <2>7, <2>8 DEF CacheInv
<1>B. ASSUME NEW c \in Contexts, ref[c] = "queued", ref' = [ref EXCEPT ![c] = "done"],
             Goto(t, At("remove", th[t].sig, th[t].fixed, c))
      PROVE  CacheInv'
  <2>1. At("remove", th[t].sig, th[t].fixed, c) \in Local
    BY <1>0, <1>B DEF Local, At, Idle, PCs, TypeOK, ThreadInv
  <2>2. /\ th' \in [Threads -> Local]
        /\ th'[t] = At("remove", th[t].sig, th[t].fixed, c)
        /\ \A u \in Threads \ {t} : th'[u] = th[u]
    BY <2>1, <1>0, <1>B, GotoStep
  <2>3. TypeOK'
    BY <1>0, <1>B, <2>2 DEF TypeOK, Answer, Local, RefStates, Fields, KeyedInv, ThreadInv
  <2>4. KeyedInv'
    BY <1>0, <1>B, <2>2 DEF KeyedInv, Exists, TypeOK, ThreadInv
  <2>5. ThreadInv'
    BY <1>0, <1>B, <2>2 DEF ThreadInv, KeyedInv, Exists, At, Idle, TypeOK
  <2>6. SignatureAsRequested'
    BY <1>0, <1>B, <2>2 DEF SignatureAsRequested, TypeOK, KeyedInv, ThreadInv
  <2>7. NoDeadEntryLeaked'
    BY <1>0, <1>B, <2>2 DEF NoDeadEntryLeaked, At, TypeOK, Idle, KeyedInv, ThreadInv
  <2>8. PinnedInv'
    <3>0. SUFFICES ASSUME thunkHolds = TRUE
          PROVE  Pinned'
      BY DEF PinnedInv
    <3>a. Pinned
      BY <3>0 DEF PinnedInv
    <3>1. NothingCleared'
      BY <1>0, <1>B, <2>2, <3>0, <3>a DEF Pinned, NothingCleared, TypeOK, KeyedInv,
         ThreadInv
    <3>2. CachedOnceCreated'
      BY <1>0, <1>B, <2>2, <3>0, <3>a, FieldsInRange DEF Pinned, NothingCleared,
         CachedOnceCreated, Exists, TypeOK, At, Idle, KeyedInv, ThreadInv
    <3>3. FirstOfItsThread'
      BY <1>0, <1>B, <2>2, <3>0, <3>a, FieldsInRange DEF Pinned, NothingCleared,
         FirstOfItsThread, CachedOnceCreated, Exists, TypeOK, At, Idle, KeyedInv,
         ThreadInv
    <3>4. OneContextPerThread'
      BY <1>0, <1>B, <2>2, <3>0, <3>a, FieldsInRange DEF Pinned, NothingCleared,
         OneContextPerThread, FirstOfItsThread, Exists, TypeOK, At, Idle
    <3> QED BY <3>1, <3>2, <3>3, <3>4 DEF Pinned
  <2> QED BY <2>3, <2>4, <2>5, <2>6, <2>7, <2>8 DEF CacheInv
<1> QED BY <1>A, <1>B DEF Cull

\* Culling removes the signature of a dead reference.
LEMMA RemoveInv ==
  ASSUME CacheInv, NEW t \in Threads, Remove(t), thunkHolds' = thunkHolds
  PROVE  CacheInv'
<1> USE CacheAssumption DEF CacheInv
<1> DEFINE l == At("cull", th[t].sig, th[t].fixed, None)
<1>0. /\ Goto(t, l) /\ UNCHANGED <<context, ref, held, answer>> /\ th[t].pc = "remove"
      /\ contextCache' = [contextCache EXCEPT ![context[th[t].c].sig] = None]
  BY DEF Remove
<1>1. l \in Local
  BY <1>0 DEF Local, At, Idle, PCs, TypeOK, ThreadInv
<1>2. /\ th' \in [Threads -> Local]
      /\ th'[t] = l
      /\ \A u \in Threads \ {t} : th'[u] = th[u]
  BY <1>1, <1>0, GotoStep
<1>3. TypeOK'
  BY <1>0, <1>2 DEF TypeOK, Answer, Local, RefStates, Fields, ThreadInv, KeyedInv, Exists
<1>4. KeyedInv'
  BY <1>0, <1>2 DEF KeyedInv, Exists, TypeOK, ThreadInv, Fields
<1>5. ThreadInv'
  BY <1>0, <1>2 DEF ThreadInv, KeyedInv, Exists, At, Idle, TypeOK, Fields
<1>6. SignatureAsRequested'
  BY <1>0, <1>2 DEF SignatureAsRequested, TypeOK, ThreadInv, KeyedInv, Exists, Fields
<1>7. NoDeadEntryLeaked'
  BY <1>0, <1>2 DEF NoDeadEntryLeaked, At, TypeOK, Idle, ThreadInv, KeyedInv, Exists, Fields
<1>8. PinnedInv'
  <2>0. SUFFICES ASSUME thunkHolds = TRUE
        PROVE  Pinned'
    BY DEF PinnedInv
  <2>a. Pinned
    BY <2>0 DEF PinnedInv
  <2>1. NothingCleared'
    BY <1>0, <1>2, <2>0, <2>a DEF Pinned, NothingCleared, TypeOK, KeyedInv, ThreadInv
  <2>2. CachedOnceCreated'
    BY <1>0, <1>2, <2>0, <2>a, FieldsInRange DEF Pinned, NothingCleared,
       CachedOnceCreated, Exists, TypeOK, At, Idle, KeyedInv, ThreadInv
  <2>3. FirstOfItsThread'
    BY <1>0, <1>2, <2>0, <2>a, FieldsInRange DEF Pinned, NothingCleared,
       FirstOfItsThread, CachedOnceCreated, Exists, TypeOK, At, Idle, KeyedInv,
       ThreadInv
  <2>4. OneContextPerThread'
    BY <1>0, <1>2, <2>0, <2>a, FieldsInRange DEF Pinned, NothingCleared,
       OneContextPerThread, FirstOfItsThread, Exists, TypeOK, At, Idle
  <2> QED BY <2>1, <2>2, <2>3, <2>4 DEF Pinned
<1> QED BY <1>3, <1>4, <1>5, <1>6, <1>7, <1>8 DEF CacheInv

\* A thread that missed creates its first context for the signature.
LEMMA CreateInv ==
  ASSUME CacheInv, NEW t \in Threads, Create(t), thunkHolds' = thunkHolds
  PROVE  CacheInv'
<1> USE CacheAssumption DEF CacheInv
<1> DEFINE f == [sig |-> th[t].sig, fixed |-> th[t].fixed, by |-> t]
<1>0. /\ th[t].pc = "create" /\ UNCHANGED <<contextCache, held, answer>>
      /\ f \in Fields
  BY DEF Create, Fields, ThreadInv
<1>a. PICK c \in Contexts : /\ context[c] = None
                            /\ context' = [context EXCEPT ![c] = f]
                            /\ ref' = [ref EXCEPT ![c] = "live"]
                            /\ Goto(t, At("put", th[t].sig, th[t].fixed, c))
  BY DEF Create
<1> DEFINE l == At("put", th[t].sig, th[t].fixed, c)
<1>1. l \in Local
  BY <1>0, <1>a DEF Local, At, Idle, PCs, TypeOK, ThreadInv
<1>2. /\ th' \in [Threads -> Local]
      /\ th'[t] = l
      /\ \A u \in Threads \ {t} : th'[u] = th[u]
  BY <1>1, <1>0, <1>a, GotoStep
<1>b. /\ context'[c] = f /\ f # None /\ f.sig = th[t].sig /\ f.by = t
      /\ \A d \in Contexts \ {c} : context'[d] = context[d]
  BY <1>0, <1>a DEF TypeOK
<1> HIDE DEF f
<1>3. TypeOK'
  BY <1>0, <1>a, <1>b, <1>2 DEF TypeOK, Answer, Local, RefStates, Fields, ThreadInv,
     KeyedInv, Exists
<1>4. KeyedInv'
  BY <1>0, <1>a, <1>b, <1>2 DEF KeyedInv, Exists, TypeOK, ThreadInv
<1>5. ThreadInv'
  BY <1>0, <1>a, <1>b, <1>2 DEF ThreadInv, KeyedInv, Exists, At, Idle, TypeOK
<1>6. SignatureAsRequested'
  BY <1>0, <1>a, <1>b, <1>2 DEF SignatureAsRequested, TypeOK, ThreadInv, KeyedInv, Exists
<1>7. NoDeadEntryLeaked'
  BY <1>0, <1>a, <1>b, <1>2 DEF NoDeadEntryLeaked, At, TypeOK, Idle, ThreadInv,
     KeyedInv, Exists
<1>8. PinnedInv'
  <2>0. SUFFICES ASSUME thunkHolds = TRUE
        PROVE  Pinned'
    BY DEF PinnedInv
  <2>a. Pinned
    BY <2>0 DEF PinnedInv
  <2>1. NothingCleared'
    BY <1>0, <1>a, <1>b, <1>2, <2>0, <2>a DEF Pinned, NothingCleared, TypeOK,
       KeyedInv, ThreadInv
  <2>2. CachedOnceCreated'
    BY <1>0, <1>a, <1>b, <1>2, <2>0, <2>a, FieldsInRange DEF Pinned, NothingCleared,
       CachedOnceCreated, Exists, TypeOK, At, Idle, KeyedInv, ThreadInv
  <2>3. FirstOfItsThread'
    BY <1>0, <1>a, <1>b, <1>2, <2>0, <2>a, FieldsInRange DEF Pinned, NothingCleared,
       FirstOfItsThread, CachedOnceCreated, Exists, TypeOK, At, Idle, KeyedInv,
       ThreadInv
  <2>4. OneContextPerThread'
    BY <1>0, <1>a, <1>b, <1>2, <2>0, <2>a, FieldsInRange DEF Pinned, NothingCleared,
       OneContextPerThread, FirstOfItsThread, Exists, TypeOK, At, Idle
  <2> QED BY <2>1, <2>2, <2>3, <2>4 DEF Pinned
<1> QED BY <1>3, <1>4, <1>5, <1>6, <1>7, <1>8 DEF CacheInv

\* A constructor that throws leaves the cache alone.
LEMMA CreateFailsInv ==
  ASSUME CacheInv, NEW t \in Threads, CreateFails(t), thunkHolds' = thunkHolds
  PROVE  CacheInv'
<1> USE CacheAssumption DEF CacheInv
<1>0. /\ Goto(t, Idle) /\ th[t].pc = "create"
      /\ UNCHANGED <<contextCache, context, ref, held, answer>>
  BY DEF CreateFails
<1>1. Idle \in Local
  BY DEF Local, At, Idle, PCs, TypeOK, ThreadInv
<1>2. /\ th' \in [Threads -> Local]
      /\ th'[t] = Idle
      /\ \A u \in Threads \ {t} : th'[u] = th[u]
  BY <1>1, <1>0, GotoStep
<1>3. TypeOK'
  BY <1>0, <1>2 DEF TypeOK, Answer, Local, RefStates, Fields
<1>4. KeyedInv'
  BY <1>0, <1>2 DEF KeyedInv, Exists, TypeOK
<1>5. ThreadInv'
  BY <1>0, <1>2 DEF ThreadInv, KeyedInv, Exists, At, Idle, TypeOK
<1>6. SignatureAsRequested'
  BY <1>0, <1>2 DEF SignatureAsRequested, TypeOK
<1>7. NoDeadEntryLeaked'
  BY <1>0, <1>2 DEF NoDeadEntryLeaked, At, TypeOK, Idle
<1>8. PinnedInv'
  <2>0. SUFFICES ASSUME thunkHolds = TRUE
        PROVE  Pinned'
    BY DEF PinnedInv
  <2>a. Pinned
    BY <2>0 DEF PinnedInv
  <2>1. NothingCleared'
    BY <1>0, <1>2, <2>0, <2>a DEF Pinned, NothingCleared, TypeOK, KeyedInv, ThreadInv
  <2>2. CachedOnceCreated'
    BY <1>0, <1>2, <2>0, <2>a, FieldsInRange DEF Pinned, NothingCleared,
       CachedOnceCreated, Exists, TypeOK, At, Idle, KeyedInv, ThreadInv
  <2>3. FirstOfItsThread'
    BY <1>0, <1>2, <2>0, <2>a, FieldsInRange DEF Pinned, NothingCleared,
       FirstOfItsThread, CachedOnceCreated, Exists, TypeOK, At, Idle, KeyedInv,
       ThreadInv
  <2>4. OneContextPerThread'
    BY <1>0, <1>2, <2>0, <2>a, FieldsInRange DEF Pinned, NothingCleared,
       OneContextPerThread, FirstOfItsThread, Exists, TypeOK, At, Idle
  <2> QED BY <2>1, <2>2, <2>3, <2>4 DEF Pinned
<1> QED BY <1>3, <1>4, <1>5, <1>6, <1>7, <1>8 DEF CacheInv

\* put() maps the signature to the context its creator returns.
LEMMA PutInv ==
  ASSUME CacheInv, NEW t \in Threads, Put(t), thunkHolds' = thunkHolds
  PROVE  CacheInv'
<1> USE CacheAssumption DEF CacheInv
<1>0. /\ Return(t, th[t].c) /\ Goto(t, Idle) /\ th[t].pc = "put" /\ UNCHANGED <<context, ref>>
      /\ contextCache' = [contextCache EXCEPT ![th[t].sig] = th[t].c]
  BY DEF Put, Return
<1>1. Idle \in Local
  BY DEF Local, At, Idle, PCs, TypeOK, ThreadInv
<1>2. /\ th' \in [Threads -> Local]
      /\ th'[t] = Idle
      /\ \A u \in Threads \ {t} : th'[u] = th[u]
  BY <1>1, <1>0, GotoStep
<1>r. /\ th[t].c \in Contexts /\ held' = held \cup {th[t].c}
      /\ answer' \in [Threads -> Answer]
      /\ answer'[t].sig = th[t].sig /\ answer'[t].gotSig = context[th[t].c].sig
      /\ \A u \in Threads \ {t} : answer'[u] = answer[u]
  BY <1>0, ReturnStep DEF ThreadInv
<1>3. TypeOK'
  <2>1. /\ context' \in [Contexts -> Fields \cup {None}]
        /\ ref' \in [Contexts -> RefStates]
        /\ held' \subseteq Contexts
    BY <1>0, <1>r DEF TypeOK
  <2>2. contextCache' \in [Signatures -> Contexts \cup {None}]
    BY <1>0, <1>r DEF TypeOK, ThreadInv
  <2>3. /\ answer' \in [Threads -> Answer]
        /\ th' \in [Threads -> Local]
    BY <1>2, <1>r
  <2> QED BY <2>1, <2>2, <2>3 DEF TypeOK, Answer, Local
<1>4. KeyedInv'
  BY <1>0, <1>r, <1>2 DEF KeyedInv, Exists, TypeOK, Fields, ThreadInv
<1>5. ThreadInv'
  <2>1. UNCHANGED <<context, ref>> /\ th[t].pc = "put"
    BY <1>0
  <2>2. \A s \in Signatures : contextCache'[s] \in {contextCache[s], th[t].c}
    BY <1>0 DEF TypeOK
  <2>3. \A u \in Threads \ {t} : th[u].pc = "put" => th[u].c # th[t].c
    BY <2>1 DEF ThreadInv
  <2> QED BY <1>2, <2>1, <2>2, <2>3 DEF ThreadInv, Exists, At, Idle
<1>6. SignatureAsRequested'
  BY <1>0, <1>r, <1>2 DEF SignatureAsRequested, TypeOK, Fields, ThreadInv, KeyedInv, Exists
<1>7. NoDeadEntryLeaked'
  BY <1>0, <1>r, <1>2 DEF NoDeadEntryLeaked, At, TypeOK, Idle, Fields, ThreadInv,
     KeyedInv, Exists
<1>8. PinnedInv'
  <2>0. SUFFICES ASSUME thunkHolds = TRUE
        PROVE  Pinned'
    BY DEF PinnedInv
  <2>a. Pinned
    BY <2>0 DEF PinnedInv
  <2>1. NothingCleared'
    BY <1>0, <2>a DEF Pinned, NothingCleared
  <2>2. CachedOnceCreated'
    <3> SUFFICES ASSUME NEW d \in Contexts, Exists(d)
        PROVE  \/ contextCache'[context[d].sig] # None
               \/ \E u \in Threads : u = context[d].by /\ th'[u].pc = "put" /\ th'[u].c = d
      BY <1>0 DEF CachedOnceCreated, Exists
    <3>1. context[d].sig \in Signatures
      BY DEF TypeOK, Exists, Fields
    <3>2. th[t].c # None /\ context[th[t].c].sig = th[t].sig
      BY <1>0 DEF ThreadInv
    <3>3. CASE context[d].sig = th[t].sig
      BY <1>0, <3>1, <3>2, <3>3 DEF TypeOK
    <3>4. CASE context[d].sig # th[t].sig
      BY <1>0, <1>2, <2>a, <3>1, <3>2, <3>4 DEF Pinned, NothingCleared,
         CachedOnceCreated, TypeOK
    <3> QED BY <3>3, <3>4
  <2>3. FirstOfItsThread'
    BY <1>0, <1>2, <2>a DEF Pinned, NothingCleared, FirstOfItsThread, Exists, TypeOK,
       At, Idle
  <2>4. OneContextPerThread'
    BY <1>0, <2>a DEF Pinned, NothingCleared, OneContextPerThread, Exists
  <2> QED BY <2>1, <2>2, <2>3, <2>4 DEF Pinned
<1> QED BY <1>3, <1>4, <1>5, <1>6, <1>7, <1>8 DEF CacheInv

\* The application forgets a context.
LEMMA DropInv ==
  ASSUME CacheInv, NEW c \in Contexts, Drop(c), thunkHolds' = thunkHolds
  PROVE  CacheInv'
<1> USE CacheAssumption DEF CacheInv
<1> USE DEF Drop
<1>1. TypeOK'
  BY DEF TypeOK, Answer, Local, RefStates, Fields
<1>2. KeyedInv'
  BY DEF KeyedInv, Exists, TypeOK
<1>3. ThreadInv'
  BY DEF ThreadInv, KeyedInv, Exists, At, Idle, TypeOK
<1>4. SignatureAsRequested'
  BY DEF SignatureAsRequested, TypeOK
<1>5. NoDeadEntryLeaked'
  BY DEF NoDeadEntryLeaked, At, TypeOK, Idle
<1>6. PinnedInv'
  <2>0. SUFFICES ASSUME thunkHolds = TRUE
        PROVE  Pinned'
    BY DEF PinnedInv
  <2>a. Pinned
    BY <2>0 DEF PinnedInv
  <2>1. NothingCleared'
    BY <2>0, <2>a DEF Pinned, NothingCleared, TypeOK, KeyedInv, ThreadInv
  <2>2. CachedOnceCreated'
    BY <2>0, <2>a, FieldsInRange DEF Pinned, NothingCleared, CachedOnceCreated,
       Exists, TypeOK, At, Idle, KeyedInv, ThreadInv
  <2>3. FirstOfItsThread'
    BY <2>0, <2>a, FieldsInRange DEF Pinned, NothingCleared, FirstOfItsThread,
       CachedOnceCreated, Exists, TypeOK, At, Idle, KeyedInv, ThreadInv
  <2>4. OneContextPerThread'
    BY <2>0, <2>a, FieldsInRange DEF Pinned, NothingCleared, OneContextPerThread,
       FirstOfItsThread, Exists, TypeOK, At, Idle
  <2> QED BY <2>1, <2>2, <2>3, <2>4 DEF Pinned
<1> QED BY <1>1, <1>2, <1>3, <1>4, <1>5, <1>6 DEF CacheInv

\* A cleared reference that is in the map becomes pending.
LEMMA ClearInv ==
  ASSUME CacheInv, NEW c \in Contexts, Clear(c), thunkHolds' = thunkHolds
  PROVE  CacheInv'
<1> USE CacheAssumption DEF CacheInv
<1> USE DEF Clear, StronglyReachable, RefReachable
<1>1. TypeOK'
  BY DEF TypeOK, Answer, Local, RefStates, Fields, ThreadInv, KeyedInv
<1>2. KeyedInv'
  BY DEF KeyedInv, Exists, TypeOK, ThreadInv
<1>3. ThreadInv'
  BY DEF ThreadInv, KeyedInv, Exists, At, Idle, TypeOK
<1>4. SignatureAsRequested'
  BY DEF SignatureAsRequested, TypeOK, ThreadInv, KeyedInv
<1>5. NoDeadEntryLeaked'
  BY DEF NoDeadEntryLeaked, At, TypeOK, Idle, ThreadInv, KeyedInv
<1>6. PinnedInv'
  <2>0. SUFFICES ASSUME thunkHolds = TRUE
        PROVE  Pinned'
    BY DEF PinnedInv
  <2>a. Pinned
    BY <2>0 DEF PinnedInv
  <2>1. NothingCleared'
    BY <2>0, <2>a DEF Pinned, NothingCleared, TypeOK, KeyedInv, ThreadInv
  <2>2. CachedOnceCreated'
    BY <2>0, <2>a, FieldsInRange DEF Pinned, NothingCleared, CachedOnceCreated,
       Exists, TypeOK, At, Idle, KeyedInv, ThreadInv
  <2>3. FirstOfItsThread'
    BY <2>0, <2>a, FieldsInRange DEF Pinned, NothingCleared, FirstOfItsThread,
       CachedOnceCreated, Exists, TypeOK, At, Idle, KeyedInv, ThreadInv
  <2>4. OneContextPerThread'
    BY <2>0, <2>a, FieldsInRange DEF Pinned, NothingCleared, OneContextPerThread,
       FirstOfItsThread, Exists, TypeOK, At, Idle
  <2> QED BY <2>1, <2>2, <2>3, <2>4 DEF Pinned
<1> QED BY <1>1, <1>2, <1>3, <1>4, <1>5, <1>6 DEF CacheInv

\* The ReferenceHandler queues a pending reference.
LEMMA EnqueueInv ==
  ASSUME CacheInv, NEW c \in Contexts, Enqueue(c), thunkHolds' = thunkHolds
  PROVE  CacheInv'
<1> USE CacheAssumption DEF CacheInv
<1> USE DEF Enqueue
<1>1. TypeOK'
  BY DEF TypeOK, Answer, Local, RefStates, Fields, ThreadInv, KeyedInv
<1>2. KeyedInv'
  BY DEF KeyedInv, Exists, TypeOK, ThreadInv
<1>3. ThreadInv'
  BY DEF ThreadInv, KeyedInv, Exists, At, Idle, TypeOK
<1>4. SignatureAsRequested'
  BY DEF SignatureAsRequested, TypeOK, ThreadInv, KeyedInv
<1>5. NoDeadEntryLeaked'
  BY DEF NoDeadEntryLeaked, At, TypeOK, Idle, ThreadInv, KeyedInv
<1>6. PinnedInv'
  <2>0. SUFFICES ASSUME thunkHolds = TRUE
        PROVE  Pinned'
    BY DEF PinnedInv
  <2>a. Pinned
    BY <2>0 DEF PinnedInv
  <2>1. NothingCleared'
    BY <2>0, <2>a DEF Pinned, NothingCleared, TypeOK, KeyedInv, ThreadInv
  <2>2. CachedOnceCreated'
    BY <2>0, <2>a, FieldsInRange DEF Pinned, NothingCleared, CachedOnceCreated,
       Exists, TypeOK, At, Idle, KeyedInv, ThreadInv
  <2>3. FirstOfItsThread'
    BY <2>0, <2>a, FieldsInRange DEF Pinned, NothingCleared, FirstOfItsThread,
       CachedOnceCreated, Exists, TypeOK, At, Idle, KeyedInv, ThreadInv
  <2>4. OneContextPerThread'
    BY <2>0, <2>a, FieldsInRange DEF Pinned, NothingCleared, OneContextPerThread,
       FirstOfItsThread, Exists, TypeOK, At, Idle
  <2> QED BY <2>1, <2>2, <2>3, <2>4 DEF Pinned
<1> QED BY <1>1, <1>2, <1>3, <1>4, <1>5, <1>6 DEF CacheInv

\* Only a context that nothing refers to is forgotten.
LEMMA ForgetInv ==
  ASSUME CacheInv, NEW c \in Contexts, Forget(c), thunkHolds' = thunkHolds
  PROVE  CacheInv'
<1> USE CacheAssumption DEF CacheInv
<1> USE DEF Forget, RefReachable
<1>1. TypeOK'
  BY DEF TypeOK, Answer, Local, RefStates, Fields, ThreadInv, KeyedInv
<1>2. KeyedInv'
  BY DEF KeyedInv, Exists, TypeOK, ThreadInv
<1>3. ThreadInv'
  BY DEF ThreadInv, KeyedInv, Exists, At, Idle, TypeOK
<1>4. SignatureAsRequested'
  BY DEF SignatureAsRequested, TypeOK, ThreadInv, KeyedInv
<1>5. NoDeadEntryLeaked'
  BY DEF NoDeadEntryLeaked, At, TypeOK, Idle, ThreadInv, KeyedInv
<1>6. PinnedInv'
  <2>0. SUFFICES ASSUME thunkHolds = TRUE
        PROVE  Pinned'
    BY DEF PinnedInv
  <2>a. Pinned
    BY <2>0 DEF PinnedInv
  <2>1. NothingCleared'
    BY <2>0, <2>a DEF Pinned, NothingCleared, TypeOK, KeyedInv, ThreadInv
  <2>2. CachedOnceCreated'
    BY <2>0, <2>a, FieldsInRange DEF Pinned, NothingCleared, CachedOnceCreated,
       Exists, TypeOK, At, Idle, KeyedInv, ThreadInv
  <2>3. FirstOfItsThread'
    BY <2>0, <2>a, FieldsInRange DEF Pinned, NothingCleared, FirstOfItsThread,
       CachedOnceCreated, Exists, TypeOK, At, Idle, KeyedInv, ThreadInv
  <2>4. OneContextPerThread'
    BY <2>0, <2>a, FieldsInRange DEF Pinned, NothingCleared, OneContextPerThread,
       FirstOfItsThread, Exists, TypeOK, At, Idle
  <2> QED BY <2>1, <2>2, <2>3, <2>4 DEF Pinned
<1> QED BY <1>1, <1>2, <1>3, <1>4, <1>5, <1>6 DEF CacheInv

\* Every step preserves the invariant.
LEMMA NextInv == CacheInv /\ [Next]_vars => CacheInv'
<1> SUFFICES ASSUME CacheInv, [Next]_vars PROVE CacheInv'
  OBVIOUS
<1>1. CASE UNCHANGED vars
  BY <1>1 DEF vars, CacheInv, TypeOK, KeyedInv, ThreadInv, SignatureAsRequested,
     NoDeadEntryLeaked, PinnedInv, Pinned, NothingCleared, CachedOnceCreated,
     FirstOfItsThread, OneContextPerThread, Exists
<1>2. ASSUME NEW t \in Threads, NEW s \in Signatures, NEW n \in FixedCounts,
             GetCallContext(t, s, n), thunkHolds' = thunkHolds
      PROVE  CacheInv'
  BY <1>2, GetInv
<1>3. ASSUME NEW t \in Threads, Continue(t), thunkHolds' = thunkHolds
      PROVE  CacheInv'
  BY <1>3, DerefInv, CullInv, RemoveInv, CreateInv, CreateFailsInv, PutInv DEF Continue
<1>4. ASSUME NEW c \in Contexts, Drop(c) \/ Clear(c) \/ Enqueue(c) \/ Forget(c),
             thunkHolds' = thunkHolds
      PROVE  CacheInv'
  BY <1>4, DropInv, ClearInv, EnqueueInv, ForgetInv
<1> QED BY <1>1, <1>2, <1>3, <1>4 DEF Next

\* The invariant holds in every reachable state.
THEOREM CacheInvariance == Spec => []CacheInv
<1> QED BY InitInv, NextInv, PTL DEF Spec

\* No interleaving of clearing, culling and putting leaves a dead reference in
\* the map that no culling will ever remove.
THEOREM DeadEntriesAreCulled == Spec => []NoDeadEntryLeaked
<1>1. CacheInv => NoDeadEntryLeaked
  BY DEF CacheInv
<1> QED BY <1>1, CacheInvariance, PTL

\* getCallContext returns a context of the requested signature.
THEOREM ReturnsRequested == Spec => []SignatureAsRequested
<1>1. CacheInv => SignatureAsRequested
  BY DEF CacheInv
<1> QED BY <1>1, CacheInvariance, PTL

\* With contexts that are never collected, a thread creates at most one for a
\* signature: the duplicates are bounded by the number of threads.
THEOREM DuplicatesBounded == Spec => []OneContextPerThread
<1>1. CacheInv => OneContextPerThread
  <2> SUFFICES ASSUME CacheInv, thunkHolds = TRUE
               PROVE  OneContextPerThread
    BY DEF OneContextPerThread, CacheInv, TypeOK
  <2> QED BY DEF CacheInv, PinnedInv, Pinned
<1> QED BY <1>1, CacheInvariance, PTL

----------------------------------------------------------------------------
(***************************************************************************)
(* Refinement: the cache implements WeakCache.  A step of a thread changes *)
(* at most its own request and what it has made; looking up asks, creating *)
(* makes, a live reference and put answer, clearing lets a context die.    *)
(***************************************************************************)

\* The request of a thread, and the context it has created for it.
LEMMA OfThread ==
  ASSUME NEW t \in Threads
  PROVE  /\ Cache!Asking(t) = IF th[t].pc = "idle" THEN {} ELSE {[by |-> t, key |-> th[t].sig]}
         /\ Cache!Made(t) = IF th[t].pc = "put" THEN {[by |-> t, o |-> th[t].c]} ELSE {}
BY DEF Cache!Asking, Cache!Made, Requests, Fresh

\* A step of one thread leaves the requests of the others as they are.
LEMMA RequestsStep ==
  ASSUME NEW t \in Threads, \A u \in Threads \ {t} : th'[u] = th[u]
  PROVE  /\ Requests' = (Requests \ Cache!Asking(t)) \cup Cache!Asking(t)'
         /\ Cache!Asking(t)' =
              IF th'[t].pc = "idle" THEN {} ELSE {[by |-> t, key |-> th'[t].sig]}
<1>1. Cache!Asking(t)' =
        IF th'[t].pc = "idle" THEN {} ELSE {[by |-> t, key |-> th'[t].sig]}
  BY DEF Cache!Asking, Requests
<1>2. ASSUME NEW r PROVE r \in Requests' <=> r \in (Requests \ Cache!Asking(t)) \cup Cache!Asking(t)'
  BY <1>1, OfThread DEF Requests
<1> QED BY <1>1, <1>2

\* Nor does it change its own while it goes on serving it.
LEMMA SameRequest ==
  ASSUME NEW t \in Threads, \A u \in Threads \ {t} : th'[u] = th[u],
         th[t].pc # "idle", th'[t].pc # "idle", th'[t].sig = th[t].sig
  PROVE  Requests' = Requests
<1>1. Cache!Asking(t)' = {[by |-> t, key |-> th[t].sig]}
  BY RequestsStep
<1>2. Cache!Asking(t) = {[by |-> t, key |-> th[t].sig]}
  BY OfThread
<1>3. Cache!Asking(t) \subseteq Requests
  BY DEF Cache!Asking
<1>4. Requests' = (Requests \ Cache!Asking(t)) \cup Cache!Asking(t)'
  BY RequestsStep
<1> QED BY <1>1, <1>2, <1>3, <1>4

\* Nor does it change what the others have created.
LEMMA FreshStep ==
  ASSUME NEW t \in Threads, \A u \in Threads \ {t} : th'[u] = th[u]
  PROVE  /\ Fresh' = (Fresh \ Cache!Made(t)) \cup Cache!Made(t)'
         /\ Cache!Made(t)' = IF th'[t].pc = "put" THEN {[by |-> t, o |-> th'[t].c]} ELSE {}
<1>1. Cache!Made(t)' = IF th'[t].pc = "put" THEN {[by |-> t, o |-> th'[t].c]} ELSE {}
  BY DEF Cache!Made, Fresh
<1>2. ASSUME NEW r PROVE r \in Fresh' <=> r \in (Fresh \ Cache!Made(t)) \cup Cache!Made(t)'
  BY <1>1, OfThread DEF Fresh
<1> QED BY <1>1, <1>2

\* Looking up is asking.
LEMMA GetAsks ==
  ASSUME CacheInv, NEW t \in Threads, NEW s \in Signatures, NEW n \in FixedCounts,
         GetCallContext(t, s, n)
  PROVE  Cache!Ask(t)
<1> DEFINE l == IF contextCache[s] # None THEN At("deref", s, n, contextCache[s])
                                      ELSE At("cull", s, n, None)
<1>1. Goto(t, l) /\ UNCHANGED <<context, ref, held>> /\ th[t].pc = "idle"
  BY DEF GetCallContext
<1>2. l \in Local
  BY CacheAssumption, <1>1 DEF Local, At, PCs, CacheInv, TypeOK
<1>3. th'[t] = l /\ \A u \in Threads \ {t} : th'[u] = th[u]
  BY <1>1, <1>2, GotoStep DEF CacheInv
<1>4. th'[t].pc \in {"deref", "cull"} /\ th'[t].sig = s
  BY <1>3 DEF At
<1>5. Cache!Asking(t) = {} /\ Requests' = Requests \cup {[by |-> t, key |-> s]}
  BY <1>1, <1>3, <1>4, OfThread, RequestsStep
<1>6. Fresh' = Fresh
  <2>1. Cache!Made(t) = {} /\ Cache!Made(t)' = {}
    BY <1>1, <1>3, <1>4, OfThread, FreshStep
  <2> QED BY <1>3, <2>1, FreshStep
<1>7. Alive' = Alive
  BY <1>1 DEF Alive, Exists
<1>8. [by |-> t, key |-> s].by = t /\ [by |-> t, key |-> s] \in Requests'
  BY <1>5
<1> QED BY <1>1, <1>5, <1>6, <1>7, <1>8 DEF Cache!Ask

\* A context that is returned, found or made, is alive, of the signature asked
\* for, and made by no other thread that is still about to put it.
LEMMA ReturnAnswers ==
  ASSUME CacheInv, UnpublishedInv, NEW t \in Threads, th[t].pc \in {"deref", "put"},
         ref[th[t].c] = "live", Return(t, th[t].c), UNCHANGED <<context, ref>>
  PROVE  Cache!Answer(t, th[t].c)
<1> DEFINE c == th[t].c
<1>1. c \in Contexts /\ Exists(c) /\ context[c].sig = th[t].sig
  BY DEF CacheInv, ThreadInv
<1>2. Idle \in Local
  BY CacheAssumption DEF Local, Idle, At, PCs
<1>3. th'[t] = Idle /\ \A u \in Threads \ {t} : th'[u] = th[u]
  BY <1>2, GotoStep DEF Return, CacheInv
<1>4. th'[t].pc = "idle"
  BY <1>3 DEF Idle, At
<1>5. Requests' = Requests \ Cache!Asking(t) /\ Fresh' = Fresh \ Cache!Made(t)
  BY <1>3, <1>4, RequestsStep, FreshStep
<1>6. [by |-> t, key |-> th[t].sig] \in Cache!Asking(t)
  BY OfThread
<1>7. [o |-> c, key |-> [by |-> t, key |-> th[t].sig].key] \in Alive
  BY <1>1 DEF Alive
<1>8. ASSUME NEW f \in Fresh PROVE f.by = t <=> f.o = c
  BY DEF Fresh, UnpublishedInv
<1>9. Alive' = Alive
  BY DEF Alive, Exists
<1>10. held' = held \cup {c}
  BY DEF Return
<1> HIDE DEF c
<1>11. Cache!Answer(t, c)
  BY <1>5, <1>6, <1>7, <1>8, <1>9, <1>10 DEF Cache!Answer
<1> QED BY <1>11 DEF c

\* A step inside getCallContext that neither creates nor returns is a stutter.
LEMMA ThreadStutters ==
  ASSUME NEW t \in Threads, \A u \in Threads \ {t} : th'[u] = th[u],
         th[t].pc \notin {"idle", "put"}, th'[t].pc \notin {"idle", "put"},
         th'[t].sig = th[t].sig, Alive' = Alive, held' = held
  PROVE  UNCHANGED Cache!vars
<1>1. Requests' = Requests
  BY SameRequest
<1>2. Fresh' = Fresh
  BY OfThread, FreshStep
<1> QED BY <1>1, <1>2 DEF Cache!vars

\* References that are not live do not count: moving one along changes nothing.
LEMMA DeadStutters ==
  ASSUME UNCHANGED context, \A c \in Contexts : ref'[c] = "live" <=> ref[c] = "live"
  PROVE  Alive' = Alive
BY DEF Alive, Exists

LEMMA DerefRefines ==
  ASSUME CacheInv, UnpublishedInv, NEW t \in Threads, Deref(t)
  PROVE  [Cache!Next]_(Cache!vars)
<1>1. CASE ref[th[t].c] = "live"
  <2>1. Cache!Answer(t, th[t].c)
    BY <1>1, ReturnAnswers DEF Deref
  <2>2. th[t].c \in Contexts
    BY DEF Deref, CacheInv, ThreadInv
  <2> QED BY <2>1, <2>2 DEF Cache!Next
<1>2. CASE ref[th[t].c] # "live"
  <2> DEFINE l == At("cull", th[t].sig, th[t].fixed, None)
  <2>1. Goto(t, l) /\ UNCHANGED <<context, ref, held>> /\ th[t].pc = "deref"
    BY <1>2 DEF Deref
  <2>2. l \in Local
    BY DEF Local, At, PCs, CacheInv, TypeOK
  <2>3. th'[t] = l /\ \A u \in Threads \ {t} : th'[u] = th[u]
    BY <2>1, <2>2, GotoStep DEF CacheInv
  <2>4. th'[t].pc = "cull" /\ th'[t].sig = th[t].sig
    BY <2>3 DEF At
  <2>5. Alive' = Alive
    BY <2>1, DeadStutters
  <2> QED BY <2>1, <2>3, <2>4, <2>5, ThreadStutters
<1> QED BY <1>1, <1>2

LEMMA CullRefines ==
  ASSUME CacheInv, NEW t \in Threads, Cull(t) \/ Remove(t)
  PROVE  UNCHANGED Cache!vars
<1>1. PICK l \in Local : /\ Goto(t, l) /\ l.pc \in {"remove", "create", "cull"}
                         /\ l.sig = th[t].sig
  <2>1. th[t].sig \in Signatures \cup {None} /\ th[t].fixed \in FixedCounts \cup {None}
    BY DEF CacheInv, TypeOK
  <2>2. ASSUME NEW pc \in {"remove", "create", "cull"}, NEW c \in Contexts \cup {None}
        PROVE  /\ At(pc, th[t].sig, th[t].fixed, c) \in Local
               /\ At(pc, th[t].sig, th[t].fixed, c).pc = pc
               /\ At(pc, th[t].sig, th[t].fixed, c).sig = th[t].sig
    BY <2>1 DEF At, Local, PCs
  <2> HIDE DEF At
  <2> QED BY <2>2 DEF Cull, Remove
<1>2. th'[t] = l /\ \A u \in Threads \ {t} : th'[u] = th[u]
  BY <1>1, GotoStep DEF CacheInv
<1>3. Alive' = Alive
  BY DeadStutters DEF Cull, Remove, CacheInv, TypeOK
<1>4. th[t].pc \in {"cull", "remove"} /\ held' = held
  BY DEF Cull, Remove
<1> QED BY <1>1, <1>2, <1>3, <1>4, ThreadStutters

\* Creating makes a context that was not there.
LEMMA CreateMakes ==
  ASSUME CacheInv, NEW t \in Threads, Create(t)
  PROVE  \E c \in Contexts : Cache!Make(t, c)
<1> DEFINE f == [sig |-> th[t].sig, fixed |-> th[t].fixed, by |-> t]
<1>1. PICK c \in Contexts : /\ context[c] = None
                            /\ context' = [context EXCEPT ![c] = f]
                            /\ ref' = [ref EXCEPT ![c] = "live"]
                            /\ Goto(t, At("put", th[t].sig, th[t].fixed, c))
  BY DEF Create
<1> DEFINE l == At("put", th[t].sig, th[t].fixed, c)
<1>2. l \in Local
  BY DEF Local, At, PCs, CacheInv, TypeOK
<1>3. th'[t] = l /\ \A u \in Threads \ {t} : th'[u] = th[u]
  BY <1>1, <1>2, GotoStep DEF CacheInv
<1>4. th'[t].pc = "put" /\ th'[t].sig = th[t].sig /\ th'[t].c = c /\ th[t].pc = "create"
  BY <1>3 DEF At, Create
<1>5. Requests' = Requests
  BY <1>3, <1>4, SameRequest
<1>6. Cache!Made(t) = {} /\ Fresh' = Fresh \cup {[by |-> t, o |-> c]}
  BY <1>3, <1>4, OfThread, FreshStep
<1>7. [by |-> t, key |-> th[t].sig] \in Cache!Asking(t)
  BY <1>4, OfThread
<1>8. f \in Fields
  BY <1>4 DEF CacheInv, ThreadInv, Fields
<1>9. /\ Exists(c)' /\ ref'[c] = "live" /\ context'[c].sig = th[t].sig
      /\ \A d \in Contexts \ {c} : context'[d] = context[d] /\ ref'[d] = ref[d]
  BY CacheAssumption, <1>1, <1>8 DEF CacheInv, TypeOK, Exists
<1>10. Alive' = Alive \cup {[o |-> c, key |-> th[t].sig]}
  <2>1. ASSUME NEW a PROVE a \in Alive' <=> a \in Alive \cup {[o |-> c, key |-> th[t].sig]}
    BY <1>1, <1>9 DEF Alive, Exists
  <2> QED BY <2>1
<1>11. \A a \in Alive : a.o # c
  BY <1>1 DEF Alive, Exists
<1>12. held' = held
  BY DEF Create
<1>13. [by |-> t, key |-> th[t].sig].key = th[t].sig
  OBVIOUS
<1> HIDE DEF f, l
<1> QED BY <1>5, <1>6, <1>7, <1>10, <1>11, <1>12, <1>13 DEF Cache!Make

\* A constructor that throws ends the request.
LEMMA CreateFailsFails ==
  ASSUME CacheInv, NEW t \in Threads, CreateFails(t)
  PROVE  Cache!Fail(t)
<1>1. Idle \in Local
  BY CacheAssumption DEF Local, Idle, At, PCs
<1>2. th'[t] = Idle /\ \A u \in Threads \ {t} : th'[u] = th[u]
  BY <1>1, GotoStep DEF CreateFails, CacheInv
<1>3. th'[t].pc = "idle" /\ th[t].pc = "create"
  BY <1>2 DEF Idle, At, CreateFails
<1>4. Requests' = Requests \ Cache!Asking(t) /\ Cache!Asking(t) # {}
  BY <1>2, <1>3, OfThread, RequestsStep
<1>5. Cache!Made(t) = {} /\ Fresh' = Fresh
  BY <1>2, <1>3, OfThread, FreshStep
<1>6. Alive' = Alive /\ held' = held
  BY DEF Alive, Exists, CreateFails
<1> QED BY <1>4, <1>5, <1>6 DEF Cache!Fail

\* Forgetting, clearing and what follows leave requests alone.
LEMMA CollectRefines ==
  ASSUME CacheInv, NEW c \in Contexts, Drop(c) \/ Clear(c) \/ Enqueue(c) \/ Forget(c)
  PROVE  [Cache!Next]_(Cache!vars)
<1>1. Requests' = Requests /\ Fresh' = Fresh
  BY DEF Requests, Fresh, Drop, Clear, Enqueue, Forget
<1>2. CASE Drop(c)
  <2>1. Alive' = Alive
    BY <1>2 DEF Alive, Exists, Drop
  <2>2. Cache!Drop(c)
    BY <1>1, <1>2, <2>1 DEF Drop, Cache!Drop
  <2> QED BY <2>2 DEF Cache!Next
<1>3. CASE Clear(c)
  <2>1. /\ \A d \in Contexts \ {c} : ref'[d] = ref[d]
        /\ ref'[c] # "live" /\ context' = context /\ held' = held
    BY <1>3 DEF Clear, CacheInv, TypeOK
  <2>2. Alive' \subseteq Alive /\ \A a \in Alive \ Alive' : a.o = c
    BY <2>1 DEF Alive, Exists
  <2>3. c \notin held /\ \A f \in Fresh : f.o # c
    BY <1>3 DEF Clear, StronglyReachable, Fresh
  <2>4. Cache!Die
    BY <1>1, <2>1, <2>2, <2>3 DEF Cache!Die
  <2> QED BY <2>4 DEF Cache!Next
<1>4. CASE Enqueue(c)
  <2>1. Alive' = Alive
    BY <1>4, DeadStutters DEF Enqueue, CacheInv, TypeOK
  <2> QED BY <1>1, <1>4, <2>1 DEF Cache!vars, Enqueue
<1>5. CASE Forget(c)
  <2>1. /\ ref[c] = "done" /\ ref' = ref /\ held' = held
        /\ \A d \in Contexts \ {c} : context'[d] = context[d]
    BY <1>5 DEF Forget, CacheInv, TypeOK
  <2>2. ASSUME NEW a PROVE a \in Alive' <=> a \in Alive
    BY <2>1 DEF Alive, Exists
  <2> QED BY <1>1, <2>1, <2>2 DEF Cache!vars
<1> QED BY <1>2, <1>3, <1>4, <1>5

\* Every step of the cache is one of WeakCache or none.
LEMMA StepRefines == CacheInv /\ UnpublishedInv /\ [Next]_vars => [Cache!Next]_(Cache!vars)
<1> SUFFICES ASSUME CacheInv, UnpublishedInv, [Next]_vars PROVE [Cache!Next]_(Cache!vars)
  OBVIOUS
<1>1. CASE UNCHANGED vars
  BY <1>1 DEF vars, Cache!vars, Requests, Alive, Fresh, Exists
<1>2. ASSUME NEW t \in Threads, NEW s \in Signatures, NEW n \in FixedCounts,
             GetCallContext(t, s, n)
      PROVE  [Cache!Next]_(Cache!vars)
  BY <1>2, GetAsks DEF Cache!Next
<1>3. ASSUME NEW t \in Threads, Continue(t) PROVE [Cache!Next]_(Cache!vars)
  <2>1. CASE Deref(t)
    BY <2>1, DerefRefines
  <2>2. CASE Cull(t) \/ Remove(t)
    BY <2>2, CullRefines
  <2>3. CASE Create(t)
    BY <2>3, CreateMakes DEF Cache!Next
  <2>4. CASE CreateFails(t)
    BY <2>4, CreateFailsFails DEF Cache!Next
  <2>5. CASE Put(t)
    <3>1. th[t].c \in Contexts /\ ref[th[t].c] = "live"
      BY <2>5 DEF Put, CacheInv, ThreadInv
    <3>2. Cache!Answer(t, th[t].c)
      BY <2>5, <3>1, ReturnAnswers DEF Put
    <3> QED BY <3>1, <3>2 DEF Cache!Next
  <2> QED BY <1>3, <2>1, <2>2, <2>3, <2>4, <2>5 DEF Continue
<1>4. ASSUME NEW c \in Contexts, Drop(c) \/ Clear(c) \/ Enqueue(c) \/ Forget(c)
      PROVE  [Cache!Next]_(Cache!vars)
  BY <1>4, CollectRefines
<1> QED BY <1>1, <1>2, <1>3, <1>4 DEF Next

\* What a thread is about to put stays unknown to the others: a reference is
\* found through the map, where it is not yet, and created from nothing.
LEMMA UnpublishedNext == CacheInv /\ UnpublishedInv /\ [Next]_vars => UnpublishedInv'
<1> SUFFICES ASSUME CacheInv, UnpublishedInv, [Next]_vars PROVE UnpublishedInv'
  OBVIOUS
<1> DEFINE Same == th' = th
           Far(t) == \A u \in Threads \ {t} : th'[u] = th[u]
<1>1. CASE Same
  BY <1>1 DEF UnpublishedInv
<1>2. ASSUME NEW t \in Threads, Far(t), th'[t].pc \notin {"deref", "put"}
      PROVE  UnpublishedInv'
  BY <1>2 DEF UnpublishedInv
<1>3. ASSUME NEW t \in Threads, NEW s \in Signatures, NEW n \in FixedCounts,
             GetCallContext(t, s, n)
      PROVE  UnpublishedInv'
  <2> DEFINE l == IF contextCache[s] # None THEN At("deref", s, n, contextCache[s])
                                        ELSE At("cull", s, n, None)
  <2>1. Goto(t, l)
    BY <1>3 DEF GetCallContext
  <2>2. l \in Local
    BY CacheAssumption DEF Local, At, PCs, CacheInv, TypeOK
  <2>3. th'[t] = l /\ Far(t)
    BY <2>1, <2>2, GotoStep DEF CacheInv
  <2>4. th'[t].pc # "put" /\ (th'[t].pc = "deref" => th'[t].c = contextCache[s])
    BY <2>3 DEF At
  <2> QED BY <2>3, <2>4 DEF UnpublishedInv, CacheInv, ThreadInv
<1>4. ASSUME NEW t \in Threads, Create(t) PROVE UnpublishedInv'
  <2>1. PICK c \in Contexts : /\ context[c] = None
                              /\ Goto(t, At("put", th[t].sig, th[t].fixed, c))
    BY <1>4 DEF Create
  <2>2. At("put", th[t].sig, th[t].fixed, c) \in Local
    BY DEF Local, At, PCs, CacheInv, TypeOK
  <2>3. th'[t] = At("put", th[t].sig, th[t].fixed, c) /\ Far(t)
    BY <2>1, <2>2, GotoStep DEF CacheInv
  <2>4. th'[t].c = c
    BY <2>3 DEF At
  <2>5. \A u \in Threads : th[u].pc \in {"deref", "put"} => th[u].c # c
    BY <2>1 DEF CacheInv, ThreadInv, Exists
  <2> QED BY <2>3, <2>4, <2>5 DEF UnpublishedInv
<1>5. ASSUME NEW t \in Threads,
             Deref(t) \/ Cull(t) \/ Remove(t) \/ CreateFails(t) \/ Put(t)
      PROVE  UnpublishedInv'
  <2>1. PICK l \in Local : Goto(t, l) /\ l.pc \notin {"deref", "put"}
    <3>1. th[t].sig \in Signatures \cup {None} /\ th[t].fixed \in FixedCounts \cup {None}
      BY DEF CacheInv, TypeOK
    <3>2. ASSUME NEW pc \in {"remove", "create", "cull"}, NEW c \in Contexts \cup {None}
          PROVE  /\ At(pc, th[t].sig, th[t].fixed, c) \in Local
                 /\ At(pc, th[t].sig, th[t].fixed, c).pc \notin {"deref", "put"}
      BY <3>1 DEF At, Local, PCs
    <3>3. Idle \in Local /\ Idle.pc \notin {"deref", "put"}
      BY CacheAssumption DEF Idle, At, Local, PCs
    <3> HIDE DEF At, Idle
    <3> QED BY <1>5, <3>2, <3>3 DEF Deref, Cull, Remove, CreateFails, Put, Return
  <2>2. th'[t] = l /\ Far(t)
    BY <2>1, GotoStep DEF CacheInv
  <2>3. th'[t].pc \notin {"deref", "put"}
    BY <2>1, <2>2
  <2> HIDE DEF Far
  <2> QED BY <1>2, <2>2, <2>3
<1>6. ASSUME NEW c \in Contexts, Drop(c) \/ Clear(c) \/ Enqueue(c) \/ Forget(c)
      PROVE  Same
  BY <1>6 DEF Drop, Clear, Enqueue, Forget
<1>7. UNCHANGED vars => Same
  BY DEF vars
<1> HIDE DEF Same, Far
<1> QED BY <1>1, <1>3, <1>4, <1>5, <1>6, <1>7 DEF Next, Continue

\* getCallContext does what WeakCache says of a request, for any number of
\* threads, signatures and contexts: whatever the interleaving of lookups,
\* creations, puts, clearing and culling, a caller gets a context that is alive
\* and of the signature it asked for, and its own if it had to create one.
THEOREM CacheImplements == Spec => ImplementsWeakCache
<1>1. Init => Cache!Init
  BY DEF Init, Cache!Init, Requests, Alive, Fresh, Idle, At, Exists
<1>2. Init => UnpublishedInv
  BY DEF Init, UnpublishedInv, Idle, At
<1> QED BY <1>1, <1>2, CacheInvariance, UnpublishedNext, StepRefines, PTL
        DEF Spec, ImplementsWeakCache, Cache!Spec
=============================================================================
