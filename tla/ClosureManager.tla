---------------------------- MODULE ClosureManager ----------------------------
(***************************************************************************)
(* ClosureManager.java, which finds the pool of a call context, composed   *)
(* with the pools themselves and with the lifetimes of the contexts.  Of a *)
(* pool it takes what SlotAllocator says; which pool is asked, and how     *)
(* long pools and contexts live, is decided here.  A magazine has one slot.*)
(*                                                                         *)
(* The thunk of a MagazineHolder refers to the pool and to the magazine,   *)
(* so both stay while it is registered.  The thunks of a CallContext and   *)
(* of a Magazine refer to the object itself (pinned); without that the     *)
(* other references would have to keep the contexts.                       *)
(***************************************************************************)
EXTENDS Naturals

CONSTANTS Threads, Contexts, Signatures, Pools, Magazines, Closures, None

ASSUME ManagerAssumption == None \notin Contexts \cup Signatures \cup Pools \cup Magazines \cup Closures

VARIABLES
  pinned,     \* a CallContext is reachable from its own thunk
  outer,      \* a MagazineHolder is reachable from its own thunk
  sig,        \* CallContext -> its signature, None before it is created
  held,       \* the contexts that the application refers to
  collected,  \* the contexts that were collected, and freed natively
  poolMap,    \* signature -> [key, pool], the entry for equal contexts
  cleared,    \* pools whose SoftReference has been cleared
  context,    \* ClosurePool -> its callContext, None before it is created
  owner,      \* Magazine -> the pool it was made for
  holders,    \* magazines with a registered MagazineHolder
  keep,       \* slots with autorelease = FALSE
  th,         \* each thread's place in newClosure or dispose
  created, free, clients, target

slotVars == <<created, free, clients, target>>
vars == <<pinned, outer, sig, held, collected, poolMap, cleared, context, owner, holders, keep, th, slotVars>>

Slot(m) == <<m, 1>>
S == INSTANCE SlotAllocator WITH SlotIdx <- {1}

Idle == [pc |-> "idle", context |-> None, pool |-> None, slot |-> None]
NoEntry == [key |-> None, pool |-> None]
At(t, pc) == th[t].pc = pc
Exists(p) == context[p] # None
SigOf(p) == sig[context[p]]
SlotsOf(p) == {Slot(m) : m \in {n \in Magazines : owner[n] = p}}

\* A Handle keeps its pool, through its holder; a thunk keeps its captures.
PoolReachable(p) ==
  \/ \E t \in Threads : th[t].pool = p
  \/ \E m \in holders : owner[m] = p
  \/ SlotsOf(p) \cap clients # {}

\* Mutant of ContextReachable: a Proxy has no reference to the context.
ContextReachableNoProxy(c) ==
  \/ pinned /\ sig[c] # None
  \/ c \in held \/ \E t \in Threads : th[t].context = c
  \/ \E p \in Pools : context[p] = c /\
       (PoolReachable(p) \/ (p \notin cleared /\ poolMap[sig[c]].pool = p))

\* A context is kept by whoever uses it, by its pool for as long as that can
\* be found, and by the Proxies, to which native magazines have global
\* references.
ContextReachable(c) ==
  \/ pinned /\ sig[c] # None
  \/ c \in held \/ \E t \in Threads : th[t].context = c
  \/ \E p \in Pools : context[p] = c /\
       \/ PoolReachable(p)
       \/ p \notin cleared /\ poolMap[sig[c]].pool = p
       \/ SlotsOf(p) # {}

(* ---- The application and newClosure ----------------------------------- *)

\* The application makes a context, or gets it from the CallContextCache,
\* which may give it several equal ones.
ObtainContext(c, s) ==
  /\ c \notin held \cup collected
  /\ sig[c] \in {None, s}
  /\ sig' = [sig EXCEPT ![c] = s]
  /\ held' = held \cup {c}
  /\ UNCHANGED <<pinned, outer, collected, poolMap, cleared, context, owner, holders, keep, th, slotVars>>

ForgetContext(c) ==
  /\ held' = held \ {c} /\ c \in held
  /\ UNCHANGED <<pinned, outer, sig, collected, poolMap, cleared, context, owner, holders, keep, th, slotVars>>

NewClosure(t, c) ==
  /\ At(t, "idle") /\ c \in held
  /\ th' = [th EXCEPT ![t] = [pc |-> "pool", context |-> c, pool |-> None, slot |-> None]]
  /\ UNCHANGED <<pinned, outer, sig, held, collected, poolMap, cleared, context, owner, holders, keep, slotVars>>

\* Mutant of GetClosurePool: what the map has is not looked at.
GetClosurePoolAnew(t) ==
  LET c == th[t].context
      e == poolMap[sig[c]]
  IN
  /\ At(t, "pool")
  /\ \E p \in Pools :
       /\ ~Exists(p)
       /\ context' = [context EXCEPT ![p] = c]
       /\ poolMap' = [poolMap EXCEPT ![sig[c]] = [key |-> c, pool |-> p]]
       /\ th' = [th EXCEPT ![t] = [pc |-> "handle", context |-> None, pool |-> p, slot |-> None]]
  /\ UNCHANGED <<pinned, outer, sig, held, collected, cleared, owner, holders, keep, slotVars>>

\* getClosurePool, in the manager's monitor.  Putting a pool under a context
\* that equals a key of the map leaves the key that is there.
GetClosurePool(t) ==
  LET c == th[t].context
      e == poolMap[sig[c]]
      found == e.pool # None /\ e.pool \notin cleared
  IN
  /\ At(t, "pool")
  /\ \E p \in Pools :
       /\ IF found THEN p = e.pool ELSE ~Exists(p)
       /\ context' = IF found THEN context ELSE [context EXCEPT ![p] = c]
       /\ poolMap' = [poolMap EXCEPT ![sig[c]] =
                        [key |-> IF e.key = None THEN c ELSE e.key, pool |-> p]]
       /\ th' = [th EXCEPT ![t] = [pc |-> "handle", context |-> None, pool |-> p, slot |-> None]]
  /\ UNCHANGED <<pinned, outer, sig, held, collected, cleared, owner, holders, keep, slotVars>>

\* newClosureHandle takes a Handle from a queue of the pool, ...
TakeHandle(t, x) ==
  /\ At(t, "handle")
  /\ \E s \in SlotsOf(th[t].pool) : S!Acquire(s, x)
  /\ th' = [th EXCEPT ![t] = Idle]
  /\ UNCHANGED <<pinned, outer, sig, held, collected, poolMap, cleared, context, owner, holders, keep>>

\* ... or makes a magazine first, ...
NewMagazine(t, m) ==
  /\ At(t, "handle")
  /\ SlotsOf(th[t].pool) \cap free = {}
  /\ S!Grow(m)
  /\ owner' = [owner EXCEPT ![m] = th[t].pool]
  /\ holders' = holders \cup {m}
  /\ UNCHANGED <<pinned, outer, sig, held, collected, poolMap, cleared, context, keep, th>>

\* ... which may fail.
NewMagazineFails(t) ==
  /\ At(t, "handle")
  /\ SlotsOf(th[t].pool) \cap free = {}
  /\ th' = [th EXCEPT ![t] = Idle]
  /\ UNCHANGED <<pinned, outer, sig, held, collected, poolMap, cleared, context, owner, holders, keep, slotVars>>

(* ---- Handles ---------------------------------------------------------- *)

SetAutoRelease(s) ==
  /\ s \in clients
  /\ keep' = keep \cup {s}
  /\ UNCHANGED <<pinned, outer, sig, held, collected, poolMap, cleared, context, owner, holders, th, slotVars>>

Dispose(t, s) ==
  /\ At(t, "idle")
  /\ S!GiveUp(s)
  /\ keep' = keep \ {s}
  /\ th' = [th EXCEPT ![t] = [pc |-> "requeue", context |-> None, pool |-> owner[s[1]], slot |-> s]]
  /\ UNCHANGED <<pinned, outer, sig, held, collected, poolMap, cleared, context, owner, holders>>

Requeue(t) ==
  /\ At(t, "requeue")
  /\ S!TakeBack({th[t].slot})
  /\ th' = [th EXCEPT ![t] = Idle]
  /\ UNCHANGED <<pinned, outer, sig, held, collected, poolMap, cleared, context, owner, holders, keep>>

ForgetHandle(s) ==
  /\ S!GiveUp(s)
  /\ UNCHANGED <<pinned, outer, sig, held, collected, poolMap, cleared, context, owner, holders, keep, th>>

(* ---- The collector and the Cleaner ------------------------------------ *)

\* The thunk of an unreachable holder: recycle takes the slot back, or gives
\* the magazine up if it is to be kept.
Recycle(m) ==
  /\ ~outer /\ m \in holders
  /\ Slot(m) \notin free \cup clients /\ \A t \in Threads : th[t].slot # Slot(m)
  /\ \/ Slot(m) \notin keep /\ S!TakeBack({Slot(m)}) /\ UNCHANGED holders
     \/ Slot(m) \in keep /\ holders' = holders \ {m} /\ UNCHANGED slotVars
  /\ UNCHANGED <<pinned, outer, sig, held, collected, poolMap, cleared, context, owner, keep, th>>

ClearPool(p) ==
  /\ Exists(p) /\ p \notin cleared /\ ~PoolReachable(p)
  /\ cleared' = cleared \cup {p}
  /\ UNCHANGED <<pinned, outer, sig, held, collected, poolMap, context, owner, holders, keep, th, slotVars>>

\* The weak key goes with its context, and the entry with the key.
CollectContext(c) ==
  /\ sig[c] # None /\ c \notin collected /\ ~ContextReachable(c)
  /\ collected' = collected \cup {c}
  /\ poolMap' = [s \in Signatures |-> IF poolMap[s].key = c THEN NoEntry ELSE poolMap[s]]
  /\ UNCHANGED <<pinned, outer, sig, held, cleared, context, owner, holders, keep, th, slotVars>>

Init ==
  /\ pinned \in BOOLEAN /\ outer \in BOOLEAN
  /\ sig = [c \in Contexts |-> None] /\ held = {} /\ collected = {}
  /\ poolMap = [s \in Signatures |-> NoEntry]
  /\ cleared = {} /\ context = [p \in Pools |-> None]
  /\ owner = [m \in Magazines |-> None] /\ holders = {} /\ keep = {}
  /\ th = [t \in Threads |-> Idle]
  /\ S!Init

ThreadStep(t) ==
  GetClosurePool(t) \/ Requeue(t) \/ NewMagazineFails(t)
    \/ (\E x \in Closures : TakeHandle(t, x)) \/ (\E m \in Magazines : NewMagazine(t, m))

Next ==
  \/ \E c \in Contexts : ForgetContext(c) \/ CollectContext(c) \/ \E s \in Signatures : ObtainContext(c, s)
  \/ \E t \in Threads : ThreadStep(t) \/ (\E c \in Contexts : NewClosure(t, c))
                          \/ \E s \in S!Slots : Dispose(t, s)
  \/ \E s \in S!Slots : SetAutoRelease(s) \/ ForgetHandle(s)
  \/ \E m \in Magazines : Recycle(m)
  \/ \E p \in Pools : ClearPool(p)

Spec == Init /\ [][Next]_vars

\* The scheduler goes on with a thread, and under memory pressure the
\* collector clears, collects and cleans what it may.
FairSpec ==
  /\ Spec
  /\ \A t \in Threads : WF_vars(ThreadStep(t))
  /\ \A m \in Magazines : WF_vars(Recycle(m))
  /\ \A p \in Pools : WF_vars(ClearPool(p))
  /\ \A c \in Contexts : WF_vars(CollectContext(c))

(* ---- Properties ------------------------------------------------------- *)

TypeOK ==
  /\ sig \in [Contexts -> Signatures \cup {None}]
  /\ held \in SUBSET Contexts /\ collected \in SUBSET Contexts
  /\ poolMap \in [Signatures -> [key : Contexts \cup {None}, pool : Pools \cup {None}]]
  /\ cleared \in SUBSET Pools /\ holders \in SUBSET Magazines /\ keep \in SUBSET S!Slots
  /\ context \in [Pools -> Contexts \cup {None}] /\ owner \in [Magazines -> Pools \cup {None}]
  /\ th \in [Threads -> [pc : {"idle", "pool", "handle", "requeue"}, context : Contexts \cup {None},
                         pool : Pools \cup {None}, slot : S!Slots \cup {None}]]
  /\ pinned \in BOOLEAN /\ outer \in BOOLEAN

InUse(p) == (\E t \in Threads : th[t].pool = p) \/ SlotsOf(p) \cap (free \cup clients) # {}

\* A pool that a thread works with, that has Handles in use or free slots, is
\* the one getClosurePool finds for its signature, whatever was cleared and
\* however many equal contexts there are: no free slot is stranded in a pool
\* that nobody will ask again.
PoolInUseIsFound ==
  pinned => \A p \in Pools : Exists(p) /\ InUse(p) =>
    poolMap[SigOf(p)].pool = p /\ p \notin cleared

\* A trampoline that C may call, because its Handle is in use or it was told
\* not to release it, has a native context that was not freed, even if the
\* context's own thunk did not keep it.
TrampolineValid ==
  \A m \in Magazines : Slot(m) \in clients \cup keep => context[owner[m]] \notin collected

\* When all closures of a pool have been reclaimed and there is memory
\* pressure, the pool goes and lets its context go: so ClosureManager.java
\* says.  The thunks of the pool's holders do not let it.
PoolReclaimed ==
  \A p \in Pools :
    <>[](/\ Exists(p)
         /\ \A t \in Threads : th[t].pool # p
         /\ SlotsOf(p) \cap (clients \cup keep) = {})
      => <>(p \in cleared)

(* The inductive invariant behind both. *)

\* A pool that ClearPool leaves alone, as long as the thunks capture it.
Used(p) == (\E t \in Threads : th[t].pool = p) \/ (\E m \in holders : owner[m] = p)
Found(p) == poolMap[SigOf(p)].pool = p /\ p \notin cleared
Alive(c) == sig[c] # None /\ c \notin collected

ThreadOK(t) ==
  /\ At(t, "pool") => th[t].context # None
  /\ At(t, "handle") => th[t].pool # None
  /\ At(t, "requeue") => th[t].slot \in S!Slots /\ th[t].slot[1] \in holders
  /\ th[t].context # None => Alive(th[t].context)
  /\ th[t].pool # None => Exists(th[t].pool) /\ Alive(context[th[t].pool])

PoolsOK ==
  /\ \A p \in cleared : Exists(p)
  /\ \A p \in Pools : Exists(p) => sig[context[p]] # None
  /\ \A s \in Signatures : LET p == poolMap[s].pool IN
       p # None => Exists(p) /\ SigOf(p) = s /\ (p \notin cleared => Alive(context[p]))

MagazineOK(m) ==
  /\ owner[m] # None => Exists(owner[m]) /\ Alive(context[owner[m]])
  /\ m \in holders \/ Slot(m) \in keep => owner[m] # None
  /\ Slot(m) \in free \cup clients => m \in holders

HeldOK == \A c \in held : Alive(c)
FoundOK == pinned => collected = {} /\ \A p \in Pools : Exists(p) /\ Used(p) => Found(p)

ManagerInv ==
  /\ TypeOK /\ PoolsOK /\ HeldOK /\ FoundOK
  /\ \A t \in Threads : ThreadOK(t)
  /\ \A m \in Magazines : MagazineOK(m)
=============================================================================
