------------------------------- MODULE ClosurePool -------------------------------
(***************************************************************************)
(* The pool of native closures of one call context (ClosurePool.java).     *)
(*                                                                         *)
(* Native closures come in magazines of N slots.  The pool hands a slot to *)
(* the application wrapped in a Handle; the slot comes back when the       *)
(* Handle is disposed, or when the garbage collector finds that nobody can *)
(* reach any Handle of the magazine any more: all Handles of a magazine    *)
(* share one MagazineHolder, and the Cleaner recycles the magazine once    *)
(* that holder is unreachable.  A slot whose autorelease flag is FALSE is  *)
(* skipped by the recycling: native code may still call it.                *)
(*                                                                         *)
(* Nothing but Handle.dispose and ClosurePool.recycle takes a lock: the    *)
(* queues are ConcurrentLinkedQueues and the slot fields are volatile, so  *)
(* every access to one of them is a step of its own.  The order of a queue *)
(* is abstracted (a queue is the set of its Handles, poll takes any one):  *)
(* no property depends on which free slot is handed out.                   *)
(***************************************************************************)
EXTENDS Integers, FiniteSets, Functions

CONSTANTS
  Threads,        \* application threads
  Magazines,      \* Magazine objects; bounds how many are ever created
  N,              \* slots of a magazine: what one native page holds
  Handles,        \* Handle objects; the identity of a collected one is reused
  Holders,        \* MagazineHolder objects; reused likewise
  Closures,       \* the application's Closure instances
  None,           \* null
  MaxStale,       \* bound: disposed Handles the application still refers to
  SharedHandles,  \* may two threads use one Handle at the same time?
  OuterThis       \* does the anonymous Cleaner thunk keep this$0 (javac < 18)?

SlotIdx == 1 .. N
Slots   == Magazines \X SlotIdx

HandleFields == [slot : Slots, holder : Holders, disposed : BOOLEAN]

ASSUME ClosurePoolAssumption ==
  /\ N \in Nat \ {0}
  /\ None \notin Magazines \cup Handles \cup HandleFields \cup Closures
  /\ SharedHandles \in BOOLEAN
  /\ OuterThis \in BOOLEAN

VARIABLES
  partialQueue, freeQueue,  \* the two queues of ClosurePool, as sets
  magazines,                \* ClosurePool.magazines
  mag,                      \* next, freeCount of every Magazine
  created,                  \* the Magazine objects constructed so far
  autorelease, closure,     \* fields of every Slot (closure: of its Proxy)
  handle,                   \* fields of every Handle, None when unreachable
  holderOf,                 \* the magazine of every registered MagazineHolder
  held,                     \* Handles the application can reach
  want,                     \* history: the closure a Handle was created for
  th                        \* program counter and locals of every thread

slotVars == <<autorelease, closure>>
poolVars == <<partialQueue, freeQueue, magazines>>
gcVars   == <<handle, holderOf, mag, created>>
vars == <<partialQueue, freeQueue, magazines, mag, created, autorelease, closure,
          handle, holderOf, held, want, th>>

\* NULL_CLOSURE: the do-nothing closure of an idle slot.
NullClosure == None

PCs == {"idle", "pollFree", "allocPartial", "allocFree", "newMagazine", "addMagazine",
        "install", "setAutoRelease", "resetSlot", "requeue"}

\* Where a thread is, and its locals: the Handle it works on, the magazine
\* it created, the closure to install and the flag to write.
At(pc, h, m, c, v) == [pc |-> pc, h |-> h, m |-> m, c |-> c, v |-> v]

Idle == At("idle", None, None, None, TRUE)

TypeOK ==
  /\ partialQueue \subseteq Handles
  /\ freeQueue \subseteq Handles
  /\ magazines \subseteq Magazines
  /\ created \subseteq Magazines
  /\ mag \in [Magazines -> [next : 0 .. N, freeCount : Nat]]
  /\ autorelease \in [Slots -> BOOLEAN]
  /\ closure \in [Slots -> Closures \cup {NullClosure}]
  /\ handle \in [Handles -> HandleFields \cup {None}]
  /\ holderOf \in [Holders -> Magazines \cup {None}]
  /\ held \subseteq Handles
  /\ want \in [Handles -> Closures \cup {None}]
  /\ th \in [Threads -> [pc : PCs, h : Handles \cup {None}, m : Magazines \cup {None},
                         c : Closures \cup {None}, v : BOOLEAN]]

(***************************************************************************)
(* Reachability.  A Handle is kept alive by a queue, by the application or *)
(* by a thread that runs one of its methods; a holder by its Handles.      *)
(***************************************************************************)
Queued == partialQueue \cup freeQueue

InUse(h) == \E t \in Threads : th[t].h = h

Reachable(h) == handle[h] # None

\* Mutant of HolderUnreachable: a queued Handle does not refer to the holder.
HolderNotHeld(ho) ==
  /\ ~OuterThis
  /\ \A h \in held : handle[h].holder # ho

HolderUnreachable(ho) ==
  /\ ~OuterThis
  /\ \A h \in Handles : Reachable(h) => handle[h].holder # ho

Goto(t, l) == th' = [th EXCEPT ![t] = l]

(***************************************************************************)
(* Magazine                                                                *)
(***************************************************************************)
\* The slots that repeated calls of Magazine.get() return for fields g of m:
\* autorelease slots from next on, as many as freeCount allows.
Get(m, g, ar) ==
  {s \in {m} \X (g.next + 1 .. N) :
     /\ ar[s]
     /\ Cardinality({i \in g.next + 1 .. s[2] : ar[<<m, i>>]}) <= g.freeCount}

\* The fields of m once get() has returned null.  With freeCount at 0 the
\* position of next no longer matters; otherwise the loop ran to the end.
Drained(m, g, ar) ==
  [next |-> N, freeCount |-> g.freeCount - Cardinality(Get(m, g, ar))]

IsFull(g)  == g.freeCount = N
\* Mutant of IsEmpty: off by one.
IsNearlyEmpty(g) == g.freeCount <= 1

IsEmpty(g) == g.freeCount < 1

\* Mutant of Recycled: next is not reset.
RecycledAtNext(m) ==
  [next |-> mag[m].next,
   freeCount |-> mag[m].freeCount
                   + Cardinality({i \in SlotIdx : autorelease[<<m, i>>]})]

\* The fields of m after Magazine.recycle().
Recycled(m) ==
  [next |-> 0,
   freeCount |-> mag[m].freeCount
                   + Cardinality({i \in SlotIdx : autorelease[<<m, i>>]})]

\* Handles fresh, one for each slot of f, for magazine m under holder ho.
NewHandles(fresh, f, ho) ==
  [h \in Handles |-> IF h \in fresh
                     THEN [slot |-> f[h], holder |-> ho, disposed |-> FALSE]
                     ELSE handle[h]]

\* Publish the Handles of a magazine with fields g all at once (addAll).
Publish(g, fresh) ==
  IF IsFull(g)
  THEN freeQueue' = freeQueue \cup fresh /\ UNCHANGED partialQueue
  ELSE partialQueue' = partialQueue \cup fresh /\ UNCHANGED freeQueue

\* ClosurePool.useMagazine for a magazine m with fields g: a new holder and
\* one new Handle per available slot.  hs are the holders' magazines on entry.
UseMagazine(m, g, hs) ==
  \E ho \in {x \in Holders : hs[x] = None},
     fresh \in SUBSET {h \in Handles : ~Reachable(h)} :
    \E f \in Bijection(fresh, Get(m, g, autorelease)) :
      /\ holderOf' = [hs EXCEPT ![ho] = m]
      /\ handle' = NewHandles(fresh, f, ho)
      /\ mag' = [mag EXCEPT ![m] = Drained(m, g, autorelease)]
      /\ Publish(g, fresh)

(***************************************************************************)
(* newClosureHandle                                                        *)
(***************************************************************************)
\* poll() of the queue q: take any Handle of it, or go on at miss when it is
\* empty.  rest is q's next value.
Poll(t, q, rest, miss) ==
  \/ /\ q # {}
     /\ \E h \in q : /\ rest = q \ {h}
                     /\ Goto(t, At("install", h, None, th[t].c, TRUE))
  \/ /\ q = {}
     /\ rest = q
     /\ Goto(t, At(miss, None, None, th[t].c, TRUE))

NewClosureHandle(t, c) ==
  /\ th[t].pc = "idle"
  /\ \/ \E h \in partialQueue :
          /\ partialQueue' = partialQueue \ {h}
          /\ Goto(t, At("install", h, None, c, TRUE))
     \/ /\ partialQueue = {}
        /\ Goto(t, At("pollFree", None, None, c, TRUE))
        /\ UNCHANGED partialQueue
  /\ UNCHANGED <<freeQueue, magazines, gcVars, slotVars, held, want>>

PollFree(t) ==
  /\ th[t].pc = "pollFree"
  /\ Poll(t, freeQueue, freeQueue', "allocPartial")
  /\ UNCHANGED <<partialQueue, magazines, gcVars, slotVars, held, want>>

\* The loop condition of allocateNewHandle polls both queues again.
AllocPollPartial(t) ==
  /\ th[t].pc = "allocPartial"
  /\ Poll(t, partialQueue, partialQueue', "allocFree")
  /\ UNCHANGED <<freeQueue, magazines, gcVars, slotVars, held, want>>

AllocPollFree(t) ==
  /\ th[t].pc = "allocFree"
  /\ Poll(t, freeQueue, freeQueue', "newMagazine")
  /\ UNCHANGED <<partialQueue, magazines, gcVars, slotVars, held, want>>

\* new Magazine(callContext) followed by useMagazine(m).  Up to the addAll
\* of the Handles the magazine is known to this thread alone.
NewMagazine(t) ==
  /\ th[t].pc = "newMagazine"
  /\ \E m \in Magazines \ created :
       /\ created' = created \cup {m}
       /\ UseMagazine(m, [next |-> 0, freeCount |-> N], holderOf)
       /\ Goto(t, At("addMagazine", None, m, th[t].c, TRUE))
  /\ UNCHANGED <<magazines, slotVars, held, want>>

\* foreign.newClosureMagazine throws (no page, no memory): so does the call.
NewMagazineFails(t) ==
  /\ th[t].pc = "newMagazine"
  /\ Goto(t, Idle)
  /\ UNCHANGED <<poolVars, gcVars, slotVars, held, want>>

\* magazines.add(m), only after the Handles of m were published.
AddMagazine(t) ==
  /\ th[t].pc = "addMagazine"
  /\ magazines' = magazines \cup {th[t].m}
  /\ Goto(t, At("allocPartial", None, None, th[t].c, TRUE))
  /\ UNCHANGED <<partialQueue, freeQueue, gcVars, slotVars, held, want>>

\* h.slot.proxy.closure = closure; return h.
Install(t) ==
  LET h == th[t].h IN
  /\ th[t].pc = "install"
  /\ closure' = [closure EXCEPT ![handle[h].slot] = th[t].c]
  /\ want' = [want EXCEPT ![h] = th[t].c]
  /\ held' = held \cup {h}
  /\ Goto(t, Idle)
  /\ UNCHANGED <<poolVars, gcVars, autorelease>>

(***************************************************************************)
(* Handle                                                                  *)
(***************************************************************************)
\* Thread t calls a method of h.
Calls(t, h) ==
  /\ th[t].pc = "idle"
  /\ h \in held
  /\ SharedHandles \/ ~InUse(h)

\* setAutoRelease(v): the test of disposed, and the write it guards, are two
\* steps, and no lock is held across them.
SetAutoRelease(t, h, v) ==
  /\ Calls(t, h)
  /\ ~handle[h].disposed
  /\ Goto(t, At("setAutoRelease", h, None, None, v))
  /\ UNCHANGED <<poolVars, gcVars, slotVars, held, want>>

SetAutoReleaseWrite(t) ==
  /\ th[t].pc = "setAutoRelease"
  /\ autorelease' = [autorelease EXCEPT ![handle[th[t].h].slot] = th[t].v]
  /\ Goto(t, Idle)
  /\ UNCHANGED <<poolVars, gcVars, closure, held, want>>

\* Handles disposed of but not forgotten: methods called on them do nothing.
Stale == {h \in Handles : Reachable(h) /\ handle[h].disposed}

\* Mutant of Dispose: the disposed flag is not tested.
DisposeAgain(t, h) ==
  /\ Calls(t, h)
  /\ \A u \in Threads : th[u].h = h => th[u].pc \notin {"resetSlot", "requeue"}
  /\ Cardinality(Stale \ {h}) < MaxStale
  /\ handle' = [handle EXCEPT ![h] = [slot |-> handle[h].slot,
                                      holder |-> handle[h].holder, disposed |-> TRUE]]
  /\ Goto(t, At("resetSlot", h, None, None, TRUE))
  /\ UNCHANGED <<poolVars, holderOf, mag, created, slotVars, held, want>>

\* dispose() and free(), under the monitor of the Handle: a second caller
\* enters only after the first has left, finds disposed set and returns.
Dispose(t, h) ==
  /\ Calls(t, h)
  /\ \A u \in Threads : th[u].h = h => th[u].pc \notin {"resetSlot", "requeue"}
  /\ ~handle[h].disposed
  /\ Cardinality(Stale) < MaxStale
  /\ handle' = [handle EXCEPT ![h] = [slot |-> handle[h].slot,
                                      holder |-> handle[h].holder, disposed |-> TRUE]]
  /\ Goto(t, At("resetSlot", h, None, None, TRUE))
  /\ UNCHANGED <<poolVars, holderOf, mag, created, slotVars, held, want>>

\* Mutant of DisposeResetSlot: autorelease keeps the value of the former owner.
DisposeClearClosure(t) ==
  LET s == handle[th[t].h].slot IN
  /\ th[t].pc = "resetSlot"
  /\ closure' = [closure EXCEPT ![s] = NullClosure]
  /\ Goto(t, At("requeue", th[t].h, None, None, TRUE))
  /\ UNCHANGED <<poolVars, gcVars, held, want, autorelease>>

DisposeResetSlot(t) ==
  LET s == handle[th[t].h].slot IN
  /\ th[t].pc = "resetSlot"
  /\ autorelease' = [autorelease EXCEPT ![s] = TRUE]
  /\ closure' = [closure EXCEPT ![s] = NullClosure]
  /\ Goto(t, At("requeue", th[t].h, None, None, TRUE))
  /\ UNCHANGED <<poolVars, gcVars, held, want>>

\* Mutant of DisposeRequeue: dispose forgets to give the slot back.
DisposeReturn(t) ==
  /\ th[t].pc = "requeue"
  /\ Goto(t, Idle)
  /\ UNCHANGED <<poolVars, gcVars, slotVars, held, want>>

\* holder.pool.recycle(slot, holder): a new Handle for the same slot.
DisposeRequeue(t) ==
  LET old == handle[th[t].h] IN
  /\ th[t].pc = "requeue"
  /\ \E h \in {x \in Handles : ~Reachable(x)} :
       /\ handle' = [handle EXCEPT ![h] = [slot |-> old.slot, holder |-> old.holder,
                                           disposed |-> FALSE]]
       /\ partialQueue' = partialQueue \cup {h}
  /\ Goto(t, Idle)
  /\ UNCHANGED <<freeQueue, magazines, holderOf, mag, created, slotVars, held, want>>

\* The application forgets a Handle that none of its threads is using.
Drop(h) ==
  /\ h \in held
  /\ ~InUse(h)
  /\ held' = held \ {h}
  /\ handle' = [handle EXCEPT ![h] = None]
  /\ want' = [want EXCEPT ![h] = None]
  /\ UNCHANGED <<poolVars, holderOf, mag, created, slotVars, th>>

(***************************************************************************)
(* The Cleaner runs MagazineHolder's thunk: pool.recycle(magazine).  The   *)
(* call touches shared state once (the addAll or the remove); the fields   *)
(* of the magazine are out of every other thread's reach.                  *)
(***************************************************************************)
\* Mutant of ClearedClosures: the autorelease flag is not tested.
ClearedAll(m) == [s \in Slots |-> IF s[1] = m THEN NullClosure ELSE closure[s]]

ClearedClosures(m) ==
  [s \in Slots |-> IF s[1] = m /\ autorelease[s] THEN NullClosure ELSE closure[s]]

Recycle(ho) ==
  LET m == holderOf[ho]
      g == Recycled(m)
      hs == [holderOf EXCEPT ![ho] = None]
  IN
  /\ m # None
  /\ HolderUnreachable(ho)
  /\ closure' = ClearedClosures(m)
  /\ IF ~IsEmpty(g)
     THEN UseMagazine(m, g, hs) /\ UNCHANGED magazines
     ELSE /\ magazines' = magazines \ {m}
          /\ holderOf' = hs
          /\ mag' = [mag EXCEPT ![m] = g]
          /\ UNCHANGED <<handle, partialQueue, freeQueue>>
  /\ UNCHANGED <<created, autorelease, held, want, th>>

Init ==
  /\ partialQueue = {} /\ freeQueue = {} /\ magazines = {} /\ created = {}
  /\ mag = [m \in Magazines |-> [next |-> 0, freeCount |-> N]]
  /\ autorelease = [s \in Slots |-> TRUE]
  /\ closure = [s \in Slots |-> NullClosure]
  /\ handle = [h \in Handles |-> None]
  /\ holderOf = [ho \in Holders |-> None]
  /\ held = {}
  /\ want = [h \in Handles |-> None]
  /\ th = [t \in Threads |-> Idle]

ThreadStep(t) ==
  \/ \E c \in Closures : NewClosureHandle(t, c)
  \/ PollFree(t) \/ AllocPollPartial(t) \/ AllocPollFree(t)
  \/ NewMagazine(t) \/ NewMagazineFails(t) \/ AddMagazine(t) \/ Install(t)
  \/ \E h \in Handles, v \in BOOLEAN : SetAutoRelease(t, h, v)
  \/ SetAutoReleaseWrite(t)
  \/ \E h \in Handles : Dispose(t, h)
  \/ DisposeResetSlot(t) \/ DisposeRequeue(t)

Next ==
  \/ \E t \in Threads : ThreadStep(t)
  \/ \E h \in Handles : Drop(h)
  \/ \E ho \in Holders : Recycle(ho)

Spec == Init /\ [][Next]_vars

\* A thread that is inside a method of the pool or of a Handle goes on with it.
Continue(t) ==
  \/ PollFree(t) \/ AllocPollPartial(t) \/ AllocPollFree(t)
  \/ NewMagazine(t) \/ NewMagazineFails(t) \/ AddMagazine(t) \/ Install(t)
  \/ SetAutoReleaseWrite(t) \/ DisposeResetSlot(t) \/ DisposeRequeue(t)

\* Fairness: the JVM schedules a running thread, and the Cleaner eventually
\* runs the thunk of an unreachable holder.  Nothing forces the application
\* to call the pool or to forget a Handle.
FairSpec ==
  /\ Spec
  /\ \A t \in Threads : WF_vars(Continue(t))
  /\ \A ho \in Holders : WF_vars(Recycle(ho))

----------------------------------------------------------------------------
(***************************************************************************)
(* Properties                                                              *)
(***************************************************************************)
\* A Handle owns its slot from the poll that took it off a queue until the
\* Handle is disposed of and a new one for the slot is queued.
Owns(h) ==
  /\ Reachable(h)
  /\ \/ h \in Queued
     \/ ~handle[h].disposed
     \/ \E t \in Threads : th[t].h = h /\ th[t].pc \in {"resetSlot", "requeue"}

\* No slot is ever owned by two Handles, whatever the interleaving of
\* newClosureHandle, dispose and the Cleaner's recycle: a native closure is
\* never handed out twice.
SlotExclusive ==
  \A h1, h2 \in Handles :
    Owns(h1) /\ Owns(h2) /\ handle[h1].slot = handle[h2].slot => h1 = h2

\* As long as the application holds a Handle it has not disposed of, native
\* code that calls the slot reaches the closure the Handle was created for:
\* neither a recycle nor another thread's dispose has replaced it.
CallReachesClosure ==
  \A h \in held : ~handle[h].disposed => closure[handle[h].slot] = want[h]

\* A Handle waiting in a queue stands for a slot in its initial state:
\* autorelease set and no closure installed, so what newClosureHandle returns
\* does not depend on the slot's former owner.
QueuedSlotIsFresh ==
  \A h \in Queued : LET s == handle[h].slot IN autorelease[s] /\ closure[s] = NullClosure

\* useMagazine drains a magazine completely, so freeCount is 0 while its
\* Handles circulate; recycle() counts up from freeCount without a reset and
\* isFull/isEmpty are only right because of this.
DrainedWhileHeld ==
  \A ho \in Holders : holderOf[ho] # None => mag[holderOf[ho]].freeCount = 0

\* A magazine has one registered holder at most: two would recycle it twice.
OneHolder ==
  \A h1, h2 \in Holders : holderOf[h1] = holderOf[h2] /\ holderOf[h1] # None => h1 = h2

\* No slot is lost: a magazine without a holder is never recycled again, so
\* every one of its slots must have been pinned with setAutoRelease(false).
RetiredOnlyIfPinned ==
  \A m \in created : (\A ho \in Holders : holderOf[ho] # m)
                       => \A i \in SlotIdx : ~autorelease[<<m, i>>]

\* The owner of a slot: a thread running a method of the Handle that owns it.
OwnerRuns(s) ==
  \E t \in Threads : /\ th[t].h # None
                     /\ handle[th[t].h].slot = s
                     /\ Owns(th[t].h)

\* "... else the closure memory must be explicitly freed": once a slot is
\* pinned by setAutoRelease(false), its closure stays installed, and the
\* slot stays pinned, until its owner says otherwise.
PinRespected ==
  [][\A s \in Slots : ~autorelease[s] =>
        OwnerRuns(s) \/ (~autorelease'[s] /\ closure'[s] = closure[s])]_vars

(***************************************************************************)
(* The inductive invariant behind the properties above: who may refer to a *)
(* Handle, and which holder a reachable Handle keeps alive.                *)
(***************************************************************************)
Disposing(t) == th[t].pc \in {"resetSlot", "requeue"}

\* A queued Handle is referred to by one queue and by nobody else.
QueueInv ==
  /\ partialQueue \cap freeQueue = {}
  /\ \A h \in Queued : /\ Reachable(h)
                        /\ ~handle[h].disposed
                        /\ h \notin held
                        /\ ~InUse(h)

\* A Handle that was polled but not yet returned is the poller's alone; a
\* Handle under a method call is held by the application, and one thread at
\* most disposes of it.
ThreadInv ==
  \A t \in Threads :
    /\ th[t].pc = "install" =>
         /\ th[t].h \in Handles \ held
         /\ Reachable(th[t].h)
         /\ ~handle[th[t].h].disposed
         /\ \A u \in Threads : th[u].h = th[t].h => u = t
    /\ th[t].pc = "setAutoRelease" => th[t].h \in held
    /\ th[t].pc = "addMagazine" => th[t].m \in created
    /\ Disposing(t) =>
         /\ th[t].h \in held
         /\ handle[th[t].h].disposed
         /\ \A u \in Threads : Disposing(u) /\ th[u].h = th[t].h => u = t
    /\ th[t].pc \notin {"install", "setAutoRelease", "resetSlot", "requeue"} => th[t].h = None

\* A reachable Handle keeps the one registered holder of its magazine alive.
HolderInv ==
  /\ \A h \in held : Reachable(h)
  /\ \A h \in Handles : Reachable(h) => holderOf[handle[h].holder] = handle[h].slot[1]
  /\ \A ho \in Holders : holderOf[ho] \in created \cup {None}

\* Nobody has touched the slots of a magazine that does not exist yet.
UncreatedInv ==
  \A m \in Magazines \ created : \A i \in SlotIdx :
    autorelease[<<m, i>>] /\ closure[<<m, i>>] = NullClosure

HandleInv == QueueInv /\ ThreadInv /\ HolderInv /\ OneHolder /\ SlotExclusive

PoolInv ==
  /\ TypeOK /\ HandleInv /\ UncreatedInv
  /\ DrainedWhileHeld /\ RetiredOnlyIfPinned /\ CallReachesClosure

\* A slot that dispose() has begun to give back is available again in the
\* end: queued, or already polled by another thread.
Available(s) ==
  \E h \in Handles : /\ Reachable(h)
                     /\ handle[h].slot = s
                     /\ ~handle[h].disposed

DisposedSlotReturns ==
  \A s \in Slots :
    (\E t \in Threads : th[t].pc = "resetSlot" /\ handle[th[t].h].slot = s) ~> Available(s)

\* "If true, the closure memory is automatically managed": when the last
\* Handle of a magazine is forgotten, every slot of it that was not pinned is
\* available again in the end.
ForgottenSlotReturns ==
  \A s \in Slots :
    (/\ s[1] \in created
     /\ autorelease[s]
     /\ \A h \in Handles : Reachable(h) => handle[h].slot[1] # s[1]) ~> Available(s)

(***************************************************************************)
(* Refinement: the pool is a SlotAllocator.  A slot is free while a Handle *)
(* of it is queued, on its way from a queue to the client (install), or on *)
(* its way back (requeue); it is a client's while the application has a    *)
(* Handle of it that is not disposed of.                                   *)
(***************************************************************************)
Freeing(h) ==
  h \in Queued \/ \E t \in Threads : th[t].h = h /\ th[t].pc \in {"install", "requeue"}

FreeSlots   == {handle[h].slot : h \in {x \in Handles : Reachable(x) /\ Freeing(x)}}
ClientSlots == {handle[h].slot : h \in {x \in held : ~handle[x].disposed}}

\* What holds as long as no two threads use one Handle at the same time: no
\* setAutoRelease is overtaken by dispose, so every free slot is as new.
FreeSlotsFresh == \A s \in FreeSlots : autorelease[s] /\ closure[s] = NullClosure

OneUser == \A t, u \in Threads : th[t].h = th[u].h /\ th[t].h # None => t = u

NotOvertaken == \A t \in Threads : th[t].pc = "setAutoRelease" => ~handle[th[t].h].disposed

ConfinedInv == FreeSlotsFresh /\ OneUser /\ NotOvertaken

Allocator == INSTANCE SlotAllocator
  WITH free <- FreeSlots, clients <- ClientSlots, target <- closure

\* Whatever the threads and the Cleaner do to queues, Handles and magazines,
\* what can be seen of a slot is what a SlotAllocator does: in particular
\* newClosureHandle returns a slot nobody has, and neither dispose nor
\* recycle touches a slot that a client still has.
ImplementsAllocator == Allocator!Spec

================================================================================
