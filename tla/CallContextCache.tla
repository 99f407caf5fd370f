---------------------------- MODULE CallContextCache ----------------------------
(***************************************************************************)
(* The global cache of call contexts (CallContextCache.java) and the       *)
(* CallContext objects in it (CallContext.java).                           *)
(*                                                                         *)
(* A ConcurrentHashMap maps a Signature to a SoftReference of the context  *)
(* created for it.  When the collector clears a reference, its             *)
(* ReferenceHandler later appends it to a queue, and the next thread that  *)
(* misses in the cache removes the signatures of all queued references.    *)
(* getCallContext takes no lock: every access to the map, to a reference   *)
(* or to the queue is a step of its own.                                   *)
(*                                                                         *)
(* A context and the CallContextRef made for it share one identity: each   *)
(* context is put into the map once, by the thread that created it.  A     *)
(* Signature stands for the return type, parameter types, convention and   *)
(* flags that Signature.equals compares; the number of fixed parameters of *)
(* a variadic function is kept apart because Signature does not hold it.   *)
(***************************************************************************)
EXTENDS Integers, FiniteSets

CONSTANTS
  Threads,      \* application threads
  Signatures,   \* what Signature.equals tells apart
  FixedCounts,  \* values of fixedParamCount that are asked for
  Contexts,     \* CallContext objects; the identity of a collected one is reused
  None          \* null

Fields == [sig : Signatures, fixed : FixedCounts, by : Threads]

ASSUME CacheAssumption == None \notin Contexts \cup Signatures \cup FixedCounts \cup Fields

VARIABLES
  thunkHolds,     \* does the thunk a context registers with the Cleaner refer
                  \* to the context itself?  CallContext.java:171 does: TRUE.
                  \* FALSE is the cache on its own, whose contexts can go.
  contextCache,   \* the context whose reference a signature is mapped to
  context,        \* fields of every context, None when nothing refers to it;
                  \* by, the thread that created it, is history
  ref,            \* state of every context's CallContextRef
  held,           \* contexts the application refers to
  answer,         \* history: the last request a thread made, and what it got
  th              \* program counter and locals of every thread

vars == <<thunkHolds, contextCache, context, ref, held, answer, th>>

\* A reference is cleared once it is not live: on its way to the queue, in
\* contextReferenceQueue, or taken off it (or never enqueued).
RefStates == {"live", "pending", "queued", "done"}

PCs == {"idle", "deref", "cull", "remove", "create", "put"}

\* Where a thread is: the request it serves, and the reference or the context
\* it has in a local variable.
At(pc, sig, fixed, c) == [pc |-> pc, sig |-> sig, fixed |-> fixed, c |-> c]

Idle == At("idle", None, None, None)

Goto(t, l) == th' = [th EXCEPT ![t] = l]

TypeOK ==
  /\ thunkHolds \in BOOLEAN
  /\ contextCache \in [Signatures -> Contexts \cup {None}]
  /\ context \in [Contexts -> Fields \cup {None}]
  /\ ref \in [Contexts -> RefStates]
  /\ held \subseteq Contexts
  /\ answer \in [Threads -> [sig : Signatures \cup {None}, fixed : FixedCounts \cup {None},
                             gotSig : Signatures \cup {None},
                             gotFixed : FixedCounts \cup {None}]]
  /\ th \in [Threads -> [pc : PCs, sig : Signatures \cup {None},
                         fixed : FixedCounts \cup {None}, c : Contexts \cup {None}]]

(***************************************************************************)
(* Reachability                                                            *)
(***************************************************************************)
\* A context is strongly reachable from the application, from the creator
\* that has not put it into the map yet, or from its own Cleaner thunk.
StronglyReachable(c) ==
  \/ thunkHolds
  \/ c \in held
  \/ \E t \in Threads : th[t].pc = "put" /\ th[t].c = c

\* The CallContextRef of c is in the map or in a local variable.
RefReachable(c) ==
  \/ \E s \in Signatures : contextCache[s] = c
  \/ \E t \in Threads : th[t].c = c

(***************************************************************************)
(* getCallContext                                                          *)
(***************************************************************************)
\* Mutant of GetCallContext: Signature.equals compares too little.
GetCallContextLoosely(t, s, n) ==
  /\ th[t].pc = "idle"
  /\ \/ \E s2 \in Signatures : /\ contextCache[s2] # None
                              /\ Goto(t, At("deref", s, n, contextCache[s2]))
     \/ contextCache[s] = None /\ Goto(t, At("cull", s, n, None))
  /\ UNCHANGED <<contextCache, context, ref, held, answer>>

\* contextCache.get(signature)
GetCallContext(t, s, n) ==
  /\ th[t].pc = "idle"
  /\ IF contextCache[s] # None
     THEN Goto(t, At("deref", s, n, contextCache[s]))
     ELSE Goto(t, At("cull", s, n, None))
  /\ UNCHANGED <<contextCache, context, ref, held, answer>>

\* The caller gets c: from now on the application refers to it.
Return(t, c) ==
  /\ held' = held \cup {c}
  /\ answer' = [answer EXCEPT ![t] = [sig |-> th[t].sig, fixed |-> th[t].fixed,
                                      gotSig |-> context[c].sig,
                                      gotFixed |-> context[c].fixed]]
  /\ Goto(t, Idle)

\* ref.get(): the context, unless the reference was cleared meanwhile.
Deref(t) ==
  LET c == th[t].c IN
  /\ th[t].pc = "deref"
  /\ \/ ref[c] = "live" /\ Return(t, c)
     \/ ref[c] # "live" /\ Goto(t, At("cull", th[t].sig, th[t].fixed, None))
                      /\ UNCHANGED <<held, answer>>
  /\ UNCHANGED <<contextCache, context, ref>>

\* contextReferenceQueue.poll(), the condition of the culling loop.
Cull(t) ==
  /\ th[t].pc = "cull"
  /\ \/ \E c \in Contexts :
          /\ ref[c] = "queued"
          /\ ref' = [ref EXCEPT ![c] = "done"]
          /\ Goto(t, At("remove", th[t].sig, th[t].fixed, c))
     \/ /\ \A c \in Contexts : ref[c] # "queued"
        /\ Goto(t, At("create", th[t].sig, th[t].fixed, None))
        /\ UNCHANGED ref
  /\ UNCHANGED <<contextCache, context, held, answer>>

\* Mutant of Remove: the requested signature is removed, not the dead one.
RemoveRequested(t) ==
  /\ th[t].pc = "remove"
  /\ contextCache' = [contextCache EXCEPT ![th[t].sig] = None]
  /\ Goto(t, At("cull", th[t].sig, th[t].fixed, None))
  /\ UNCHANGED <<context, ref, held, answer>>

\* contextCache.remove(ref.signature): whatever the signature is mapped to now.
Remove(t) ==
  /\ th[t].pc = "remove"
  /\ contextCache' = [contextCache EXCEPT ![context[th[t].c].sig] = None]
  /\ Goto(t, At("cull", th[t].sig, th[t].fixed, None))
  /\ UNCHANGED <<context, ref, held, answer>>

\* new CallContext(...)
Create(t) ==
  /\ th[t].pc = "create"
  /\ \E c \in Contexts :
       /\ context[c] = None
       /\ context' = [context EXCEPT ![c] = [sig |-> th[t].sig, fixed |-> th[t].fixed,
                                             by |-> t]]
       /\ ref' = [ref EXCEPT ![c] = "live"]
       /\ Goto(t, At("put", th[t].sig, th[t].fixed, c))
  /\ UNCHANGED <<contextCache, held, answer>>

\* newCallContext throws or returns 0 (no memory, bad type, bad ABI).
CreateFails(t) ==
  /\ th[t].pc = "create"
  /\ Goto(t, Idle)
  /\ UNCHANGED <<contextCache, context, ref, held, answer>>

\* Mutant of Put: the context is returned but not cached.
ReturnUncached(t) ==
  /\ th[t].pc = "put"
  /\ Return(t, th[t].c)
  /\ UNCHANGED <<contextCache, context, ref>>

\* contextCache.put(signature, new CallContextRef(...)): the last one wins.
Put(t) ==
  /\ th[t].pc = "put"
  /\ contextCache' = [contextCache EXCEPT ![th[t].sig] = th[t].c]
  /\ Return(t, th[t].c)
  /\ UNCHANGED <<context, ref>>

(***************************************************************************)
(* The application and the collector                                       *)
(***************************************************************************)
\* The application forgets a context.
Drop(c) ==
  /\ c \in held
  /\ held' = held \ {c}
  /\ UNCHANGED <<contextCache, context, ref, answer, th>>

\* The collector clears the soft reference of a context that is not strongly
\* reachable.  A reference that is itself unreachable is never enqueued.
Clear(c) ==
  /\ context[c] # None
  /\ ref[c] = "live"
  /\ ~StronglyReachable(c)
  /\ ref' = [ref EXCEPT ![c] = IF RefReachable(c) THEN "pending" ELSE "done"]
  /\ UNCHANGED <<contextCache, context, held, answer, th>>

\* The ReferenceHandler appends a cleared reference to its queue.
Enqueue(c) ==
  /\ ref[c] = "pending"
  /\ ref' = [ref EXCEPT ![c] = "queued"]
  /\ UNCHANGED <<contextCache, context, held, answer, th>>

\* Nothing refers to the cleared reference: its identity can be used again.
Forget(c) ==
  /\ context[c] # None
  /\ ref[c] = "done"
  /\ ~RefReachable(c)
  /\ context' = [context EXCEPT ![c] = None]
  /\ UNCHANGED <<contextCache, ref, held, answer, th>>

Init ==
  /\ thunkHolds \in BOOLEAN
  /\ contextCache = [s \in Signatures |-> None]
  /\ context = [c \in Contexts |-> None]
  /\ ref = [c \in Contexts |-> "live"]
  /\ held = {}
  /\ answer = [t \in Threads |-> [sig |-> None, fixed |-> None,
                                  gotSig |-> None, gotFixed |-> None]]
  /\ th = [t \in Threads |-> Idle]

\* A thread inside getCallContext goes on with it.
Continue(t) ==
  Deref(t) \/ Cull(t) \/ Remove(t) \/ Create(t) \/ CreateFails(t) \/ Put(t)

Next ==
  /\ UNCHANGED thunkHolds
  /\ \/ \E t \in Threads : \/ \E s \in Signatures, n \in FixedCounts : GetCallContext(t, s, n)
                           \/ Continue(t)
     \/ \E c \in Contexts : Drop(c) \/ Clear(c) \/ Enqueue(c) \/ Forget(c)

Spec == Init /\ [][Next]_vars

\* Fairness: running threads are scheduled, and under memory pressure the
\* collector clears every soft reference it may clear.
FairSpec ==
  /\ Spec
  /\ \A t \in Threads : WF_vars(Continue(t) /\ UNCHANGED thunkHolds)
  /\ \A c \in Contexts : WF_vars(Clear(c) /\ UNCHANGED thunkHolds)

----------------------------------------------------------------------------
(***************************************************************************)
(* Properties                                                              *)
(***************************************************************************)
Exists(c) == context[c] # None

\* Contexts that their thunks hold are never freed, so how many there are
\* matters.  Lookup, creation and put are not atomic and racing threads do
\* create duplicates for a signature; but no thread ever creates two.
OneContextPerThread ==
  thunkHolds => \A c1, c2 \in Contexts :
    /\ Exists(c1) /\ Exists(c2)
    /\ context[c1].sig = context[c2].sig
    /\ context[c1].by = context[c2].by
    => c1 = c2

\* Every dead reference in the map is on its way to being culled: it is
\* pending, queued, or in the hands of a thread about to remove it.  No
\* order of clearing, culling, creating and putting leaks a map entry.
NoDeadEntryLeaked ==
  \A s \in Signatures :
    LET c == contextCache[s] IN
    c # None => \/ ref[c] \in {"live", "pending", "queued"}
                \/ \E t \in Threads : th[t].pc = "remove" /\ th[t].c = c

\* The map is keyed consistently: a signature is mapped to a context that
\* was created for it, and threads refer to contexts that exist.
KeyedInv ==
  /\ \A s \in Signatures : LET c == contextCache[s] IN
       c # None => Exists(c) /\ context[c].sig = s
  /\ \A c \in held : Exists(c) /\ ref[c] = "live"
  /\ \A c \in Contexts : ref[c] \in {"pending", "queued"} => Exists(c)

\* What a thread inside getCallContext knows of the context in its locals.
ThreadInv ==
  \A t \in Threads :
    /\ th[t].pc # "idle" => th[t].sig \in Signatures /\ th[t].fixed \in FixedCounts
    /\ th[t].pc \in {"idle", "cull", "create"} => th[t].c = None
    /\ th[t].pc = "deref" => /\ th[t].c \in Contexts
                             /\ Exists(th[t].c)
                             /\ context[th[t].c].sig = th[t].sig
    /\ th[t].pc = "remove" => /\ th[t].c \in Contexts
                              /\ Exists(th[t].c)
                              /\ ref[th[t].c] = "done"
    /\ th[t].pc = "put" => /\ th[t].c \in Contexts
                           /\ ref[th[t].c] = "live"
                           /\ Exists(th[t].c)
                           /\ context[th[t].c].sig = th[t].sig
                           /\ context[th[t].c].by = t
                           /\ \A s \in Signatures : contextCache[s] # th[t].c

\* Whatever the interleaving, what getCallContext returns has the return
\* type, parameter types, convention and flags that were asked for.
SignatureAsRequested == \A t \in Threads : answer[t].gotSig = answer[t].sig

\* A context is in the map, or another one of its signature is, unless its
\* creator is about to put it there.
CachedOnceCreated ==
  \A c \in Contexts : Exists(c) =>
    \/ contextCache[context[c].sig] # None
    \/ \E t \in Threads : t = context[c].by /\ th[t].pc = "put" /\ th[t].c = c

\* A thread that is about to create a context has not created one before for
\* the signature.
FirstOfItsThread ==
  \A t \in Threads : th[t].pc \in {"cull", "create"} =>
    \A c \in Contexts : Exists(c) /\ context[c].sig = th[t].sig => context[c].by # t

\* With the thunk in place no reference is ever cleared.
NothingCleared == \A c \in Contexts : ref[c] = "live"

Pinned == NothingCleared /\ CachedOnceCreated /\ FirstOfItsThread /\ OneContextPerThread

PinnedInv == thunkHolds = TRUE => Pinned

CacheInv ==
  TypeOK /\ KeyedInv /\ ThreadInv /\ SignatureAsRequested /\ NoDeadEntryLeaked /\ PinnedInv

(* Refinement: getCallContext asks a WeakCache, whose objects are contexts. *)

Requests == {[by |-> t, key |-> th[t].sig] : t \in {u \in Threads : th[u].pc # "idle"}}
Alive == {[o |-> c, key |-> context[c].sig] : c \in {d \in Contexts : Exists(d) /\ ref[d] = "live"}}
Fresh == {[by |-> t, o |-> th[t].c] : t \in {u \in Threads : th[u].pc = "put"}}

Cache == INSTANCE WeakCache WITH
  Objects <- Contexts, requests <- Requests, alive <- Alive, fresh <- Fresh

\* Through every race of looking up, creating, putting, clearing and culling, a
\* call of getCallContext gets a context that is alive and of its signature: the
\* one it created if it did, and none that its creator has not published.
ImplementsWeakCache == Cache!Spec

\* What a thread is about to put, no other has found.
UnpublishedInv ==
  \A t, u \in Threads : th[t].pc = "put" /\ th[u].pc \in {"deref", "put"} /\ t # u => th[t].c # th[u].c

\* "This may return a previously cached instance that matches the signature
\* requested": the context fits the call it was requested for, the number of
\* fixed parameters of a variadic call included.
ContextAsRequested ==
  SignatureAsRequested /\ \A t \in Threads : answer[t].gotFixed = answer[t].fixed

\* "This will allow the CallContext instance to also be collected if it is not
\* strongly referenced elsewhere": a context the application has forgotten,
\* and does not ask for again, is given up in the end.
ForgottenContextCollected ==
  \A c \in Contexts :
    Exists(c) /\ ref[c] = "live" /\ c \notin held
      ~> \/ c \in held
         \/ ref[c] # "live"
         \/ ~Exists(c)
=============================================================================
