------------------------- MODULE ClosureManagerProofs -------------------------
(***************************************************************************)
(* Proofs about ClosureManager, for any number of threads, contexts,       *)
(* pools and magazines: ManagerInv is inductive, and with it a pool in use *)
(* is found and no context is freed under a trampoline.                    *)
(***************************************************************************)
EXTENDS ClosureManager, TLAPS

\* Parts of the state that most steps leave alone.
ContextVars == <<pinned, sig, collected>>
MapVars == <<poolMap, cleared, context>>
MagazineVars == <<owner, holders, keep, free, clients>>

\* A context in use is not collected: the pools and the Proxies keep theirs.
LEMMA Reachable ==
  ASSUME ManagerInv, NEW c \in Contexts, ~ContextReachable(c)
  PROVE  /\ c \notin held /\ ~(pinned /\ sig[c] # None)
         /\ \A t \in Threads : th[t].context # c
         /\ \A t \in Threads : th[t].pool # None => context[th[t].pool] # c
         /\ \A m \in Magazines : owner[m] # None => context[owner[m]] # c
         /\ \A p \in Pools : context[p] = c /\ poolMap[sig[c]].pool = p => p \in cleared
<1>1. \A m \in Magazines : owner[m] \in Pools => Slot(m) \in SlotsOf(owner[m])
  BY DEF SlotsOf
<1>2. TypeOK
  BY DEF ManagerInv
<1> QED BY <1>1, <1>2 DEF ContextReachable, PoolReachable, TypeOK

\* Steps that touch neither contexts, nor the map, nor the magazines.
LEMMA KeepPools ==
  ASSUME PoolsOK, UNCHANGED ContextVars, UNCHANGED MapVars PROVE PoolsOK'
BY DEF PoolsOK, ContextVars, MapVars, Exists, SigOf, Alive

\* Steps that change nothing a magazine depends on.
LEMMA KeepMagazine ==
  ASSUME NEW m \in Magazines, MagazineOK(m), UNCHANGED <<sig, collected, context>>, UNCHANGED MagazineVars
  PROVE  MagazineOK(m)'
BY DEF MagazineOK, MagazineVars, Exists, Alive, Slot

\* The application gives up contexts at most.
LEMMA KeepHeld == ASSUME HeldOK, UNCHANGED ContextVars, held' \in SUBSET held PROVE HeldOK'
BY DEF HeldOK, ContextVars, Alive

\* Steps that leave the map alone and use no other pools.
LEMMA KeepFound ==
  ASSUME FoundOK, UNCHANGED ContextVars, UNCHANGED MapVars,
         \A p \in Pools : Exists(p) /\ Used(p)' => Used(p)
  PROVE  FoundOK'
BY DEF FoundOK, ContextVars, MapVars, Exists, Found, SigOf

\* A thread that does not move.
LEMMA KeepThread ==
  ASSUME NEW t \in Threads, ThreadOK(t), th'[t] = th[t],
         UNCHANGED <<sig, collected, context, holders>>
  PROVE  ThreadOK(t)'
BY DEF ThreadOK, At, Exists, Alive

\* A thread that is done.
LEMMA IdleThread ==
  ASSUME NEW t \in Threads, th'[t] = Idle PROVE ThreadOK(t)'
BY DEF ThreadOK, At, Idle

(* ---- Contexts --------------------------------------------------------- *)

\* The application obtains a CallContext.
LEMMA ObtainStep ==
  ASSUME ManagerInv, NEW c \in Contexts, NEW s \in Signatures, ObtainContext(c, s) PROVE ManagerInv'
<1>1. /\ c \notin collected /\ sig[c] \in {None, s} /\ sig' = [sig EXCEPT ![c] = s] /\ held' = held \cup {c}
      /\ UNCHANGED <<pinned, outer, collected, poolMap, cleared, context, owner, holders, keep, th, slotVars>>
  BY DEF ObtainContext
<1>2. s # None /\ TypeOK
  BY ManagerAssumption DEF ManagerInv
<1>3. sig'[c] = s /\ \A d \in Contexts \ {c} : sig'[d] = sig[d]
  BY <1>1, <1>2 DEF TypeOK
<1>4. \A d \in Contexts : (sig[d] # None => sig'[d] = sig[d]) /\ (Alive(d) => Alive(d)')
  BY <1>1, <1>2, <1>3 DEF Alive
<1>5. \A p \in Pools : (Exists(p)' <=> Exists(p)) /\ (Exists(p) => context'[p] = context[p] /\ context[p] \in Contexts)
  BY <1>1, <1>2 DEF Exists, TypeOK
<1>6. TypeOK'
  BY <1>1, <1>2 DEF TypeOK
<1>7. ASSUME NEW t \in Threads PROVE ThreadOK(t)'
  <2>1. ThreadOK(t) /\ th[t].context \in Contexts \cup {None} /\ th[t].pool \in Pools \cup {None}
    BY <1>2 DEF TypeOK, ManagerInv
  <2>2. sig' = sig \/ sig[c] = None
    BY <1>1, <1>2 DEF TypeOK
  <2> QED BY <2>1, <1>1, <1>3, <1>4, <1>5 DEF ThreadOK, At, Alive, Exists
<1>8. PoolsOK'
  BY <1>1, <1>2, <1>4, <1>5 DEF ManagerInv, PoolsOK, SigOf, TypeOK
<1>9. ASSUME NEW m \in Magazines PROVE MagazineOK(m)'
  <2>1. MagazineOK(m) /\ owner[m] \in Pools \cup {None}
    BY <1>2 DEF TypeOK, ManagerInv
  <2>2. UNCHANGED <<owner, holders, keep, free, clients>>
    BY <1>1 DEF slotVars
  <2> QED BY <2>1, <2>2, <1>1, <1>3, <1>4, <1>5 DEF MagazineOK, Alive, Exists, Slot
<1>10. HeldOK'
  BY <1>1, <1>2, <1>3, <1>4 DEF ManagerInv, HeldOK, Alive, TypeOK
<1>11. FoundOK'
  BY <1>1, <1>2, <1>4, <1>5 DEF ManagerInv, FoundOK, Found, Used, SigOf, PoolsOK
<1> QED BY <1>6, <1>7, <1>8, <1>9, <1>10, <1>11 DEF ManagerInv

\* The application forgets a CallContext.
LEMMA ForgetContextStep ==
  ASSUME ManagerInv, NEW c \in Contexts, ForgetContext(c) PROVE ManagerInv'
<1>1. held' = held \ {c}
      /\ UNCHANGED <<pinned, outer, sig, collected, poolMap, cleared, context, owner, holders, keep, th, slotVars>>
  BY DEF ForgetContext
<1>2. UNCHANGED ContextVars /\ UNCHANGED MapVars /\ UNCHANGED MagazineVars
  BY <1>1 DEF ContextVars, MapVars, MagazineVars, slotVars
<1>3. TypeOK'
  BY <1>1 DEF ManagerInv, TypeOK
<1>4. PoolsOK' /\ HeldOK'
  BY <1>1, <1>2, KeepPools, KeepHeld DEF ManagerInv
<1>5. FoundOK'
  BY <1>1, <1>2, KeepFound DEF ManagerInv, Used
<1> QED BY <1>1, <1>2, <1>3, <1>4, <1>5, KeepThread, KeepMagazine DEF ManagerInv, ContextVars, MapVars

\* The weak key and its entry go with a context that nothing refers to.
LEMMA CollectStep ==
  ASSUME ManagerInv, NEW c \in Contexts, CollectContext(c) PROVE ManagerInv'
<1>1. /\ sig[c] # None /\ collected' = collected \cup {c}
      /\ UNCHANGED <<pinned, outer, sig, held, cleared, context, owner, holders, keep, th, slotVars>>
      /\ poolMap' = [s \in Signatures |-> IF poolMap[s].key = c THEN NoEntry ELSE poolMap[s]]
  BY DEF CollectContext
<1>2. /\ c \notin held /\ ~pinned
      /\ \A t \in Threads : th[t].context # c
      /\ \A t \in Threads : th[t].pool # None => context[th[t].pool] # c
      /\ \A m \in Magazines : owner[m] # None => context[owner[m]] # c
      /\ \A p \in Pools : context[p] = c /\ poolMap[sig[c]].pool = p => p \in cleared
  BY <1>1, Reachable DEF CollectContext
<1>3. TypeOK /\ PoolsOK /\ HeldOK
  BY DEF ManagerInv
<1>4. TypeOK'
  BY <1>1, <1>3 DEF TypeOK, NoEntry
<1>5. ASSUME NEW t \in Threads PROVE ThreadOK(t)'
  BY <1>1, <1>2 DEF ManagerInv, ThreadOK, At, Alive, Exists
<1>6. ASSUME NEW m \in Magazines PROVE MagazineOK(m)'
  <2>1. MagazineOK(m) /\ UNCHANGED <<owner, holders, keep, free, clients>>
    BY <1>1 DEF ManagerInv, slotVars
  <2> QED BY <2>1, <1>1, <1>2 DEF MagazineOK, Alive, Exists, Slot
<1>7. PoolsOK'
  <2>1. \A s \in Signatures : poolMap'[s].pool \in {None, poolMap[s].pool}
    BY <1>1 DEF NoEntry
  <2> QED BY <2>1, <1>1, <1>2, <1>3 DEF PoolsOK, Exists, SigOf, Alive, TypeOK
<1>8. HeldOK'
  BY <1>1, <1>2, <1>3 DEF HeldOK, Alive
<1>9. FoundOK'
  BY <1>1, <1>2 DEF FoundOK
<1> QED BY <1>4, <1>5, <1>6, <1>7, <1>8, <1>9 DEF ManagerInv

(* ---- newClosure ------------------------------------------------------- *)

\* newClosure begins with a context.
LEMMA NewClosureStep ==
  ASSUME ManagerInv, NEW t \in Threads, NEW c \in Contexts, NewClosure(t, c) PROVE ManagerInv'
<1>1. /\ c \in held /\ th' = [th EXCEPT ![t] = [pc |-> "pool", context |-> c, pool |-> None, slot |-> None]]
      /\ UNCHANGED <<pinned, outer, sig, held, collected, poolMap, cleared, context, owner, holders, keep, slotVars>>
  BY DEF NewClosure
<1>2. UNCHANGED ContextVars /\ UNCHANGED MapVars /\ UNCHANGED MagazineVars
  BY <1>1 DEF ContextVars, MapVars, MagazineVars, slotVars
<1>3. TypeOK /\ Alive(c) /\ None \notin Pools \cup Contexts
  BY <1>1, ManagerAssumption DEF ManagerInv, HeldOK
<1>4. TypeOK'
  BY <1>1, <1>3 DEF TypeOK
<1>5. PoolsOK' /\ HeldOK'
  BY <1>1, <1>2, KeepPools, KeepHeld DEF ManagerInv
<1>6. /\ th'[t].pc = "pool" /\ th'[t].context = c /\ th'[t].pool = None
      /\ \A u \in Threads \ {t} : th'[u] = th[u]
  BY <1>1, <1>3 DEF TypeOK
<1>7. FoundOK'
  BY <1>1, <1>2, <1>3, <1>6, KeepFound DEF ManagerInv, Used
<1>8. ThreadOK(t)'
  BY <1>1, <1>3, <1>6 DEF ThreadOK, At, Alive
<1>9. \A u \in Threads \ {t} : ThreadOK(u)'
  BY <1>1, <1>6, KeepThread DEF ManagerInv
<1> QED BY <1>1, <1>2, <1>4, <1>5, <1>7, <1>8, <1>9, KeepMagazine DEF ManagerInv

\* A pool that is in use is found, so that no other takes its entry.
LEMMA GetClosurePoolStep ==
  ASSUME ManagerInv, NEW t \in Threads, GetClosurePool(t) PROVE ManagerInv'
<1>1. TypeOK /\ ThreadOK(t) /\ PoolsOK /\ HeldOK /\ FoundOK /\ None \notin Pools \cup Contexts \cup Signatures
  BY ManagerAssumption DEF ManagerInv
<1>2. PICK c \in Contexts : th[t].context = c /\ Alive(c)
  BY <1>1 DEF GetClosurePool, ThreadOK, TypeOK
<1>3. PICK s \in Signatures : sig[c] = s
  BY <1>1, <1>2 DEF TypeOK, Alive
<1>4. UNCHANGED <<pinned, outer, sig, held, collected, cleared, owner, holders, keep, slotVars>>
  BY DEF GetClosurePool
<1>5. PICK p \in Pools, key \in Contexts :
        /\ \/ poolMap[s].pool = p /\ p \notin cleared /\ context' = context
           \/ ~Exists(p) /\ context' = [context EXCEPT ![p] = c]
              /\ (poolMap[s].pool = None \/ poolMap[s].pool \in cleared)
        /\ poolMap' = [poolMap EXCEPT ![s] = [key |-> key, pool |-> p]]
        /\ th' = [th EXCEPT ![t] = [pc |-> "handle", context |-> None, pool |-> p, slot |-> None]]
  <2> DEFINE e == poolMap[s]
             k == IF e.key = None THEN c ELSE e.key
  <2>1. k \in Contexts
    BY <1>1, <1>2 DEF TypeOK
  <2>2. PICK p \in Pools :
          /\ IF e.pool # None /\ e.pool \notin cleared THEN p = e.pool ELSE ~Exists(p)
          /\ context' = IF e.pool # None /\ e.pool \notin cleared THEN context ELSE [context EXCEPT ![p] = c]
          /\ poolMap' = [poolMap EXCEPT ![s] = [key |-> k, pool |-> p]]
          /\ th' = [th EXCEPT ![t] = [pc |-> "handle", context |-> None, pool |-> p, slot |-> None]]
    BY <1>2, <1>3 DEF GetClosurePool
  <2> QED BY <2>1, <2>2
<1>6. /\ context'[p] # None /\ context'[p] \in Contexts /\ Alive(context'[p]) /\ sig[context'[p]] = s
      /\ \A q \in Pools \ {p} : context'[q] = context[q]
      /\ \A q \in Pools : Exists(q) => context'[q] = context[q]
  <2>1. CASE poolMap[s].pool = p /\ p \notin cleared /\ context' = context
    BY <2>1, <1>1 DEF PoolsOK, Exists, SigOf, TypeOK
  <2>2. CASE ~Exists(p) /\ context' = [context EXCEPT ![p] = c]
    BY <2>2, <1>1, <1>2, <1>3 DEF Exists, TypeOK
  <2> QED BY <2>1, <2>2, <1>5
<1>7. poolMap'[s].pool = p /\ \A r \in Signatures \ {s} : poolMap'[r] = poolMap[r]
  BY <1>1, <1>5 DEF TypeOK
<1>8. /\ th'[t].pc = "handle" /\ th'[t].context = None /\ th'[t].pool = p
      /\ \A u \in Threads \ {t} : th'[u] = th[u]
  BY <1>1, <1>5 DEF TypeOK
<1>9. TypeOK'
  <2>1. context' \in [Pools -> Contexts \cup {None}]
    BY <1>1, <1>2, <1>5 DEF TypeOK
  <2>2. poolMap' \in [Signatures -> [key : Contexts \cup {None}, pool : Pools \cup {None}]]
    BY <1>1, <1>5 DEF TypeOK
  <2>3. th' \in [Threads -> [pc : {"idle", "pool", "handle", "requeue"}, context : Contexts \cup {None},
                             pool : Pools \cup {None}, slot : S!Slots \cup {None}]]
    BY <1>1, <1>5 DEF TypeOK
  <2> QED BY <2>1, <2>2, <2>3, <1>1, <1>4 DEF TypeOK
<1>10. ThreadOK(t)'
  BY <1>1, <1>4, <1>6, <1>8 DEF ThreadOK, At, Exists, Alive
<1>11. ASSUME NEW u \in Threads \ {t} PROVE ThreadOK(u)'
  <2>1. ThreadOK(u) /\ th[u].pool \in Pools \cup {None} /\ th'[u] = th[u]
    BY <1>1, <1>8 DEF TypeOK, ManagerInv
  <2> QED BY <2>1, <1>4, <1>6 DEF ThreadOK, At, Exists, Alive
<1>12. ASSUME NEW m \in Magazines PROVE MagazineOK(m)'
  <2>1. MagazineOK(m) /\ owner[m] \in Pools \cup {None} /\ UNCHANGED <<owner, holders, keep, free, clients>>
    BY <1>1, <1>4 DEF TypeOK, ManagerInv, slotVars
  <2> QED BY <2>1, <1>4, <1>6 DEF MagazineOK, Exists, Alive, Slot
<1>13. PoolsOK'
  <2>1. ASSUME NEW q \in Pools, Exists(q)' PROVE sig'[context'[q]] # None
    BY <2>1, <1>1, <1>4, <1>6 DEF PoolsOK, Exists
  <2>2. ASSUME NEW r \in Signatures, NEW q \in Pools, poolMap'[r].pool = q
        PROVE  Exists(q)' /\ SigOf(q)' = r /\ (q \notin cleared' => context'[q] \notin collected' /\ sig'[context'[q]] # None)
    <3>1. CASE r = s
      BY <3>1, <2>2, <1>4, <1>6, <1>7, <1>1 DEF Exists, SigOf, Alive
    <3>2. CASE r # s
      <4>1. poolMap[r].pool = q /\ q # None
        BY <3>2, <2>2, <1>1, <1>7
      <4>2. Exists(q) /\ SigOf(q) = r /\ (q \notin cleared => Alive(context[q]))
        BY <4>1, <1>1 DEF PoolsOK
      <4> QED BY <4>2, <1>4, <1>6 DEF Exists, SigOf, Alive
    <3> QED BY <3>1, <3>2
  <2>3. \A r \in Signatures : poolMap'[r].pool \in Pools \cup {None}
    BY <1>9 DEF TypeOK
  <2>4. \A q \in cleared' : Exists(q)'
    BY <1>1, <1>4, <1>6 DEF PoolsOK, Exists, TypeOK
  <2> QED BY <2>1, <2>2, <2>3, <2>4 DEF PoolsOK, Alive
<1>14. HeldOK'
  BY <1>1, <1>4 DEF HeldOK, Alive
<1>15. FoundOK'
  <2> SUFFICES ASSUME pinned, NEW q \in Pools, Exists(q)', Used(q)' PROVE Found(q)' /\ collected' = {}
    BY <1>1, <1>4 DEF FoundOK
  <2>1. collected' = {}
    BY <1>1, <1>4 DEF FoundOK
  <2>2. CASE q = p
    <3>1. SigOf(p)' = s
      BY <1>4, <1>6 DEF SigOf
    <3>2. p \notin cleared'
      <4>1. CASE poolMap[s].pool = p /\ p \notin cleared
        BY <4>1, <1>4
      <4>2. CASE ~Exists(p)
        BY <4>2, <1>1, <1>4 DEF PoolsOK
      <4> QED BY <4>1, <4>2, <1>5
    <3> QED BY <2>1, <2>2, <3>1, <3>2, <1>7 DEF Found
  <2>3. CASE q # p
    <3>1. Exists(q) /\ Used(q)
      BY <2>3, <1>4, <1>6, <1>8 DEF Exists, Used
    <3>2. Found(q) /\ SigOf(q)' = SigOf(q)
      BY <3>1, <1>1, <1>4, <1>6 DEF FoundOK, SigOf
    <3>3. SigOf(q) # s
      BY <2>3, <3>2, <1>1, <1>5 DEF Found
    <3>4. SigOf(q) \in Signatures
      BY <3>1, <1>1 DEF SigOf, Exists, PoolsOK, TypeOK
    <3> QED BY <2>1, <3>2, <3>3, <3>4, <1>4, <1>7 DEF Found
  <2> QED BY <2>2, <2>3
<1> QED BY <1>9, <1>10, <1>11, <1>12, <1>13, <1>14, <1>15 DEF ManagerInv
(* ---- Slots ------------------------------------------------------------ *)

\* A step that makes no new use of a pool, and neither maps nor collects.
LEMMA SlotStep ==
  ASSUME ManagerInv, UNCHANGED ContextVars, UNCHANGED MapVars, held' = held, TypeOK',
         \A t \in Threads : ThreadOK(t)', \A m \in Magazines : MagazineOK(m)',
         \A p \in Pools : Exists(p) /\ Used(p)' => Used(p)
  PROVE  ManagerInv'
BY KeepPools, KeepHeld, KeepFound DEF ManagerInv

\* The pool hands out a Handle it had.
LEMMA TakeHandleStep ==
  ASSUME ManagerInv, NEW t \in Threads, NEW x \in Closures, TakeHandle(t, x) PROVE ManagerInv'
<1>1. UNCHANGED <<pinned, outer, sig, held, collected, poolMap, cleared, context, owner, holders, keep>>
      /\ th' = [th EXCEPT ![t] = Idle]
  BY DEF TakeHandle
<1>2. PICK s : s \in free /\ free' = free \ {s} /\ clients' = clients \cup {s}
  BY DEF TakeHandle, S!Acquire
<1>3. TypeOK /\ None \notin Pools
  BY ManagerAssumption DEF ManagerInv
<1>4. th'[t] = Idle /\ \A u \in Threads \ {t} : th'[u] = th[u]
  BY <1>1, <1>3 DEF TypeOK
<1>5. TypeOK'
  BY <1>1, <1>3 DEF TypeOK, Idle
<1>6. \A u \in Threads : ThreadOK(u)'
  BY <1>1, <1>4, IdleThread, KeepThread DEF ManagerInv
<1>7. ASSUME NEW m \in Magazines PROVE MagazineOK(m)'
  <2>1. MagazineOK(m) /\ Slot(m)' = Slot(m)
    BY DEF ManagerInv, Slot
  <2> QED BY <2>1, <1>1, <1>2 DEF MagazineOK, Exists, Alive
<1>8. \A p \in Pools : Used(p)' => Used(p)
  BY <1>1, <1>3, <1>4 DEF Used, Idle
<1> QED BY <1>1, <1>5, <1>6, <1>7, <1>8, SlotStep DEF ContextVars, MapVars

\* The pool makes a magazine.
LEMMA NewMagazineStep ==
  ASSUME ManagerInv, NEW t \in Threads, NEW m \in Magazines, NewMagazine(t, m) PROVE ManagerInv'
<1>1. /\ UNCHANGED <<pinned, outer, sig, held, collected, poolMap, cleared, context, keep, th>>
      /\ owner' = [owner EXCEPT ![m] = th[t].pool] /\ holders' = holders \cup {m}
      /\ free' = free \cup {Slot(m)} /\ clients' = clients /\ At(t, "handle")
  BY DEF NewMagazine, S!Grow, S!SlotsOf, Slot
<1>2. TypeOK /\ None \notin Pools
  BY ManagerAssumption DEF ManagerInv
<1>3. PICK p \in Pools : th[t].pool = p /\ Exists(p) /\ Alive(context[p])
  BY <1>1, <1>2 DEF ManagerInv, ThreadOK, TypeOK
<1>4. owner'[m] = p /\ \A n \in Magazines \ {m} : owner'[n] = owner[n]
  BY <1>1, <1>2, <1>3 DEF TypeOK
<1>5. TypeOK'
  BY <1>1, <1>2, <1>3 DEF TypeOK
<1>6. ASSUME NEW u \in Threads PROVE ThreadOK(u)'
  BY <1>1 DEF ManagerInv, ThreadOK, At, Exists, Alive
<1>7. ASSUME NEW n \in Magazines PROVE MagazineOK(n)'
  <2>1. MagazineOK(n) /\ Slot(n)' = Slot(n) /\ (n # m => Slot(n) # Slot(m))
    BY DEF ManagerInv, Slot
  <2>2. CASE n = m
    BY <2>2, <1>1, <1>2, <1>3, <1>4 DEF MagazineOK, Exists, Alive
  <2>3. CASE n # m
    BY <2>1, <2>3, <1>1, <1>4 DEF MagazineOK, Exists, Alive
  <2> QED BY <2>2, <2>3
<1>8. ASSUME NEW q \in Pools, Used(q)' PROVE Used(q)
  BY <1>1, <1>2, <1>3, <1>4, <1>8 DEF Used, TypeOK
<1> QED BY <1>1, <1>5, <1>6, <1>7, <1>8, SlotStep DEF ContextVars, MapVars

\* The pool cannot make one.
LEMMA NewMagazineFailsStep ==
  ASSUME ManagerInv, NEW t \in Threads, NewMagazineFails(t) PROVE ManagerInv'
<1>1. UNCHANGED <<pinned, outer, sig, held, collected, poolMap, cleared, context, owner, holders, keep, slotVars>>
      /\ th' = [th EXCEPT ![t] = Idle]
  BY DEF NewMagazineFails
<1>2. TypeOK /\ None \notin Pools
  BY ManagerAssumption DEF ManagerInv
<1>3. th'[t] = Idle /\ \A u \in Threads \ {t} : th'[u] = th[u]
  BY <1>1, <1>2 DEF TypeOK
<1>4. TypeOK'
  BY <1>1, <1>2 DEF TypeOK, Idle
<1>5. \A u \in Threads : ThreadOK(u)'
  BY <1>1, <1>3, IdleThread, KeepThread DEF ManagerInv
<1>6. \A m \in Magazines : MagazineOK(m)'
  BY <1>1, KeepMagazine DEF ManagerInv, MagazineVars, slotVars
<1>7. \A p \in Pools : Used(p)' => Used(p)
  BY <1>1, <1>2, <1>3 DEF Used, Idle
<1> QED BY <1>1, <1>4, <1>5, <1>6, <1>7, SlotStep DEF ContextVars, MapVars

\* Handle.setAutoRelease(false)
LEMMA SetAutoReleaseStep ==
  ASSUME ManagerInv, NEW s \in S!Slots, SetAutoRelease(s) PROVE ManagerInv'
<1>1. UNCHANGED <<pinned, outer, sig, held, collected, poolMap, cleared, context, owner, holders, th, slotVars>>
      /\ keep' = keep \cup {s} /\ s \in clients
  BY DEF SetAutoRelease
<1>2. TypeOK'
  BY <1>1 DEF ManagerInv, TypeOK
<1>3. ASSUME NEW m \in Magazines PROVE MagazineOK(m)'
  <2>1. MagazineOK(m) /\ Slot(m)' = Slot(m) /\ free' = free /\ clients' = clients
    BY <1>1 DEF ManagerInv, Slot, slotVars
  <2> QED BY <2>1, <1>1 DEF MagazineOK, Exists, Alive
<1>4. \A u \in Threads : ThreadOK(u)'
  BY <1>1, KeepThread DEF ManagerInv
<1>5. \A p \in Pools : Used(p)' => Used(p)
  BY <1>1 DEF Used
<1> QED BY <1>1, <1>2, <1>3, <1>4, <1>5, SlotStep DEF ContextVars, MapVars

\* A Handle is disposed of.
LEMMA DisposeStep ==
  ASSUME ManagerInv, NEW t \in Threads, NEW s \in S!Slots, Dispose(t, s) PROVE ManagerInv'
<1>1. /\ UNCHANGED <<pinned, outer, sig, held, collected, poolMap, cleared, context, owner, holders>>
      /\ keep' = keep \ {s} /\ s \in clients /\ clients' = clients \ {s} /\ free' = free
      /\ th' = [th EXCEPT ![t] = [pc |-> "requeue", context |-> None, pool |-> owner[s[1]], slot |-> s]]
  BY DEF Dispose, S!GiveUp
<1>2. TypeOK /\ None \notin Pools
  BY ManagerAssumption DEF ManagerInv
<1>3. PICK m \in Magazines : s[1] = m /\ s = Slot(m)
  BY DEF S!Slots, Slot
<1>4. m \in holders /\ owner[m] \in Pools /\ Exists(owner[m]) /\ Alive(context[owner[m]])
  <2>1. m \in holders
    BY <1>1, <1>3 DEF ManagerInv, MagazineOK
  <2> QED BY <2>1, <1>2 DEF ManagerInv, MagazineOK, TypeOK
<1>5. th' = [th EXCEPT ![t] = [pc |-> "requeue", context |-> None, pool |-> owner[m], slot |-> s]]
  BY <1>1, <1>3
<1>6. /\ th'[t].pc = "requeue" /\ th'[t].context = None /\ th'[t].pool = owner[m] /\ th'[t].slot = s
      /\ \A u \in Threads \ {t} : th'[u] = th[u]
  BY <1>2, <1>5 DEF TypeOK
<1>7. TypeOK'
  BY <1>1, <1>2, <1>4, <1>5 DEF TypeOK
<1>8. ThreadOK(t)'
  BY <1>1, <1>3, <1>4, <1>6 DEF ThreadOK, At, Exists, Alive
<1>9. \A u \in Threads \ {t} : ThreadOK(u)'
  BY <1>1, <1>6, KeepThread DEF ManagerInv
<1>10. ASSUME NEW n \in Magazines PROVE MagazineOK(n)'
  <2>1. MagazineOK(n) /\ Slot(n)' = Slot(n)
    BY DEF ManagerInv, Slot
  <2> QED BY <2>1, <1>1 DEF MagazineOK, Exists, Alive
<1>11. \A p \in Pools : Used(p)' => Used(p)
  BY <1>1, <1>4, <1>6 DEF Used
<1> QED BY <1>1, <1>7, <1>8, <1>9, <1>10, <1>11, SlotStep DEF ContextVars, MapVars

\* Its slot returns to the pool.
LEMMA RequeueStep ==
  ASSUME ManagerInv, NEW t \in Threads, Requeue(t) PROVE ManagerInv'
<1>1. /\ UNCHANGED <<pinned, outer, sig, held, collected, poolMap, cleared, context, owner, holders, keep>>
      /\ th' = [th EXCEPT ![t] = Idle] /\ free' = free \cup {th[t].slot} /\ clients' = clients /\ At(t, "requeue")
  BY DEF Requeue, S!TakeBack
<1>2. TypeOK /\ None \notin Pools
  BY ManagerAssumption DEF ManagerInv
<1>3. PICK m \in holders : th[t].slot = Slot(m)
  BY <1>1 DEF ManagerInv, ThreadOK, S!Slots, Slot
<1>4. th'[t] = Idle /\ \A u \in Threads \ {t} : th'[u] = th[u]
  BY <1>1, <1>2 DEF TypeOK
<1>5. TypeOK'
  BY <1>1, <1>2 DEF TypeOK, Idle
<1>6. \A u \in Threads : ThreadOK(u)'
  BY <1>1, <1>4, IdleThread, KeepThread DEF ManagerInv
<1>7. ASSUME NEW n \in Magazines PROVE MagazineOK(n)'
  <2>1. MagazineOK(n) /\ Slot(n)' = Slot(n) /\ (Slot(n) = Slot(m) => n = m)
    BY DEF ManagerInv, Slot
  <2> QED BY <2>1, <1>1, <1>3 DEF MagazineOK, Exists, Alive
<1>8. \A p \in Pools : Used(p)' => Used(p)
  BY <1>1, <1>2, <1>4 DEF Used, Idle
<1> QED BY <1>1, <1>5, <1>6, <1>7, <1>8, SlotStep DEF ContextVars, MapVars

\* A Handle is forgotten.
LEMMA ForgetHandleStep ==
  ASSUME ManagerInv, NEW s \in S!Slots, ForgetHandle(s) PROVE ManagerInv'
<1>1. /\ UNCHANGED <<pinned, outer, sig, held, collected, poolMap, cleared, context, owner, holders, keep, th>>
      /\ clients' = clients \ {s} /\ free' = free
  BY DEF ForgetHandle, S!GiveUp
<1>2. TypeOK'
  BY <1>1 DEF ManagerInv, TypeOK
<1>3. ASSUME NEW m \in Magazines PROVE MagazineOK(m)'
  <2>1. MagazineOK(m) /\ Slot(m)' = Slot(m)
    BY DEF ManagerInv, Slot
  <2> QED BY <2>1, <1>1 DEF MagazineOK, Exists, Alive
<1>4. \A u \in Threads : ThreadOK(u)'
  BY <1>1, KeepThread DEF ManagerInv
<1>5. \A p \in Pools : Used(p)' => Used(p)
  BY <1>1 DEF Used
<1> QED BY <1>1, <1>2, <1>3, <1>4, <1>5, SlotStep DEF ContextVars, MapVars

\* The holder of a magazine's slots is collected.
LEMMA RecycleStep ==
  ASSUME ManagerInv, NEW m \in Magazines, Recycle(m) PROVE ManagerInv'
<1>1. /\ UNCHANGED <<pinned, outer, sig, held, collected, poolMap, cleared, context, owner, keep, th>>
      /\ m \in holders /\ clients' = clients /\ holders' \in SUBSET holders
      /\ Slot(m) \notin free \cup clients /\ \A u \in Threads : th[u].slot # Slot(m)
      /\ \/ free' = free \cup {Slot(m)} /\ holders' = holders
         \/ free' = free /\ holders' = holders \ {m}
  BY DEF Recycle, S!TakeBack, slotVars
<1>2. TypeOK'
  BY <1>1 DEF ManagerInv, TypeOK
<1>3. ASSUME NEW n \in Magazines PROVE MagazineOK(n)'
  <2>1. MagazineOK(n) /\ Slot(n)' = Slot(n) /\ (Slot(n) = Slot(m) => n = m)
    BY DEF ManagerInv, Slot
  <2> QED BY <2>1, <1>1 DEF MagazineOK, Exists, Alive
<1>4. ASSUME NEW u \in Threads PROVE ThreadOK(u)'
  <2>1. At(u, "requeue") => th[u].slot[1] \in holders'
    <3>1. \A s \in S!Slots : s[1] = m => s = Slot(m)
      BY DEF S!Slots, Slot
    <3> QED BY <3>1, <1>1 DEF ManagerInv, ThreadOK
  <2> QED BY <2>1, <1>1 DEF ManagerInv, ThreadOK, At, Exists, Alive
<1>5. \A p \in Pools : Used(p)' => Used(p)
  BY <1>1 DEF Used
<1> QED BY <1>1, <1>2, <1>3, <1>4, <1>5, SlotStep DEF ContextVars, MapVars

\* The soft reference is cleared only when nothing uses the pool.
LEMMA ClearPoolStep ==
  ASSUME ManagerInv, NEW p \in Pools, ClearPool(p) PROVE ManagerInv'
<1>1. /\ UNCHANGED <<pinned, outer, sig, held, collected, poolMap, context, owner, holders, keep, th, slotVars>>
      /\ Exists(p) /\ cleared' = cleared \cup {p} /\ ~PoolReachable(p)
  BY DEF ClearPool
<1>2. ~Used(p)
  BY <1>1 DEF Used, PoolReachable
<1>3. TypeOK'
  BY <1>1 DEF ManagerInv, TypeOK
<1>4. PoolsOK' /\ HeldOK'
  BY <1>1 DEF ManagerInv, PoolsOK, HeldOK, Exists, SigOf, Alive
<1>5. FoundOK'
  BY <1>1, <1>2 DEF ManagerInv, FoundOK, Found, Used, Exists, SigOf
<1>6. \A u \in Threads : ThreadOK(u)'
  BY <1>1, KeepThread DEF ManagerInv
<1>7. \A m \in Magazines : MagazineOK(m)'
  BY <1>1, KeepMagazine DEF ManagerInv, MagazineVars, slotVars
<1> QED BY <1>3, <1>4, <1>5, <1>6, <1>7 DEF ManagerInv

(* ---- The invariant and what it gives ---------------------------------- *)

\* No context, no pool and no magazine yet.
LEMMA InitInv == Init => ManagerInv
BY ManagerAssumption DEF Init, S!Init, ManagerInv, TypeOK, PoolsOK, HeldOK, FoundOK, ThreadOK, MagazineOK,
   Idle, NoEntry, At, Exists, Alive, Used

\* Every step of every thread and of the collector.
LEMMA NextInv == ManagerInv /\ [Next]_vars => ManagerInv'
<1> SUFFICES ASSUME ManagerInv, [Next]_vars PROVE ManagerInv'
  OBVIOUS
<1>1. CASE UNCHANGED vars
  <2>1. UNCHANGED <<pinned, outer, sig, held, collected, poolMap, cleared, context, owner, holders, keep, th, free, clients>>
    BY <1>1 DEF vars, slotVars
  <2>2. UNCHANGED ContextVars /\ UNCHANGED MapVars /\ UNCHANGED MagazineVars
    BY <2>1 DEF ContextVars, MapVars, MagazineVars
  <2>3. TypeOK'
    BY <2>1 DEF ManagerInv, TypeOK
  <2>4. \A p \in Pools : Used(p)' => Used(p)
    BY <2>1 DEF Used
  <2> QED BY <2>1, <2>2, <2>3, <2>4, SlotStep, KeepThread, KeepMagazine DEF ManagerInv
<1>2. ASSUME NEW t \in Threads, ThreadStep(t) PROVE ManagerInv'
  BY <1>2, GetClosurePoolStep, RequeueStep, NewMagazineFailsStep, TakeHandleStep, NewMagazineStep DEF ThreadStep
<1>3. CASE Next
  BY <1>2, <1>3, ForgetContextStep, CollectStep, ObtainStep, NewClosureStep, DisposeStep, SetAutoReleaseStep,
     ForgetHandleStep, RecycleStep, ClearPoolStep DEF Next
<1> QED BY <1>1, <1>3

\* ManagerInv holds of every behaviour of getClosurePool, the pools it finds
\* and the collector.
THEOREM ManagerInvariance == Spec => []ManagerInv
<1>1. Init => ManagerInv
  BY InitInv
<1>2. ManagerInv /\ [Next]_vars => ManagerInv'
  BY NextInv
<1> QED BY <1>1, <1>2, PTL DEF Spec

\* getClosurePool finds the pool that is in use for a signature.
THEOREM InUseFound == Spec => []PoolInUseIsFound
<1>1. ManagerInv => PoolInUseIsFound
  <2> SUFFICES ASSUME ManagerInv, pinned, NEW p \in Pools, Exists(p), InUse(p) PROVE Found(p)
    BY DEF PoolInUseIsFound, Found
  <2>1. Used(p)
    <3>1. CASE \E t \in Threads : th[t].pool = p
      BY <3>1 DEF Used
    <3>2. CASE SlotsOf(p) \cap (free \cup clients) # {}
      <4>1. PICK m \in Magazines : owner[m] = p /\ Slot(m) \in free \cup clients
        BY <3>2 DEF SlotsOf
      <4>2. m \in holders
        BY <4>1 DEF ManagerInv, MagazineOK
      <4> QED BY <4>1, <4>2 DEF Used
    <3> QED BY <3>1, <3>2 DEF InUse
  <2> QED BY <2>1 DEF ManagerInv, FoundOK
<1> QED BY <1>1, ManagerInvariance, PTL

\* A trampoline that C may call has its native context.
THEOREM TrampolinesValid == Spec => []TrampolineValid
<1>1. ManagerInv => TrampolineValid
  BY DEF ManagerInv, MagazineOK, TrampolineValid, Alive
<1> QED BY <1>1, ManagerInvariance, PTL
=============================================================================
