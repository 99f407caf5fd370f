------------------------- MODULE ClosureMagazineProofs -------------------------
(***************************************************************************)
(* Proofs about ClosureMagazine, for any number of threads, magazines and  *)
(* closures, on any machine and for any signature: MagazineInv is          *)
(* inductive, and with it memory and references balance and a trampoline   *)
(* reaches its own proxy.  CallInv is another one, about the values of a   *)
(* call through a trampoline, at the end.                                  *)
(*                                                                         *)
(* A step concerns one thread t and one magazine m.  Frame takes care of   *)
(* the other threads and magazines once and for all; what is left for an   *)
(* action is t and m.                                                      *)
(***************************************************************************)
EXTENDS ClosureMagazine, FiniteSetTheorems, TLAPS

\* Nothing about magazine o changes, ...
Same(o) ==
  /\ maker'[o] = maker[o] /\ blocks'[o] = blocks[o] /\ nextclosure'[o] = nextclosure[o]
  /\ globals'[o] = globals[o] /\ javaObject'[o] = javaObject[o]
  /\ o \in held' <=> o \in held
  /\ o \in registered' <=> o \in registered
  /\ o \in disposed' <=> o \in disposed
  /\ \A h \in handles \cup handles' : h.m = o => (h \in handles' <=> h \in handles)

\* ... or nothing that another allocating thread relies on.
Mild(m) ==
  /\ maker'[m] = maker[m] /\ blocks'[m] = blocks[m]
  /\ m \in registered' <=> m \in registered
  /\ m \in disposed' <=> m \in disposed

Allocating(u) == At(u, "get") \/ At(u, "count")

\* Two threads at work on one magazine both allocate from it, unconfined.
\* closureMagazineGet: its callers.
LEMMA Sharing ==
  ASSUME MagazineInv, NEW t \in Threads, NEW u \in Threads, u # t,
         th[u].m = th[t].m, th[t].m # None
  PROVE  ~confined /\ maker[th[t].m] = "app" /\ Allocating(t) /\ Allocating(u)
<1>1. ThreadOK(t) /\ ThreadOK(u) /\ TypeOK
  BY DEF MagazineInv
<1>2. ~Sole(t) /\ ~Sole(u)
  BY DEF Sole
<1>3. th[t].pc \in {"idle", "prepare", "error", "proxy", "get", "count", "free"} /\ th[t].m \in Magazines
      /\ th[u].pc \in {"idle", "prepare", "error", "proxy", "get", "count", "free"}
  BY <1>1 DEF TypeOK
<1>4. Allocating(t) /\ Allocating(u)
  BY <1>1, <1>2, <1>3 DEF ThreadOK, At, Allocating
<1>5. maker[th[t].m] \in {"none", "pool", "app"}
  BY <1>1, <1>3 DEF TypeOK
<1> QED BY <1>1, <1>2, <1>4, <1>5 DEF ThreadOK, Allocating

\* The thread u is untouched by a step that leaves its magazine alone.
LEMMA FrameThread ==
  ASSUME TypeOK, NEW u \in Threads, th'[u] = th[u], th[u].m # None => Same(th[u].m),
         \A v \in Threads : th'[v].m = th[u].m /\ th[u].m # None => th[v].m = th[u].m,
         confined' = confined, ThreadOK(u)
  PROVE  ThreadOK(u)'
<1>1. CASE th[u].m = None
  <2>1. At(u, "idle")
    BY <1>1 DEF ThreadOK
  <2>2. At(u, "idle")' /\ th'[u].pc = "idle" /\ th'[u].m = None
    BY <2>1, <1>1 DEF At
  <2> QED BY <2>2 DEF ThreadOK, At
<1>2. CASE th[u].m # None
  <2> DEFINE m == th[u].m
  <2>1. Same(m) /\ th'[u].m = m
    BY <1>2
  <2>2. Sole(u) => Sole(u)'
    BY <1>2 DEF Sole
  <2>3. Untouched(m) => Untouched(m)'
    BY <2>1 DEF Untouched, Same
  <2>4. \A p \in {"idle", "prepare", "error", "proxy", "get", "count", "free"} : At(u, p)' <=> At(u, p)
    BY DEF At
  <2>5. /\ maker'[m] = maker[m] /\ blocks'[m] = blocks[m] /\ nextclosure'[m] = nextclosure[m]
        /\ javaObject'[m] = javaObject[m] /\ (m \in held' <=> m \in held)
        /\ (m \in registered' <=> m \in registered) /\ (m \in disposed' <=> m \in disposed)
    BY <2>1 DEF Same
  <2>6. ~At(u, "idle")
    BY <1>2 DEF ThreadOK
  <2> QED BY <1>2, <2>1, <2>2, <2>3, <2>4, <2>5, <2>6 DEF ThreadOK
<1> QED BY <1>1, <1>2

\* A thread that allocates together with others relies on little.
LEMMA SharedThread ==
  ASSUME TypeOK, NEW u \in Threads, th'[u] = th[u], Allocating(u), ~confined, ~confined',
         maker[th[u].m] = "app", Mild(th[u].m), ThreadOK(u)
  PROVE  ThreadOK(u)'
<1>1. th[u].m \in Magazines /\ th'[u].m = th[u].m /\ th[u].m # None
  BY DEF ThreadOK, Allocating, At, TypeOK
<1>2. \A p \in {"idle", "prepare", "error", "proxy", "get", "count", "free"} : At(u, p)' <=> At(u, p)
  BY DEF At
<1>3. \A p \in {"idle", "prepare", "error", "proxy", "free"} : ~At(u, p)
  BY DEF At, Allocating
<1> QED BY <1>1, <1>2, <1>3 DEF ThreadOK, Mild, Allocating

\* A magazine is untouched by a step that leaves it and its threads alone.
LEMMA FrameMagazine ==
  ASSUME NEW o \in Magazines, Same(o), confined' = confined, MagazineOK(o), CountOK(o),
         \A v \in Threads : th'[v].m = o \/ th[v].m = o => th'[v] = th[v]
  PROVE  MagazineOK(o)' /\ CountOK(o)'
<1>1. Working(o)' <=> Working(o)
  BY DEF Working
<1>2. Uncounted(o)' <=> Uncounted(o)
  BY DEF Uncounted, At
<1>3. Untouched(o) => Untouched(o)'
  BY DEF Untouched, Same
<1>4. MagazineOK(o)'
  BY <1>1, <1>3 DEF MagazineOK, Same
<1>5. CountOK(o)'
  BY <1>1, <1>2 DEF CountOK, Same
<1> QED BY <1>4, <1>5

\* What a step of t on m has to show when Frame has done the rest.
LEMMA Frame ==
  ASSUME MagazineInv, NEW t \in Threads, NEW m \in Magazines, confined' = confined,
         \A u \in Threads \ {t} : th'[u] = th[u],
         th[t].m \in {m, None}, th'[t].m \in {m, None},
         \A o \in Magazines \ {m} : Same(o),
         \A u \in Threads \ {t} : th[u].m = m =>
            Mild(m) /\ ~confined /\ Allocating(u) /\ maker[m] = "app",
         TypeOK', ThreadOK(t)', MagazineOK(m)', CountOK(m)'
  PROVE  MagazineInv'
<1>0. TypeOK /\ (\A u \in Threads : ThreadOK(u)) /\ \A o \in Magazines : MagazineOK(o) /\ CountOK(o)
  BY DEF MagazineInv
<1>a. None \notin Magazines
  BY MagazineAssumption
<1>1. ASSUME NEW u \in Threads \ {t} PROVE ThreadOK(u)'
  <2>1. th'[u] = th[u] /\ ThreadOK(u) /\ th[u].m \in Magazines \cup {None}
    BY <1>0 DEF TypeOK
  <2>2. CASE th[u].m = m
    <3>1. Mild(th[u].m) /\ ~confined /\ ~confined' /\ Allocating(u) /\ maker[th[u].m] = "app"
      BY <2>2
    <3> QED BY <3>1, <2>1, <1>0, SharedThread
  <2>3. CASE th[u].m # m
    <3>1. th[u].m # None => Same(th[u].m)
      BY <2>1, <2>3
    <3>2. \A v \in Threads : th'[v].m = th[u].m /\ th[u].m # None => th[v].m = th[u].m
      BY <2>3
    <3> QED BY <3>1, <3>2, <2>1, <1>0, FrameThread
  <2> QED BY <2>2, <2>3
<1>2. ASSUME NEW o \in Magazines \ {m} PROVE MagazineOK(o)' /\ CountOK(o)'
  <2>1. \A v \in Threads : th'[v].m = o \/ th[v].m = o => th'[v] = th[v]
    BY <1>a
  <2> QED BY <2>1, <1>0, FrameMagazine
<1> QED BY <1>1, <1>2 DEF MagazineInv

\* What is known of a thread t in the middle of an operation on m, and of the
\* others, whom the step does not change.
LEMMA Busy ==
  ASSUME MagazineInv, NEW t \in Threads, ~At(t, "idle")
  PROVE  \E m \in Magazines :
         /\ th[t].m = m /\ TypeOK /\ ThreadOK(t) /\ None \notin Magazines
         /\ MagazineOK(m) /\ CountOK(m) /\ Working(m)
         /\ th[t].x \in Proxies \cup {None} /\ th[t].k \in Closures
<1>1. TypeOK /\ ThreadOK(t) /\ None \notin Magazines
  BY MagazineAssumption DEF MagazineInv
<1>2. th[t].m \in Magazines /\ th[t].x \in Proxies \cup {None} /\ th[t].k \in Closures
  BY <1>1 DEF TypeOK, ThreadOK
<1> QED BY <1>1, <1>2 DEF MagazineInv, Working

\* The others on the magazine of t, when the step is mild to them.
LEMMA Others ==
  ASSUME MagazineInv, NEW t \in Threads, NEW m \in Magazines, th[t].m = m,
         Allocating(t) /\ maker[m] = "app" => Mild(m)
  PROVE  \A u \in Threads \ {t} : th[u].m = m =>
            Mild(m) /\ ~confined /\ Allocating(u) /\ maker[m] = "app"
<1>1. th[t].m # None
  BY MagazineAssumption
<1> QED BY <1>1, Sharing

\* A thread that had the magazine for itself returns: nobody is at work on it.
LEMMA Returned ==
  ASSUME NEW t \in Threads, NEW m \in Magazines, None \notin Magazines, th[t].m = m, th'[t] = Idle,
         \A u \in Threads \ {t} : th'[u] = th[u], Sole(t)
  PROVE  ~Working(m)' /\ ~Uncounted(m)'
BY DEF Working, Uncounted, Sole, Idle

\* Return, and what it makes of a thread.
LEMMA ReturnTyped ==
  ASSUME TypeOK, NEW t \in Threads, Return(t)
  PROVE  /\ th'[t] = Idle /\ \A u \in Threads \ {t} : th'[u] = th[u]
         /\ th' \in [Threads -> [pc : {"idle", "prepare", "error", "proxy", "get", "count", "free"},
                                 m : Magazines \cup {None}, k : Closures, x : Proxies \cup {None}]]
         /\ ThreadOK(t)' /\ th'[t].m = None
<1>1. Idle \in [pc : {"idle", "prepare", "error", "proxy", "get", "count", "free"},
                m : Magazines \cup {None}, k : Closures, x : Proxies \cup {None}]
  BY MagazineAssumption DEF Idle, Closures
<1>2. th'[t] = Idle /\ \A u \in Threads \ {t} : th'[u] = th[u]
  BY DEF Return, TypeOK
<1>3. th'[t].pc = "idle" /\ th'[t].m = None
  BY <1>2 DEF Idle
<1>4. ThreadOK(t)'
  BY <1>3 DEF ThreadOK, At
<1> QED BY <1>1, <1>2, <1>3, <1>4 DEF Return, TypeOK

\* Preparing the closures fails, or the magazine goes to its maker.
LEMMA PrepareStep == ASSUME MagazineInv, NEW t \in Threads, Prepare(t) PROVE MagazineInv'
<1>1. At(t, "prepare") /\ ~At(t, "idle") /\ ~Allocating(t) /\ th[t].pc = "prepare"
  BY DEF Prepare, At, Allocating
<1>2. PICK m \in Magazines :
         /\ th[t].m = m /\ TypeOK /\ ThreadOK(t) /\ None \notin Magazines
         /\ MagazineOK(m) /\ CountOK(m) /\ Working(m)
         /\ th[t].x \in Proxies \cup {None} /\ th[t].k \in Closures
  BY <1>1, Busy
<1>3. /\ confined' = confined /\ blocks' = blocks /\ maker' = maker /\ nextclosure' = nextclosure
      /\ globals' = globals /\ javaObject' = javaObject /\ disposed' = disposed /\ handles' = handles
      /\ pinned' = pinned
  BY DEF Prepare
<1>4. \A u \in Threads \ {t} : th'[u] = th[u]
  BY <1>2 DEF Prepare, GoTo, Return, TypeOK
<1>5. \A o \in Magazines \ {m} : Same(o)
  BY <1>2, <1>3 DEF Prepare, Same
<1>6. \A u \in Threads \ {t} : th[u].m = m =>
         Mild(m) /\ ~confined /\ Allocating(u) /\ maker[m] = "app"
  BY <1>1, <1>2, Others
<1>7. Sole(t) /\ Untouched(m) /\ maker[m] # "none" /\ blocks[m] = Blocks
  BY <1>1, <1>2 DEF ThreadOK
<1>8. nextclosure[m] = 0 /\ globals[m] = 0 /\ m \notin held /\ m \notin registered /\ m \notin disposed
      /\ \A h \in handles : h.m # m
  BY <1>7 DEF Untouched
<1>a. N \in Nat /\ N > 0 /\ "corrupt" \notin Blocks
  BY MagazineAssumption DEF Blocks
<1>9. CASE GoTo(t, "error") \/ GoTo(t, "proxy")
  <2> PICK pc \in {"error", "proxy"} : GoTo(t, pc) /\ UNCHANGED <<held, registered>> /\ (pc = "proxy" => maker[m] = "pool")
    <3>1. ~Return(t)
      BY <1>9, <1>2 DEF GoTo, Return, TypeOK, Idle
    <3>2. GoTo(t, "proxy") => ~GoTo(t, "error")
      BY <1>2 DEF GoTo, TypeOK
    <3> QED BY <1>2, <1>9, <3>1, <3>2 DEF Prepare
  <2>1. th'[t].pc = pc /\ th'[t].m = m /\ th'[t].x = th[t].x /\ th'[t].k = th[t].k
    BY <1>2 DEF GoTo, TypeOK
  <2>2. TypeOK'
    BY <1>2, <1>3 DEF TypeOK, GoTo
  <2>3. Sole(t)' /\ Untouched(m)' /\ Working(m)' /\ ~Uncounted(m)'
    BY <2>1, <1>2, <1>3, <1>4, <1>7 DEF Sole, Untouched, Working, Uncounted, At
  <2>4. ThreadOK(t)'
    BY <2>1, <2>3, <1>2, <1>3, <1>7, <1>8 DEF ThreadOK, At
  <2>5. MagazineOK(m)'
    BY <2>3, <1>2, <1>3, <1>7, <1>8, <1>a DEF MagazineOK
  <2>6. CountOK(m)'
    BY <2>3, <1>2, <1>3, <1>7, <1>8, <1>a DEF CountOK
  <2> QED BY <2>1, <2>2, <2>4, <2>5, <2>6, <1>2, <1>3, <1>4, <1>5, <1>6, Frame
<1>10. CASE maker[m] = "app" /\ Return(t) /\ held' = held \cup {m} /\ registered' = registered \cup {m}
  <2>1. th'[t] = Idle /\ ThreadOK(t)' /\ th'[t].m = None
    BY <1>10, <1>2, ReturnTyped
  <2>2. TypeOK'
    BY <1>2, <1>3, <1>10, ReturnTyped DEF TypeOK
  <2>3. ~Working(m)' /\ ~Uncounted(m)'
    BY <2>1, <1>2, <1>4, <1>7, Returned
  <2>4. MagazineOK(m)'
    BY <2>3, <1>3, <1>7, <1>8, <1>10, <1>a DEF MagazineOK
  <2>5. CountOK(m)'
    BY <2>3, <1>3, <1>7, <1>8, <1>a DEF CountOK
  <2> QED BY <2>1, <2>2, <2>4, <2>5, <1>2, <1>3, <1>4, <1>5, <1>6, Frame
<1> QED BY <1>2, <1>9, <1>10 DEF Prepare

\* error: frees what was allocated, and throws.
LEMMA ErrorStep == ASSUME MagazineInv, NEW t \in Threads, Error(t) PROVE MagazineInv'
<1>1. At(t, "error") /\ ~At(t, "idle") /\ ~Allocating(t)
  BY DEF Error, At, Allocating
<1>2. PICK m \in Magazines :
         /\ th[t].m = m /\ TypeOK /\ ThreadOK(t) /\ None \notin Magazines
         /\ MagazineOK(m) /\ CountOK(m) /\ Working(m)
         /\ th[t].x \in Proxies \cup {None} /\ th[t].k \in Closures
  BY <1>1, Busy
<1>3. /\ confined' = confined /\ held' = held /\ registered' = registered /\ nextclosure' = nextclosure
      /\ globals' = globals /\ javaObject' = javaObject /\ disposed' = disposed /\ handles' = handles
      /\ pinned' = pinned
  BY DEF Error
<1>4. Sole(t) /\ Untouched(m) /\ blocks[m] \subseteq Blocks
  BY <1>1, <1>2 DEF ThreadOK
<1>5. nextclosure[m] = 0 /\ globals[m] = 0 /\ m \notin held /\ m \notin registered /\ m \notin disposed
      /\ \A h \in handles : h.m # m
  BY <1>4 DEF Untouched
<1>6. maker'[m] = "none" /\ blocks'[m] = {} /\ \A o \in Magazines \ {m} : maker'[o] = maker[o] /\ blocks'[o] = blocks[o]
  BY <1>2, <1>4 DEF Error, TypeOK, Blocks
<1>7. th'[t] = Idle /\ ThreadOK(t)' /\ th'[t].m = None /\ \A u \in Threads \ {t} : th'[u] = th[u]
  BY <1>2, ReturnTyped DEF Error
<1>8. TypeOK'
  <2>1. maker' \in [Magazines -> {"none", "pool", "app"}]
    BY <1>2 DEF Error, TypeOK
  <2>2. blocks' \in [Magazines -> SUBSET (Blocks \cup {"corrupt"})]
    BY <1>2 DEF Error, TypeOK
  <2> QED BY <2>1, <2>2, <1>2, <1>3, ReturnTyped DEF TypeOK, Error
<1>9. \A o \in Magazines \ {m} : Same(o)
  BY <1>3, <1>6 DEF Same
<1>10. \A u \in Threads \ {t} : th[u].m = m =>
         Mild(m) /\ ~confined /\ Allocating(u) /\ maker[m] = "app"
  BY <1>1, <1>2, Others
<1>11. ~Working(m)' /\ ~Uncounted(m)'
  BY <1>2, <1>4, <1>7, Returned
<1>12. Untouched(m)'
  BY <1>3, <1>4 DEF Untouched
<1>13. MagazineOK(m)'
  BY <1>3, <1>5, <1>6, <1>11, <1>12 DEF MagazineOK
<1>14. CountOK(m)'
  BY <1>3, <1>5, <1>6, <1>11, MagazineAssumption DEF CountOK
<1> QED BY <1>2, <1>3, <1>7, <1>8, <1>9, <1>10, <1>13, <1>14, Frame

\* newClosureMagazine: each allocation may fail.
LEMMA NewStep ==
  ASSUME MagazineInv, NEW t \in Threads, NEW m \in Magazines, NEW by \in {"app", "pool"},
         NewClosureMagazine(t, m, by)
  PROVE  MagazineInv'
<1>1. TypeOK /\ ThreadOK(t) /\ MagazineOK(m) /\ CountOK(m) /\ None \notin Magazines
  BY MagazineAssumption DEF MagazineInv
<1>2. /\ confined' = confined /\ held' = held /\ registered' = registered /\ nextclosure' = nextclosure
      /\ globals' = globals /\ javaObject' = javaObject /\ disposed' = disposed /\ handles' = handles
      /\ pinned' = pinned /\ maker[m] = "none"
  BY DEF NewClosureMagazine
<1>3. Untouched(m) /\ ~Working(m) /\ th[t].m = None
  BY <1>1, <1>2 DEF MagazineOK, ThreadOK, NewClosureMagazine
<1>4. nextclosure[m] = 0 /\ globals[m] = 0 /\ m \notin held /\ m \notin registered /\ m \notin disposed
      /\ \A h \in handles : h.m # m
  BY <1>3 DEF Untouched
<1>5. PICK got \in SUBSET Blocks, pc \in {"prepare", "error"} :
        /\ blocks' = [blocks EXCEPT ![m] = got]
        /\ pc = "prepare" => got = Blocks
        /\ th' = [th EXCEPT ![t] = [pc |-> pc, m |-> m, k |-> 1, x |-> None]]
  BY DEF NewClosureMagazine
<1>7. th'[t] = [pc |-> pc, m |-> m, k |-> 1, x |-> None] /\ \A u \in Threads \ {t} : th'[u] = th[u]
  BY <1>1, <1>5 DEF TypeOK
<1>8. maker'[m] = by /\ blocks'[m] = got /\ \A o \in Magazines \ {m} : maker'[o] = maker[o] /\ blocks'[o] = blocks[o]
  BY <1>1, <1>5 DEF NewClosureMagazine, TypeOK
<1>9. TypeOK'
  <2>1. maker' \in [Magazines -> {"none", "pool", "app"}]
    BY <1>1 DEF NewClosureMagazine, TypeOK
  <2>2. blocks' \in [Magazines -> SUBSET (Blocks \cup {"corrupt"})]
    BY <1>1, <1>5 DEF TypeOK
  <2>3. 1 \in Closures
    BY MagazineAssumption DEF Closures
  <2> QED BY <2>1, <2>2, <2>3, <1>1, <1>2, <1>5 DEF TypeOK
<1>10. \A o \in Magazines \ {m} : Same(o)
  BY <1>2, <1>8 DEF Same
<1>11. \A u \in Threads \ {t} : th[u].m # m
  BY <1>3 DEF Working
<1>12. Sole(t)' /\ Untouched(m)' /\ Working(m)' /\ ~Uncounted(m)'
  BY <1>2, <1>3, <1>7, <1>11 DEF Sole, Untouched, Working, Uncounted, At
<1>13. ThreadOK(t)'
  <2>1. th'[t].m = m /\ th'[t].pc = pc /\ m # None
    BY <1>1, <1>7
  <2>2. got \subseteq Blocks
    BY <1>5
  <2> QED BY <2>1, <2>2, <1>5, <1>8, <1>12 DEF ThreadOK, At
<1>14. MagazineOK(m)'
  BY <1>2, <1>4, <1>5, <1>8, <1>12 DEF MagazineOK, Blocks
<1>15. CountOK(m)'
  BY <1>2, <1>4, <1>12, MagazineAssumption DEF CountOK
<1> QED BY <1>1, <1>2, <1>3, <1>7, <1>9, <1>10, <1>11, <1>13, <1>14, <1>15, Frame

\* ClosureMagazine.allocate begins.
LEMMA AllocateStep ==
  ASSUME MagazineInv, NEW t \in Threads, NEW m \in Magazines, NEW x \in Proxies, Allocate(t, m, x)
  PROVE  MagazineInv'
<1>1. TypeOK /\ ThreadOK(t) /\ MagazineOK(m) /\ CountOK(m) /\ None \notin Magazines /\ x # None
  BY MagazineAssumption DEF MagazineInv
<1>2. /\ confined' = confined /\ held' = held /\ registered' = registered /\ nextclosure' = nextclosure
      /\ globals' = globals /\ javaObject' = javaObject /\ disposed' = disposed /\ handles' = handles
      /\ maker' = maker /\ blocks' = blocks /\ pinned' = pinned
      /\ maker[m] = "app" /\ m \in held /\ m \notin disposed /\ (confined => Within(m) = {})
  BY DEF Allocate
<1>3. th[t].m = None
  BY <1>1 DEF ThreadOK, Allocate
<1>4. th'[t] = [pc |-> "get", m |-> m, k |-> 1, x |-> x] /\ \A u \in Threads \ {t} : th'[u] = th[u]
  BY <1>1 DEF Allocate, TypeOK
<1>5. m \in registered /\ blocks[m] = Blocks
  BY <1>1, <1>2 DEF MagazineOK
<1>6. TypeOK'
  <2>1. 1 \in Closures
    BY MagazineAssumption DEF Closures
  <2> QED BY <2>1, <1>1, <1>2 DEF TypeOK, Allocate
<1>7. \A o \in Magazines : Same(o)
  BY <1>2 DEF Same
<1>8. ASSUME NEW u \in Threads \ {t}, th[u].m = m
      PROVE  Mild(m) /\ ~confined /\ Allocating(u) /\ maker[m] = "app"
  <2>1. Mild(m) /\ maker[m] = "app" /\ m # None
    BY <1>1, <1>2 DEF Mild
  <2>2. ~confined
    BY <1>2, <1>8 DEF Within
  <2>3. TypeOK /\ ThreadOK(u)
    BY DEF MagazineInv
  <2>4. Allocating(u)
    BY <2>1, <2>3, <1>2, <1>8 DEF ThreadOK, Allocating, At, TypeOK, Untouched
  <2> QED BY <2>1, <2>2, <2>4
<1>9. confined => Sole(t)'
  BY <1>2, <1>4 DEF Sole, Within
<1>10. ThreadOK(t)'
  <2>1. th'[t].m = m /\ th'[t].pc = "get" /\ th'[t].x = x /\ m # None
    BY <1>1, <1>4
  <2> QED BY <2>1, <1>1, <1>2, <1>5, <1>9 DEF ThreadOK, At
<1>11. Working(m)'
  BY <1>4 DEF Working
<1>12. Uncounted(m)' <=> Uncounted(m)
  BY <1>3, <1>4, <1>1 DEF Uncounted, At
<1>13. MagazineOK(m)'
  BY <1>1, <1>2, <1>5, <1>11 DEF MagazineOK
<1>14. CountOK(m)'
  BY <1>1, <1>2, <1>5, <1>11, <1>12 DEF CountOK
<1> QED BY <1>1, <1>2, <1>3, <1>4, <1>6, <1>7, <1>8, <1>10, <1>13, <1>14, Frame

\* The next proxy of a ClosurePool's Magazine.
LEMMA NextProxyStep ==
  ASSUME MagazineInv, NEW t \in Threads, NEW x \in Proxies, NextProxy(t, x) PROVE MagazineInv'
<1>1. At(t, "proxy") /\ ~At(t, "idle") /\ ~Allocating(t) /\ x # None
  BY MagazineAssumption DEF NextProxy, At, Allocating
<1>2. PICK m \in Magazines :
         /\ th[t].m = m /\ TypeOK /\ ThreadOK(t) /\ None \notin Magazines
         /\ MagazineOK(m) /\ CountOK(m) /\ Working(m)
         /\ th[t].x \in Proxies \cup {None} /\ th[t].k \in Closures
  BY <1>1, Busy
<1>3. /\ confined' = confined /\ held' = held /\ registered' = registered /\ nextclosure' = nextclosure
      /\ globals' = globals /\ javaObject' = javaObject /\ disposed' = disposed /\ handles' = handles
      /\ maker' = maker /\ blocks' = blocks /\ pinned' = pinned
  BY DEF NextProxy
<1>4. /\ Sole(t) /\ maker[m] = "pool" /\ blocks[m] = Blocks
      /\ m \notin held /\ m \notin registered /\ m \notin disposed
  BY <1>1, <1>2 DEF ThreadOK
<1>5. /\ th'[t].pc = "get" /\ th'[t].x = x /\ th'[t].m = m
      /\ \A u \in Threads \ {t} : th'[u] = th[u]
  BY <1>2 DEF NextProxy, TypeOK
<1>6. TypeOK'
  BY <1>2, <1>3 DEF TypeOK, NextProxy
<1>7. \A o \in Magazines : Same(o)
  BY <1>3 DEF Same
<1>8. \A u \in Threads \ {t} : th[u].m = m =>
         Mild(m) /\ ~confined /\ Allocating(u) /\ maker[m] = "app"
  BY <1>1, <1>2, Others
<1>9. Sole(t)' /\ Working(m)' /\ ~Uncounted(m) /\ ~Uncounted(m)'
  BY <1>1, <1>2, <1>4, <1>5 DEF Sole, Working, Uncounted, At
<1>10. ThreadOK(t)'
  BY <1>1, <1>2, <1>3, <1>4, <1>5, <1>9 DEF ThreadOK, At
<1>11. MagazineOK(m)'
  BY <1>2, <1>3, <1>4, <1>9 DEF MagazineOK
<1>12. CountOK(m)'
  BY <1>2, <1>3, <1>4, <1>9 DEF CountOK
<1> QED BY <1>2, <1>3, <1>5, <1>6, <1>7, <1>8, <1>10, <1>11, <1>12, Frame

\* closureMagazineGet: a global reference to the proxy.
LEMMA GetStep == ASSUME MagazineInv, NEW t \in Threads, Get(t) PROVE MagazineInv'
<1>1. At(t, "get") /\ ~At(t, "idle") /\ Allocating(t)
  BY DEF Get, At, Allocating
<1>2. PICK m \in Magazines :
         /\ th[t].m = m /\ TypeOK /\ ThreadOK(t) /\ None \notin Magazines
         /\ MagazineOK(m) /\ CountOK(m) /\ Working(m)
         /\ th[t].x \in Proxies \cup {None} /\ th[t].k \in Closures
  BY <1>1, Busy
<1>3. /\ confined' = confined /\ held' = held /\ registered' = registered /\ nextclosure' = nextclosure
      /\ disposed' = disposed /\ handles' = handles /\ maker' = maker /\ blocks' = blocks /\ pinned' = pinned
  BY DEF Get
<1>4. nextclosure[m] \in Nat /\ globals[m] \in Int /\ N \in Nat
  BY <1>2, MagazineAssumption DEF TypeOK
<1>5. PICK k \in Closures : k = nextclosure[m] + 1
  BY <1>2, <1>4 DEF Get, Closures
<1>6. /\ th'[t].pc = "count" /\ th'[t].x = th[t].x /\ th'[t].m = m /\ th'[t].k = k
      /\ \A u \in Threads \ {t} : th'[u] = th[u]
  BY <1>2, <1>5 DEF Get, TypeOK
<1>7. /\ globals'[m] = globals[m] + 1 /\ javaObject'[m][k] = th[t].x
      /\ \A j \in Closures \ {k} : javaObject'[m][j] = javaObject[m][j]
      /\ \A o \in Magazines \ {m} : globals'[o] = globals[o] /\ javaObject'[o] = javaObject[o]
  BY <1>2, <1>5 DEF Get, TypeOK
<1>8. TypeOK'
  <2>1. javaObject' \in [Magazines -> [Closures -> Proxies \cup {None}]]
    BY <1>2, <1>5 DEF TypeOK, Get
  <2>2. globals' \in [Magazines -> Int]
    BY <1>2 DEF TypeOK, Get
  <2>3. th' \in [Threads -> [pc : {"idle", "prepare", "error", "proxy", "get", "count", "free"},
                             m : Magazines \cup {None}, k : Closures, x : Proxies \cup {None}]]
    BY <1>2, <1>5 DEF TypeOK, Get
  <2> QED BY <2>1, <2>2, <2>3, <1>2, <1>3 DEF TypeOK
<1>9. \A o \in Magazines \ {m} : Same(o)
  BY <1>3, <1>7 DEF Same
<1>10. \A u \in Threads \ {t} : th[u].m = m =>
         Mild(m) /\ ~confined /\ Allocating(u) /\ maker[m] = "app"
  <2>1. Mild(m)
    BY <1>3 DEF Mild
  <2> QED BY <2>1, <1>2, Others
<1>11. (Sole(t) => Sole(t)') /\ Working(m)' /\ Uncounted(m)'
  BY <1>2, <1>6 DEF Sole, Working, Uncounted, At
<1>12. confined => Sole(t)
  BY <1>1, <1>2 DEF ThreadOK
<1>13. Sole(t) => ~Uncounted(m)
  BY <1>1, <1>2 DEF Sole, Uncounted, At
<1>14. ThreadOK(t)'
  BY <1>1, <1>2, <1>3, <1>5, <1>6, <1>7, <1>11 DEF ThreadOK, At
<1>15. MagazineOK(m)'
  <2>1. blocks[m] = Blocks /\ maker[m] # "none"
    BY <1>1, <1>2 DEF ThreadOK
  <2> QED BY <2>1, <1>2, <1>3, <1>11 DEF MagazineOK
<1>16. CountOK(m)'
  <2> SUFFICES ASSUME confined PROVE CountOK(m)'
    BY <1>3 DEF CountOK
  <2>1. globals'[m] = nextclosure'[m] + 1 /\ nextclosure'[m] <= N
    BY <1>2, <1>3, <1>4, <1>7, <1>12, <1>13 DEF CountOK
  <2>2. ASSUME NEW h \in handles', h.m = m
        PROVE  h.k <= nextclosure'[m] /\ (blocks'[m] = Blocks => javaObject'[m][h.k] = h.x)
    <3>1. h \in handles /\ h.k \in Closures /\ h.k <= nextclosure[m]
          /\ (blocks[m] = Blocks => javaObject[m][h.k] = h.x)
      BY <2>2, <1>2, <1>3 DEF CountOK, TypeOK
    <3>2. h.k # k
      BY <3>1, <1>4, <1>5 DEF Closures
    <3> QED BY <3>1, <3>2, <1>3, <1>7
  <2> QED BY <2>1, <2>2, <1>11 DEF CountOK
<1> QED BY <1>2, <1>3, <1>6, <1>8, <1>9, <1>10, <1>14, <1>15, <1>16, Frame

\* NewGlobalRef fails.
LEMMA GetFailsStep == ASSUME MagazineInv, NEW t \in Threads, GetFails(t) PROVE MagazineInv'
<1>1. At(t, "get") /\ ~At(t, "idle") /\ ~At(t, "count") /\ Allocating(t)
  BY DEF GetFails, At, Allocating
<1>2. PICK m \in Magazines :
         /\ th[t].m = m /\ TypeOK /\ ThreadOK(t) /\ None \notin Magazines
         /\ MagazineOK(m) /\ CountOK(m) /\ Working(m)
         /\ th[t].x \in Proxies \cup {None} /\ th[t].k \in Closures
  BY <1>1, Busy
<1>3. /\ confined' = confined /\ held' = held /\ registered' = registered /\ nextclosure' = nextclosure
      /\ disposed' = disposed /\ handles' = handles /\ maker' = maker /\ blocks' = blocks /\ pinned' = pinned
      /\ globals' = globals
  BY DEF GetFails
<1>4. nextclosure[m] \in Nat /\ globals[m] \in Int /\ N \in Nat
  BY <1>2, MagazineAssumption DEF TypeOK
<1>5. PICK k \in Closures : k = nextclosure[m] + 1
  BY <1>2, <1>4 DEF GetFails, Closures
<1>6. th'[t] = Idle /\ ThreadOK(t)' /\ th'[t].m = None /\ \A u \in Threads \ {t} : th'[u] = th[u]
  BY <1>2, ReturnTyped DEF GetFails
<1>7. /\ \A j \in Closures \ {k} : javaObject'[m][j] = javaObject[m][j]
      /\ \A o \in Magazines \ {m} : javaObject'[o] = javaObject[o]
  BY <1>2, <1>5 DEF GetFails, TypeOK
<1>8. TypeOK'
  <2>1. javaObject' \in [Magazines -> [Closures -> Proxies \cup {None}]]
    BY <1>2, <1>5 DEF TypeOK, GetFails
  <2> QED BY <2>1, <1>2, <1>3, ReturnTyped DEF TypeOK, GetFails
<1>9. \A o \in Magazines \ {m} : Same(o)
  BY <1>3, <1>7 DEF Same
<1>10. \A u \in Threads \ {t} : th[u].m = m =>
         Mild(m) /\ ~confined /\ Allocating(u) /\ maker[m] = "app"
  <2>1. Mild(m)
    BY <1>3 DEF Mild
  <2> QED BY <2>1, <1>2, Others
<1>11. /\ confined => Sole(t)
       /\ blocks[m] = Blocks /\ maker[m] # "none" /\ m \notin disposed
       /\ maker[m] = "app" => m \in registered
  BY <1>1, <1>2 DEF ThreadOK, TypeOK
<1>12. Sole(t) => ~Uncounted(m) /\ ~Working(m)' /\ ~Uncounted(m)'
  <2>1. Sole(t) => ~Uncounted(m)
    BY <1>1, <1>2 DEF Sole, Uncounted
  <2> QED BY <2>1, <1>2, <1>6, Returned
<1>13. MagazineOK(m)'
  BY <1>2, <1>3, <1>11 DEF MagazineOK
<1>14. CountOK(m)'
  <2> SUFFICES ASSUME confined PROVE CountOK(m)'
    BY <1>3 DEF CountOK
  <2>1. globals'[m] = nextclosure'[m] /\ nextclosure'[m] <= N
    BY <1>2, <1>3, <1>4, <1>11, <1>12 DEF CountOK
  <2>2. ASSUME NEW h \in handles', h.m = m
        PROVE  h.k <= nextclosure'[m] /\ (blocks'[m] = Blocks => javaObject'[m][h.k] = h.x)
    <3>1. h \in handles /\ h.k \in Closures /\ h.k <= nextclosure[m]
          /\ (blocks[m] = Blocks => javaObject[m][h.k] = h.x)
      BY <2>2, <1>2, <1>3 DEF CountOK, TypeOK
    <3>2. h.k # k
      BY <3>1, <1>4, <1>5 DEF Closures
    <3> QED BY <3>1, <3>2, <1>3, <1>7
  <2> QED BY <2>1, <2>2, <1>3, <1>4, <1>11, <1>12 DEF CountOK
<1> QED BY <1>2, <1>3, <1>6, <1>8, <1>9, <1>10, <1>13, <1>14, Frame

\* No closure is left.
LEMMA GetNoneStep == ASSUME MagazineInv, NEW t \in Threads, GetNone(t) PROVE MagazineInv'
<1>1. At(t, "get") /\ ~At(t, "idle") /\ ~At(t, "count")
  BY DEF GetNone, At
<1>2. PICK m \in Magazines :
         /\ th[t].m = m /\ TypeOK /\ ThreadOK(t) /\ None \notin Magazines
         /\ MagazineOK(m) /\ CountOK(m) /\ Working(m)
         /\ th[t].x \in Proxies \cup {None} /\ th[t].k \in Closures
  BY <1>1, Busy
<1>3. /\ confined' = confined /\ globals' = globals /\ javaObject' = javaObject /\ nextclosure' = nextclosure
      /\ disposed' = disposed /\ handles' = handles /\ maker' = maker /\ blocks' = blocks /\ pinned' = pinned
  BY DEF GetNone
<1>4. nextclosure[m] \in Nat /\ globals[m] \in Int
  BY <1>2 DEF TypeOK
<1>5. \/ maker[m] = "pool" /\ held' = held \cup {m} /\ registered' = registered \cup {m}
      \/ maker[m] = "app" /\ held' = held /\ registered' = registered
  BY <1>1, <1>2 DEF GetNone, ThreadOK, TypeOK
<1>6. th'[t] = Idle /\ ThreadOK(t)' /\ th'[t].m = None /\ \A u \in Threads \ {t} : th'[u] = th[u]
  BY <1>2, ReturnTyped DEF GetNone
<1>7. TypeOK'
  BY <1>2, <1>3, <1>5, ReturnTyped DEF TypeOK, GetNone
<1>8. \A o \in Magazines \ {m} : Same(o)
  BY <1>3, <1>5 DEF Same
<1>9. \A u \in Threads \ {t} : th[u].m = m =>
         Mild(m) /\ ~confined /\ Allocating(u) /\ maker[m] = "app"
  <2>1. maker[m] = "app" => Mild(m)
    BY <1>3, <1>5 DEF Mild
  <2> QED BY <2>1, <1>2, Others
<1>10. /\ confined => Sole(t)
       /\ blocks[m] = Blocks /\ maker[m] # "none" /\ m \notin disposed
       /\ maker[m] = "app" => m \in registered
  BY <1>1, <1>2 DEF ThreadOK, TypeOK
<1>11. Sole(t) => ~Uncounted(m) /\ ~Working(m)' /\ ~Uncounted(m)'
  <2>1. Sole(t) => ~Uncounted(m)
    BY <1>1, <1>2 DEF Sole, Uncounted
  <2> QED BY <2>1, <1>2, <1>6, Returned
<1>12. MagazineOK(m)'
  BY <1>2, <1>3, <1>5, <1>10 DEF MagazineOK
<1>13. CountOK(m)'
  BY <1>2, <1>3, <1>4, <1>10, <1>11 DEF CountOK
<1> QED BY <1>2, <1>3, <1>6, <1>7, <1>8, <1>9, <1>12, <1>13, Frame

\* nextclosure++
LEMMA CountStep == ASSUME MagazineInv, NEW t \in Threads, Count(t) PROVE MagazineInv'
<1>1. At(t, "count") /\ ~At(t, "idle")
  BY DEF Count, At
<1>2. PICK m \in Magazines :
         /\ th[t].m = m /\ TypeOK /\ ThreadOK(t) /\ None \notin Magazines
         /\ MagazineOK(m) /\ CountOK(m) /\ Working(m)
         /\ th[t].x \in Proxies \cup {None} /\ th[t].k \in Closures
  BY <1>1, Busy
<1>3. /\ confined' = confined /\ globals' = globals /\ javaObject' = javaObject /\ pinned' = pinned
      /\ disposed' = disposed /\ maker' = maker /\ blocks' = blocks /\ held' = held /\ registered' = registered
  BY DEF Count
<1>4. nextclosure[m] \in Nat /\ globals[m] \in Int /\ N \in Nat
  BY <1>2, MagazineAssumption DEF TypeOK
<1>5. nextclosure'[m] = nextclosure[m] + 1 /\ \A o \in Magazines \ {m} : nextclosure'[o] = nextclosure[o]
  BY <1>2 DEF Count, TypeOK
<1>6. /\ blocks[m] = Blocks /\ maker[m] # "none" /\ th[t].x # None /\ m \notin disposed
      /\ maker[m] = "app" => m \in registered
      /\ maker[m] = "pool" => Sole(t) /\ m \notin held /\ m \notin registered
      /\ confined => Sole(t) /\ th[t].k = nextclosure[m] + 1 /\ javaObject[m][th[t].k] = th[t].x
  BY <1>1, <1>2 DEF ThreadOK, TypeOK
<1>7. handles' = handles \cup {[m |-> m, k |-> th[t].k, x |-> th[t].x]}
  BY <1>2 DEF Count
<1>8. /\ \A u \in Threads \ {t} : th'[u] = th[u]
      /\ \/ maker[m] = "pool" /\ th'[t].pc = "proxy" /\ th'[t].m = m
         \/ maker[m] = "app" /\ th'[t] = Idle /\ th'[t].m = None
      /\ th' \in [Threads -> [pc : {"idle", "prepare", "error", "proxy", "get", "count", "free"},
                              m : Magazines \cup {None}, k : Closures, x : Proxies \cup {None}]]
  <2>1. CASE maker[m] = "pool"
    BY <2>1, <1>2 DEF Count, GoTo, TypeOK
  <2>2. CASE maker[m] = "app"
    BY <2>2, <1>2, ReturnTyped DEF Count
  <2> QED BY <2>1, <2>2, <1>2, <1>6 DEF TypeOK
<1>9. TypeOK'
  <2>1. nextclosure' \in [Magazines -> Nat]
    BY <1>2 DEF Count, TypeOK
  <2>2. handles' \in SUBSET [m : Magazines, k : Closures, x : Proxies]
    BY <1>2, <1>6, <1>7 DEF TypeOK
  <2> QED BY <2>1, <2>2, <1>2, <1>3, <1>8 DEF TypeOK
<1>10. \A o \in Magazines \ {m} : Same(o)
  BY <1>3, <1>5, <1>7 DEF Same
<1>11. \A u \in Threads \ {t} : th[u].m = m =>
         Mild(m) /\ ~confined /\ Allocating(u) /\ maker[m] = "app"
  <2>1. Mild(m)
    BY <1>3 DEF Mild
  <2> QED BY <2>1, <1>2, Others
<1>12. Uncounted(m) /\ (Sole(t) => ~Uncounted(m)')
  BY <1>1, <1>2, <1>8 DEF Sole, Uncounted, At, Idle
<1>13. ThreadOK(t)'
  <2>1. CASE maker[m] = "pool"
    <3>1. Sole(t)' /\ th'[t].pc = "proxy" /\ th'[t].m = m
      BY <2>1, <1>2, <1>6, <1>8 DEF Sole
    <3> QED BY <2>1, <3>1, <1>2, <1>3, <1>6 DEF ThreadOK, At
  <2>2. CASE maker[m] = "app"
    BY <2>2, <1>8 DEF ThreadOK, At, Idle
  <2> QED BY <2>1, <2>2, <1>8
<1>14. MagazineOK(m)'
  BY <1>2, <1>3, <1>6 DEF MagazineOK
<1>15. CountOK(m)'
  <2> SUFFICES ASSUME confined PROVE CountOK(m)'
    BY <1>3 DEF CountOK
  <2>1. globals'[m] = nextclosure'[m]
    BY <1>2, <1>3, <1>4, <1>5, <1>12 DEF CountOK
  <2>2. nextclosure'[m] <= N
    BY <1>2, <1>4, <1>5, <1>6 DEF Closures
  <2>3. ASSUME NEW h \in handles', h.m = m
        PROVE  h.k <= nextclosure'[m] /\ (blocks'[m] = Blocks => javaObject'[m][h.k] = h.x)
    <3>1. CASE h \in handles
      <4>1. h.k \in Closures /\ h.k <= nextclosure[m] /\ (blocks[m] = Blocks => javaObject[m][h.k] = h.x)
        BY <3>1, <2>3, <1>2 DEF CountOK, TypeOK
      <4> QED BY <4>1, <1>3, <1>4, <1>5 DEF Closures
    <3>2. CASE h \notin handles
      <4>1. h.k = th[t].k /\ h.x = th[t].x
        BY <3>2, <2>3, <1>7
      <4> QED BY <4>1, <1>3, <1>4, <1>5, <1>6
    <3> QED BY <3>1, <3>2
  <2> QED BY <2>1, <2>2, <2>3, <1>3, <1>4, <1>5, <1>6, <1>12 DEF CountOK
<1> QED BY <1>2, <1>3, <1>8, <1>9, <1>10, <1>11, <1>13, <1>14, <1>15, Frame

\* Only what the application and the pools hold may change, and shrink.
LEMMA LessHeld ==
  ASSUME MagazineInv, held' \in SUBSET held,
         UNCHANGED <<pinned, confined, maker, blocks, nextclosure, javaObject, globals,
                     registered, disposed, handles, th>>
  PROVE  MagazineInv'
<1>1. TypeOK'
  BY DEF MagazineInv, TypeOK
<1>2. ASSUME NEW t \in Threads PROVE ThreadOK(t)'
  BY <1>2 DEF MagazineInv, ThreadOK, At, Sole, Untouched
<1>3. ASSUME NEW m \in Magazines PROVE MagazineOK(m)'
  BY <1>3 DEF MagazineInv, MagazineOK, Working, Untouched
<1>4. ASSUME NEW m \in Magazines PROVE CountOK(m)'
  BY <1>4 DEF MagazineInv, CountOK, Working, Uncounted, At
<1> QED BY <1>1, <1>2, <1>3, <1>4 DEF MagazineInv

\* The magazine is disposed of.
LEMMA DisposeStep ==
  ASSUME MagazineInv, NEW t \in Threads, NEW m \in Magazines, Dispose(t, m) PROVE MagazineInv'
<1>1. TypeOK /\ ThreadOK(t) /\ MagazineOK(m) /\ CountOK(m) /\ None \notin Magazines
  BY MagazineAssumption DEF MagazineInv
<1>2. /\ confined' = confined /\ held' = held /\ registered' = registered /\ nextclosure' = nextclosure
      /\ globals' = globals /\ javaObject' = javaObject /\ disposed' = disposed \cup {m} /\ handles' = handles
      /\ maker' = maker /\ blocks' = blocks /\ pinned' = pinned
      /\ maker[m] = "app" /\ m \in held /\ th[t].pc = "idle" /\ \A u \in Within(m) : At(u, "free")
  BY DEF Dispose, At
<1>3. CASE m \in disposed
  <2>1. disposed' = disposed /\ th' = th
    BY <1>2, <1>3 DEF Dispose
  <2> QED BY <2>1, <1>2, LessHeld
<1>4. CASE m \notin disposed
  <2>1. th[t].m = None /\ m \in registered /\ blocks[m] = Blocks
    BY <1>1, <1>2, <1>4 DEF ThreadOK, MagazineOK, At
  <2>2. th' = [th EXCEPT ![t] = [pc |-> "free", m |-> m, k |-> 1, x |-> None]]
    BY <1>4 DEF Dispose
  <2>3. th'[t] = [pc |-> "free", m |-> m, k |-> 1, x |-> None] /\ \A u \in Threads \ {t} : th'[u] = th[u]
    BY <2>2, <1>1 DEF TypeOK
  <2>4. \A u \in Threads : th[u].m # m
    <3>1. SUFFICES ASSUME NEW u \in Threads, th[u].m = m PROVE FALSE
      OBVIOUS
    <3>2. At(u, "free") /\ ThreadOK(u)
      BY <3>1, <1>2 DEF Within, MagazineInv
    <3> QED BY <3>1, <3>2, <1>4 DEF ThreadOK
  <2>5. TypeOK'
    <3>1. 1 \in Closures
      BY MagazineAssumption DEF Closures
    <3> QED BY <3>1, <2>2, <1>1, <1>2 DEF TypeOK
  <2>6. \A o \in Magazines \ {m} : Same(o)
    BY <1>2 DEF Same
  <2>7. Sole(t)' /\ Working(m)' /\ ~Working(m) /\ ~Uncounted(m) /\ ~Uncounted(m)'
    BY <2>3, <2>4 DEF Sole, Working, Uncounted, At
  <2>8. ThreadOK(t)'
    <3>1. th'[t].m = m /\ th'[t].pc = "free" /\ m # None
      BY <2>3, <1>1
    <3> QED BY <3>1, <2>1, <2>7, <1>1, <1>2 DEF ThreadOK, At
  <2>9. MagazineOK(m)'
    BY <2>1, <2>7, <1>1, <1>2 DEF MagazineOK
  <2>10. CountOK(m)'
    BY <2>1, <2>7, <1>1, <1>2 DEF CountOK
  <2> QED BY <2>1, <2>3, <2>4, <2>5, <2>6, <2>8, <2>9, <2>10, <1>1, <1>2, Frame
<1> QED BY <1>3, <1>4
\* What freeing a magazine that is there does.
LEMMA Freeing ==
  ASSUME TypeOK, NEW m \in Magazines, FreeClosureMagazine(m), blocks[m] = Blocks
  PROVE  /\ blocks'[m] = {} /\ globals'[m] = globals[m] - nextclosure[m]
         /\ \A o \in Magazines \ {m} : blocks'[o] = blocks[o] /\ globals'[o] = globals[o]
         /\ blocks' \in [Magazines -> SUBSET (Blocks \cup {"corrupt"})]
         /\ globals' \in [Magazines -> Int]
<1>1. Freed(m) = {}
  BY DEF Freed
<1>2. blocks' = [blocks EXCEPT ![m] = {}] /\ globals' = [globals EXCEPT ![m] = globals[m] - nextclosure[m]]
  BY <1>1 DEF FreeClosureMagazine
<1>3. globals[m] \in Int /\ nextclosure[m] \in Nat
  BY DEF TypeOK
<1> QED BY <1>2, <1>3 DEF TypeOK

\* freeClosureMagazine
LEMMA FreeStep == ASSUME MagazineInv, NEW t \in Threads, Free(t) PROVE MagazineInv'
<1>1. At(t, "free") /\ ~At(t, "idle") /\ ~At(t, "count") /\ ~Allocating(t)
  BY DEF Free, At, Allocating
<1>2. PICK m \in Magazines :
         /\ th[t].m = m /\ TypeOK /\ ThreadOK(t) /\ None \notin Magazines
         /\ MagazineOK(m) /\ CountOK(m) /\ Working(m)
         /\ th[t].x \in Proxies \cup {None} /\ th[t].k \in Closures
  BY <1>1, Busy
<1>3. /\ confined' = confined /\ held' = held /\ registered' = registered /\ nextclosure' = nextclosure
      /\ javaObject' = javaObject /\ disposed' = disposed /\ handles' = handles
      /\ maker' = maker /\ pinned' = pinned
  BY DEF Free
<1>4. Sole(t) /\ maker[m] = "app" /\ m \in registered /\ m \in disposed /\ blocks[m] = Blocks
  BY <1>1, <1>2 DEF ThreadOK
<1>5. th'[t] = Idle /\ ThreadOK(t)' /\ th'[t].m = None /\ \A u \in Threads \ {t} : th'[u] = th[u]
  BY <1>2, ReturnTyped DEF Free
<1>6. /\ blocks'[m] = {} /\ globals'[m] = globals[m] - nextclosure[m]
      /\ \A o \in Magazines \ {m} : blocks'[o] = blocks[o] /\ globals'[o] = globals[o]
      /\ blocks' \in [Magazines -> SUBSET (Blocks \cup {"corrupt"})]
      /\ globals' \in [Magazines -> Int]
  BY <1>2, <1>4, Freeing DEF Free
<1>7. TypeOK'
  BY <1>2, <1>3, <1>6, ReturnTyped DEF TypeOK, Free
<1>8. \A o \in Magazines \ {m} : Same(o)
  BY <1>3, <1>6 DEF Same
<1>9. \A u \in Threads \ {t} : th[u].m = m =>
         Mild(m) /\ ~confined /\ Allocating(u) /\ maker[m] = "app"
  BY <1>1, <1>2, Others
<1>10. ~Uncounted(m) /\ ~Working(m)' /\ ~Uncounted(m)'
  <2>1. ~Uncounted(m)
    BY <1>1, <1>2, <1>4 DEF Sole, Uncounted
  <2> QED BY <2>1, <1>2, <1>4, <1>5, Returned
<1>11. {} # Blocks
  BY DEF Blocks
<1>12. MagazineOK(m)'
  BY <1>2, <1>3, <1>4, <1>6 DEF MagazineOK
<1>13. CountOK(m)'
  <2>1. nextclosure[m] \in Nat /\ globals[m] \in Int
    BY <1>2 DEF TypeOK
  <2> QED BY <2>1, <1>2, <1>3, <1>4, <1>6, <1>10, <1>11 DEF CountOK
<1> QED BY <1>2, <1>3, <1>5, <1>7, <1>8, <1>9, <1>12, <1>13, Frame

\* The Cleaner thunk of a magazine.
LEMMA CleanStep == ASSUME MagazineInv, NEW m \in Magazines, Clean(m) PROVE MagazineInv'
<1>1. TypeOK /\ (\A u \in Threads : ThreadOK(u)) /\ (\A o \in Magazines : MagazineOK(o) /\ CountOK(o))
      /\ None \notin Magazines
  BY MagazineAssumption DEF MagazineInv
<1>2. /\ confined' = confined /\ held' = held /\ nextclosure' = nextclosure /\ javaObject' = javaObject
      /\ handles' = handles /\ maker' = maker /\ pinned' = pinned /\ th' = th
      /\ registered' = registered \ {m} /\ m \in registered /\ m \notin held
  BY DEF Clean
<1>3. \A u \in Threads : th[u].m # m
  BY DEF Clean, Within
<1>4. ~Working(m) /\ ~Working(m)' /\ ~Uncounted(m) /\ ~Uncounted(m)'
  BY <1>2, <1>3 DEF Working, Uncounted
<1>5. maker[m] # "none"
  BY <1>1, <1>2 DEF MagazineOK, Untouched
<1>6. {} # Blocks /\ nextclosure[m] \in Nat /\ globals[m] \in Int
  BY <1>1 DEF Blocks, TypeOK
<1>7. /\ TypeOK' /\ MagazineOK(m)' /\ CountOK(m)'
      /\ \A o \in Magazines \ {m} : Same(o)
  <2>1. CASE m \notin disposed /\ FreeClosureMagazine(m) /\ disposed' = disposed \cup {m}
    <3>1. blocks[m] = Blocks
      BY <2>1, <1>1, <1>2 DEF MagazineOK
    <3>2. /\ blocks'[m] = {} /\ globals'[m] = globals[m] - nextclosure[m]
          /\ \A o \in Magazines \ {m} : blocks'[o] = blocks[o] /\ globals'[o] = globals[o]
          /\ blocks' \in [Magazines -> SUBSET (Blocks \cup {"corrupt"})]
          /\ globals' \in [Magazines -> Int]
      BY <2>1, <3>1, <1>1, Freeing
    <3>3. TypeOK'
      BY <2>1, <3>2, <1>1, <1>2 DEF TypeOK
    <3>4. \A o \in Magazines \ {m} : Same(o)
      BY <2>1, <3>2, <1>2 DEF Same
    <3>5. MagazineOK(m)'
      BY <2>1, <3>2, <1>1, <1>2, <1>5 DEF MagazineOK
    <3>6. CountOK(m)'
      BY <3>1, <3>2, <1>1, <1>2, <1>4, <1>6 DEF CountOK
    <3> QED BY <3>3, <3>4, <3>5, <3>6
  <2>2. CASE (m \in disposed \/ maker[m] = "pool") /\ UNCHANGED <<blocks, globals, disposed>>
    <3>1. TypeOK'
      BY <2>2, <1>1, <1>2 DEF TypeOK
    <3>2. \A o \in Magazines \ {m} : Same(o)
      BY <2>2, <1>2 DEF Same
    <3>3. MagazineOK(m)'
      BY <2>2, <1>1, <1>2, <1>4, <1>5 DEF MagazineOK
    <3>4. CountOK(m)'
      BY <2>2, <1>1, <1>2, <1>4 DEF CountOK
    <3> QED BY <3>1, <3>2, <3>3, <3>4
  <2> QED BY <2>1, <2>2 DEF Clean
<1>8. ASSUME NEW u \in Threads PROVE ThreadOK(u)'
  <2>1. th[u].m # None => Same(th[u].m)
    BY <1>1, <1>3, <1>7 DEF TypeOK
  <2>2. th'[u] = th[u] /\ \A v \in Threads : th'[v].m = th[u].m /\ th[u].m # None => th[v].m = th[u].m
    BY <1>2
  <2> QED BY <2>1, <2>2, <1>1, <1>2, FrameThread
<1>9. ASSUME NEW o \in Magazines \ {m} PROVE MagazineOK(o)' /\ CountOK(o)'
  <2>1. \A v \in Threads : th'[v].m = o \/ th[v].m = o => th'[v] = th[v]
    BY <1>2
  <2> QED BY <2>1, <1>1, <1>2, <1>7, FrameMagazine
<1> QED BY <1>7, <1>8, <1>9 DEF MagazineInv

\* Nothing is allocated yet.
LEMMA InitInv == Init => MagazineInv
<1> SUFFICES ASSUME Init PROVE MagazineInv
  OBVIOUS
<1>1. TypeOK
  <2>1. Idle \in [pc : {"idle", "prepare", "error", "proxy", "get", "count", "free"},
                  m : Magazines \cup {None}, k : Closures, x : Proxies \cup {None}]
    BY MagazineAssumption DEF Idle, Closures
  <2> QED BY <2>1 DEF Init, TypeOK
<1>2. ASSUME NEW t \in Threads PROVE ThreadOK(t)
  BY DEF Init, ThreadOK, At, Idle
<1>3. ASSUME NEW m \in Magazines PROVE ~Working(m) /\ ~Uncounted(m)
  BY MagazineAssumption DEF Init, Working, Uncounted, Idle
<1>4. ASSUME NEW m \in Magazines PROVE MagazineOK(m) /\ CountOK(m)
  BY <1>3, MagazineAssumption DEF Init, MagazineOK, CountOK, Untouched
<1> QED BY <1>1, <1>2, <1>4 DEF MagazineInv

\* Every step of every thread.
LEMMA NextInv == MagazineInv /\ [Next]_vars => MagazineInv'
<1> SUFFICES ASSUME MagazineInv, [Next]_vars PROVE MagazineInv'
  OBVIOUS
<1>1. CASE UNCHANGED <<pinned, confined, lifeVars>>
  BY <1>1, LessHeld DEF lifeVars
<1>2. CASE Callback
  BY <1>1, <1>2 DEF Callback, ClosureInvoke, JavaReplies, ClosureReturn, CGoesOn
<1>3. CASE Collector
  <2>1. ASSUME NEW m \in Magazines, Forget(m) PROVE MagazineInv'
    BY <2>1, LessHeld DEF Forget
  <2> QED BY <2>1, <1>3, CleanStep DEF Collector
<1>4. ASSUME NEW t \in Threads, Step(t) PROVE MagazineInv'
  BY <1>4, PrepareStep, ErrorStep, GetStep, GetFailsStep, GetNoneStep, CountStep, FreeStep,
     NextProxyStep, DisposeStep, NewStep, AllocateStep DEF Step
<1> QED BY <1>1, <1>2, <1>3, <1>4 DEF Next, vars

\* MagazineInv holds of every behaviour: newClosureMagazine,
\* closureMagazineGet, freeClosureMagazine, dispose and the thunks.
THEOREM MagazineInvariance == Spec => []MagazineInv
<1>1. Init => MagazineInv
  BY InitInv
<1>2. MagazineInv /\ [Next]_vars => MagazineInv'
  BY NextInv
<1> QED BY <1>1, <1>2, PTL DEF Spec

\* No magazine is freed twice or left half allocated, and the global
\* references of its closures are those that freeing it will drop.
THEOREM MagazinesBalance == Spec => []MagazineAccounted
<1>1. MagazineInv => MagazineAccounted
  <2> SUFFICES ASSUME MagazineInv, NEW m \in Magazines
               PROVE  /\ "corrupt" \notin blocks[m]
                      /\ Within(m) = {} =>
                           /\ blocks[m] \in {{}, Blocks}
                           /\ blocks[m] = Blocks /\ maker[m] = "app" => m \in registered \ disposed
                           /\ confined => globals[m] = IF blocks[m] = {} THEN 0 ELSE nextclosure[m]
    BY DEF MagazineAccounted
  <2>1. MagazineOK(m) /\ CountOK(m) /\ globals[m] \in Int /\ nextclosure[m] \in Nat /\ {} # Blocks
    BY DEF MagazineInv, TypeOK, Blocks
  <2>2. Within(m) = {} => ~Working(m) /\ ~Uncounted(m)
    BY DEF Within, Working, Uncounted
  <2>3. Within(m) = {} =>
          /\ blocks[m] \in {{}, Blocks}
          /\ blocks[m] = Blocks /\ maker[m] = "app" => m \in registered \ disposed
    BY <2>1, <2>2 DEF MagazineOK
  <2>4. Within(m) = {} /\ confined => globals[m] = IF blocks[m] = {} THEN 0 ELSE nextclosure[m]
    BY <2>1, <2>2, <2>3 DEF CountOK
  <2> QED BY <2>1, <2>3, <2>4 DEF MagazineOK
<1> QED BY <1>1, MagazineInvariance, PTL

\* Allocated in one thread at a time, a trampoline of a magazine that is
\* there reaches the proxy that closureMagazineGet gave it.
THEOREM TrampolinesReach == Spec => []CallReachesProxy
<1>1. MagazineInv => CallReachesProxy
  BY DEF MagazineInv, CountOK, CallReachesProxy, TypeOK
<1> QED BY <1>1, MagazineInvariance, PTL

(***************************************************************************)
(* The values of a call.                                                   *)
(***************************************************************************)

\* Size: what types occupy on the machines there are.
LEMMA Sizes ==
  ASSUME machine \in Machines, NEW t \in Types \cup {"void"}
  PROVE  /\ machine.be \in BOOLEAN /\ machine.addr \in {4, 8} /\ Word \in {4, 8}
         /\ Size(machine, t) \in {1, 4, 8, 12}
         /\ t \in {"i8", "i32", "ptr"} => Size(machine, t) <= Word
         /\ t = "ptr" => Size(machine, t) = Word
<1>1. machine.be \in BOOLEAN /\ machine.addr \in {4, 8}
  BY SignatureAssumption
<1> QED BY <1>1 DEF Types, Size, Word

\* Order: reversing the bytes twice gives them back.
LEMMA OrderTwice ==
  ASSUME NEW n \in Nat, NEW num, num = [k \in 0..(n - 1) |-> num[k]], machine.be \in BOOLEAN
  PROVE  Order(n, Order(n, num)) = num
<1>1. \A k \in 0..(n - 1) : n - 1 - k \in 0..(n - 1) /\ n - 1 - (n - 1 - k) = k
  OBVIOUS
<1>2. \A k \in 0..(n - 1) : Order(n, Order(n, num))[k] = num[k]
  BY <1>1 DEF Order
<1> QED BY <1>2 DEF Order

\* Value is a function of the numbers of its bytes.
LEMMA ValueBytes ==
  ASSUME NEW x, NEW w, NEW n \in Nat
  PROVE  Value(x, w, n) = [k \in 0..(n - 1) |-> Value(x, w, n)[k]]
BY DEF Value

\* Read of what was passed: the number.
LEMMA ReadOrder ==
  ASSUME NEW n \in Nat, NEW num, num = [k \in 0..(n - 1) |-> num[k]], machine.be \in BOOLEAN
  PROVE  Read(Order(n, num), 0, n) = num
<1>0. \A k \in 0..(n - 1) : 0 + k = k
  OBVIOUS
<1>1. [k \in 0..(n - 1) |-> Order(n, num)[0 + k]] = Order(n, num)
  BY <1>0 DEF Order
<1>2. Read(Order(n, num), 0, n) = Order(n, [k \in 0..(n - 1) |-> Order(n, num)[0 + k]])
  BY DEF Read
<1>3. Order(n, Order(n, num)) = num
  BY OrderTwice
<1> QED BY <1>1, <1>2, <1>3

\* Store and Read: of a number of w bytes at 0, the n low ones are read where
\* the byte order puts them.
LEMMA ReadStore ==
  ASSUME NEW w \in Nat, NEW n \in Nat, NEW at \in Nat, n <= w,
         machine.be => at = w - n, ~machine.be => at = 0, machine.be \in BOOLEAN,
         NEW mem, 0..(w - 1) \subseteq DOMAIN mem, NEW num, NEW k, k \in 0..(n - 1)
  PROVE  Read(Store(mem, 0, w, num), at, n)[k] = num[k]
<1> DEFINE s == Store(mem, 0, w, num)
<1>1. \A a \in 0..(w - 1) : s[a] = IF machine.be THEN num[w - 1 - a] ELSE num[a]
  <2>1. \A a \in 0..(w - 1) : a \in DOMAIN mem /\ a \in 0..(0 + w - 1) /\ a - 0 = a
    OBVIOUS
  <2> QED BY <2>1 DEF Store, Order
<1>2. at + k \in 0..(w - 1) /\ n - 1 - k \in 0..(n - 1)
  OBVIOUS
<1>3. CASE machine.be
  <2>1. at + (n - 1 - k) \in 0..(w - 1) /\ w - 1 - (at + (n - 1 - k)) = k
    BY <1>3
  <2>2. Read(s, at, n)[k] = s[at + (n - 1 - k)]
    BY <1>2, <1>3 DEF Read, Order
  <2> HIDE DEF s
  <2> QED BY <2>1, <2>2, <1>1, <1>3 DEF s
<1>4. CASE ~machine.be
  <2>1. at + k = k /\ k \in 0..(w - 1)
    BY <1>4
  <2>2. Read(s, at, n)[k] = s[at + k]
    BY <1>4 DEF Read, Order
  <2> HIDE DEF s
  <2> QED BY <2>1, <2>2, <1>1, <1>4 DEF s
<1> QED BY <1>3, <1>4

\* A whole number, stored and read at 0.
LEMMA ReadWhole ==
  ASSUME NEW n \in Nat, NEW num, num = [k \in 0..(n - 1) |-> num[k]], machine.be \in BOOLEAN,
         NEW mem, 0..(n - 1) \subseteq DOMAIN mem
  PROVE  Read(Store(mem, 0, n, num), 0, n) = num
<1> DEFINE s == Store(mem, 0, n, num)
<1>1. \A k \in 0..(n - 1) : k \in DOMAIN mem /\ k \in 0..(0 + n - 1) /\ k - 0 = k /\ 0 + k = k
  OBVIOUS
<1>2. \A k \in 0..(n - 1) : s[0 + k] = Order(n, num)[k]
  BY <1>1 DEF Store
<1> HIDE DEF s
<1>3. Order(n, num) = [k \in 0..(n - 1) |-> Order(n, num)[k]]
  BY DEF Order
<1>4. [k \in 0..(n - 1) |-> s[0 + k]] = Order(n, num)
  BY <1>2, <1>3
<1>5. Read(s, 0, n) = Order(n, [k \in 0..(n - 1) |-> s[0 + k]])
  BY DEF Read
<1>6. Order(n, Order(n, num)) = num
  BY OrderTwice
<1> QED BY <1>4, <1>5, <1>6 DEF s

\* Read gives n bytes.
LEMMA ReadBytes ==
  ASSUME NEW n \in Nat, NEW at, NEW mem
  PROVE  Read(mem, at, n) = [k \in 0..(n - 1) |-> Read(mem, at, n)[k]]
BY DEF Read, Order

\* DirectClosureBuffer's offset of a parameter is the one closure_invoke's
\* array has: both multiply by the size of a pointer.
LEMMA ParameterIs ==
  ASSUME machine \in Machines, sig \in Signatures, NEW i \in DOMAIN sig.params
  PROVE  Parameter(i) = i
<1>1. machine.addr \in {4, 8} /\ sig.params \in Seq(Types)
  BY SignatureAssumption
<1>2. DOMAIN sig.params \subseteq Int
  BY <1>1
<1>3. ASSUME NEW j \in DOMAIN sig.params PROVE (j - 1) * machine.addr = (i - 1) * PARAM_SIZE <=> j = i
  <2>1. i \in Int /\ j \in Int
    BY <1>2
  <2>2. CASE machine.addr = 4
    BY <2>1, <2>2 DEF PARAM_SIZE
  <2>3. CASE machine.addr = 8
    BY <2>1, <2>3 DEF PARAM_SIZE
  <2> QED BY <1>1, <2>2, <2>3
<1> QED BY <1>3 DEF Parameter

\* What closure_invoke stores in a jvalue, Java reads.
LEMMA JvalueRead ==
  ASSUME machine \in Machines, sig \in Signatures, NEW i \in DOMAIN sig.params,
         sig.params[i] \notin {"f32", "f64"}
  PROVE  Read(Jvalue(i), 0, JavaSize(sig.params[i]))
           = IF sig.params[i] = "struct" THEN Address(i)
             ELSE Value(<<"n", i>>, Size(machine, sig.params[i]), Size(machine, sig.params[i]))
<1> DEFINE t == sig.params[i]
           n == IF t = "struct" THEN 8 ELSE Size(machine, t)
           num == IF t = "struct" THEN Address(i) ELSE Value(<<"n", i>>, n, n)
           mem == [a \in 0..7 |-> Zero]
<1>1. t \in Types
  BY SignatureAssumption
<1>2. machine.be \in BOOLEAN /\ n \in {1, 4, 8} /\ n = JavaSize(t)
  <2>1. machine.be \in BOOLEAN /\ machine.addr \in {4, 8}
    BY <1>1, Sizes
  <2> QED BY <2>1, <1>1 DEF Types, Size, JavaSize
<1>3. num = [k \in 0..(n - 1) |-> num[k]] /\ DOMAIN num = 0..(n - 1)
  <2>1. t = "struct" => num = Value(<<"o", i>>, machine.addr, 8) /\ n = 8
    BY DEF Address
  <2> QED BY <2>1, <1>2 DEF Value
<1>4. Cardinality(DOMAIN num) = n
  <2>1. Cardinality(0..(n - 1)) = IF 0 > n - 1 THEN 0 ELSE n - 1 - 0 + 1
    BY <1>2, FS_Interval
  <2> QED BY <2>1, <1>2, <1>3
<1>5. t # "struct" => Read(Passed(i), 0, Size(machine, t)) = num
  BY <1>2, <1>3, ReadOrder DEF Passed
<1>6. Jvalue(i) = Store(mem, 0, n, num)
  BY <1>4, <1>5 DEF Jvalue
<1>7. 0..(n - 1) \subseteq DOMAIN mem
  BY <1>2
<1> HIDE DEF num, mem
<1> HIDE DEF n
<1>8. Read(Store(mem, 0, n, num), 0, n) = num
  BY <1>2, <1>3, <1>7, ReadWhole
<1>9. Read(Jvalue(i), 0, JavaSize(t)) = num
  BY <1>2, <1>6, <1>8
<1> QED BY <1>9 DEF num, n

\* Every parameter as Java sees it in the two ways.
LEMMA SeenRight ==
  ASSUME machine \in Machines, sig \in Signatures, NEW prim \in BOOLEAN, NEW i \in DOMAIN sig.params,
         ~(prim /\ sig.params[i] \in {"f32", "f64"})
  PROVE  Seen(prim)[i] = IF sig.params[i] = "struct" THEN Address(i)
             ELSE Value(<<"n", i>>, Size(machine, sig.params[i]), Size(machine, sig.params[i]))
<1>1. CASE prim
  BY <1>1, JvalueRead DEF Seen
<1>2. CASE ~prim
  <2> DEFINE n == Size(machine, sig.params[i])
  <2>1. Parameter(i) = i
    BY ParameterIs
  <2>2. n \in Nat /\ machine.be \in BOOLEAN
    BY Sizes, SignatureAssumption
  <2>3. Read(Passed(i), 0, n) = Value(<<"n", i>>, n, n)
    BY <2>2, ReadOrder, ValueBytes DEF Passed
  <2> QED BY <1>2, <2>1, <2>3 DEF Seen, FromBuffer
<1> QED BY <1>1, <1>2

\* What Put stores is what C reads.
LEMMA PutGot ==
  ASSUME machine \in Machines, sig \in Signatures, DOMAIN call.retval = 0..15, NEW x,
         call'.retval = Put(x), UNCHANGED <<machine, sig>>
  PROVE  /\ DOMAIN call'.retval = 0..15
         /\ sig.ret # "void" => Got' = Value(x, Size(machine, sig.ret), Size(machine, sig.ret))
<1> DEFINE n == Size(machine, sig.ret)
           narrow == sig.ret \in {"i8", "i32", "ptr"}
           w == IF narrow THEN Word ELSE n
           at == IF machine.be /\ narrow THEN Word - n ELSE 0
<1>1. sig.ret \in Types \cup {"void"}
  BY SignatureAssumption
<1>2. machine.be \in BOOLEAN /\ Word \in {4, 8} /\ n \in {1, 4, 8, 12} /\ (narrow => n <= Word)
  BY <1>1, Sizes
<1>3. DOMAIN call'.retval = 0..15
  BY DEF Put, Store
<1>4. ASSUME sig.ret # "void" PROVE Got' = Value(x, n, n)
  <2>1. call'.retval = Store(call.retval, 0, w, Value(x, n, w))
    BY <1>4 DEF Put
  <2>2. Got' = Read(call'.retval, at, n)
    BY DEF Got, Word, Read, Order
  <2>3. /\ w \in Nat /\ n \in Nat /\ at \in Nat /\ n <= w /\ machine.be \in BOOLEAN
        /\ machine.be => at = w - n
        /\ ~machine.be => at = 0
    BY <1>2
  <2> DEFINE num == Value(x, n, w)  res == Value(x, n, n)  mem == call.retval
             got == Read(Store(mem, 0, w, num), at, n)
  <2>4. 0..(w - 1) \subseteq DOMAIN mem
    BY <1>2
  <2>5. \A k \in 0..(n - 1) : num[k] = res[k]
    BY <2>3 DEF Value
  <2>6. got = [k \in 0..(n - 1) |-> got[k]] /\ res = [k \in 0..(n - 1) |-> res[k]]
    BY <2>3, ReadBytes, ValueBytes
  <2> HIDE DEF n, w, at, narrow, num, res, mem
  <2>7. ASSUME NEW k, k \in 0..(n - 1) PROVE got[k] = num[k]
    BY <2>3, <2>4, <2>7, ReadStore, Z3
  <2>8. Got' = got
    BY <2>1, <2>2 DEF num, mem
  <2> HIDE DEF got
  <2>9. got = res
    BY <2>5, <2>6, <2>7
  <2> QED BY <2>8, <2>9 DEF res
<1> QED BY <1>3, <1>4

\* What closure_invoke clears is what C reads, where it does not miss.
LEMMA ClearedGot ==
  ASSUME machine \in Machines, sig \in Signatures, DOMAIN call.retval = 0..15,
         call'.retval = Cleared(call.retval), UNCHANGED <<machine, sig>>, ~ClearedAtWrongEnd
  PROVE  Got' = [j \in 0..(Size(machine, sig.ret) - 1) |-> Zero]
<1> DEFINE n == Size(machine, sig.ret)
           at == IF machine.be /\ sig.ret \in {"i8", "i32", "ptr"} THEN Word - n ELSE 0
<1>1. sig.ret \in Types \cup {"void"}
  BY SignatureAssumption
<1>2. /\ machine.be \in BOOLEAN /\ Word \in {4, 8} /\ n \in {1, 4, 8, 12}
      /\ sig.ret \in {"i8", "i32", "ptr"} => n <= Word
      /\ sig.ret = "ptr" => n = Word
  BY <1>1, Sizes
<1>3. at = 0
  BY <1>2 DEF ClearedAtWrongEnd
<1>a. Got' = Read(call'.retval, at, n)
  BY DEF Got, Word, Read, Order
<1>4. Got' = Read(call'.retval, 0, n)
  BY <1>a, <1>3
<1>5. \A k \in 0..(n - 1) : call'.retval[0 + k] = Zero /\ call'.retval[0 + (n - 1 - k)] = Zero
  BY <1>2 DEF Cleared
<1> HIDE DEF n, at
<1> QED BY <1>2, <1>4, <1>5 DEF Read, Order, n

\* The properties of a call hold on while nothing of it changes.
LEMMA CallFrame ==
  ASSUME CallInv, UNCHANGED <<machine, sig, call>>
  PROVE  CallInv'
BY DEF CallInv, ParametersDelivered, FloatAsInt, Got, ClearedAtWrongEnd, Word, Address, Read, Order

\* closure_invoke calls Java.
LEMMA InvokeCall ==
  ASSUME CallInv, NEW h \in handles, ClosureInvoke(h)
  PROVE  CallInv'
<1>1. machine \in Machines /\ sig \in Signatures /\ machine' = machine /\ sig' = sig
  BY DEF CallInv, ClosureInvoke
<1>2. PICK prim \in BOOLEAN :
        call' = [pc |-> "java", m |-> h.m, prim |-> prim, seen |-> Seen(prim),
                 retval |-> [a \in 0..15 |-> Unset]]
  BY DEF ClosureInvoke
<1>3. call'.pc = "java" /\ call'.prim = prim /\ call'.seen = Seen(prim) /\ DOMAIN call'.retval = 0..15
  BY <1>2
<1>4. ParametersDelivered'
  <2>1. \A i \in DOMAIN sig.params : Address(i)' = Address(i) /\ (FloatAsInt(i)' <=> prim /\ sig.params[i] \in {"f32", "f64"})
    BY <1>1, <1>3 DEF Address, FloatAsInt
  <2> QED BY <1>1, <1>3, <2>1, SeenRight DEF ParametersDelivered
<1>5. call'.pc \notin DOMAIN After /\ call'.pc # "reply" /\ DOMAIN call' = DOMAIN NoCall
  BY <1>2 DEF After, NoCall
<1> QED BY <1>1, <1>3, <1>4, <1>5 DEF CallInv, After

\* The Java method replies, throws or says nothing.
LEMMA ReplyCall ==
  ASSUME CallInv, NEW set \in BOOLEAN, NEW throws \in BOOLEAN, JavaReplies(set, throws)
  PROVE  CallInv'
<1>1. /\ machine \in Machines /\ sig \in Signatures /\ machine' = machine /\ sig' = sig
      /\ call.pc = "java" /\ DOMAIN call.retval = 0..15
  BY DEF CallInv, JavaReplies
<1> DEFINE pc == IF throws THEN "thrown" ELSE IF set THEN "returned" ELSE "silent"
           x == <<IF throws /\ call.prim THEN "junk" ELSE "r", 0>>
<1>2. call' = [call EXCEPT !.pc = pc, !.retval = IF set THEN Put(x) ELSE @]
  BY DEF JavaReplies
<1>3. DOMAIN call' = DOMAIN NoCall /\ call'.pc = pc /\ call'.retval = IF set THEN Put(x) ELSE call.retval
  BY <1>2 DEF CallInv, NoCall
<1>4. pc \in {"thrown", "returned", "silent"} /\ (pc = "returned" => set /\ x = <<"r", 0>>)
  OBVIOUS
<1>5. ParametersDelivered'
  BY <1>3, <1>4 DEF ParametersDelivered
<1> HIDE DEF pc, x
<1>6. DOMAIN call'.retval = 0..15
  <2>1. CASE set
    BY <2>1, <1>1, <1>3, PutGot
  <2>2. CASE ~set
    BY <2>2, <1>1, <1>3
  <2> QED BY <2>1, <2>2
<1>7. call'.pc = "returned" /\ sig.ret # "void" => Got' = Value(<<"r", 0>>, Size(machine, sig.ret), Size(machine, sig.ret))
  BY <1>1, <1>3, <1>4, PutGot
<1>8. call'.pc \notin {"reply", "failed"}
  BY <1>3, <1>4
<1> QED BY <1>1, <1>3, <1>5, <1>6, <1>7, <1>8 DEF CallInv

\* Back in closure_invoke.
LEMMA ReturnCall ==
  ASSUME CallInv, ClosureReturn
  PROVE  CallInv'
<1>1. machine \in Machines /\ sig \in Signatures /\ machine' = machine /\ sig' = sig
  BY DEF CallInv, ClosureReturn
<1>2. call.pc \in {"returned", "silent", "thrown"} /\ DOMAIN call.retval = 0..15
  BY DEF CallInv, ClosureReturn, After
<1>3. CASE blocks[call.m] # Blocks
  <2>1. call' = [NoCall EXCEPT !.pc = "crashed"]
    BY <1>3 DEF ClosureReturn
  <2>2. call'.pc = "crashed" /\ DOMAIN call' = DOMAIN NoCall
    BY <2>1 DEF NoCall
  <2> QED BY <1>1, <2>2 DEF CallInv, ParametersDelivered, After
<1>4. CASE blocks[call.m] = Blocks
  <2>1. call' = [call EXCEPT !.pc = After[@], !.retval = IF call.pc = "thrown" THEN Cleared(@) ELSE @]
    BY <1>4 DEF ClosureReturn
  <2>2. /\ DOMAIN call' = DOMAIN NoCall /\ call'.pc = After[call.pc]
        /\ call'.retval = IF call.pc = "thrown" THEN Cleared(call.retval) ELSE call.retval
    BY <2>1 DEF CallInv, NoCall
  <2>3. call'.pc \notin {"java", "returned", "silent", "thrown"}
        /\ (call'.pc = "reply" => call.pc = "returned") /\ (call'.pc = "failed" => call.pc = "thrown")
    BY <2>2, <1>2 DEF After
  <2>4. ParametersDelivered'
    BY <2>3 DEF ParametersDelivered
  <2>5. call'.pc = "reply" /\ sig.ret # "void" => Got' = Value(<<"r", 0>>, Size(machine, sig.ret), Size(machine, sig.ret))
    <3> SUFFICES ASSUME call'.pc = "reply" PROVE Got' = Got
      BY <2>3 DEF CallInv
    <3>1. call'.retval = call.retval
      BY <2>2, <2>3
    <3> QED BY <3>1, <1>1 DEF Got, Word, Read, Order
  <2>6. call'.pc = "failed" /\ ~ClearedAtWrongEnd => Got' = [j \in 0..(Size(machine, sig.ret) - 1) |-> Zero]
    BY <1>1, <1>2, <2>2, <2>3, ClearedGot
  <2>7. ClearedAtWrongEnd' <=> ClearedAtWrongEnd
    BY <1>1 DEF ClearedAtWrongEnd, Word
  <2> QED BY <1>1, <2>2, <2>3, <2>4, <2>5, <2>6, <2>7 DEF CallInv, After
<1> QED BY <1>3, <1>4

\* The C function takes the result: nothing is left of the call.
LEMMA GoesOnCall ==
  ASSUME CallInv, CGoesOn
  PROVE  CallInv'
<1>1. call'.pc = "none" /\ call' = NoCall /\ machine' = machine /\ sig' = sig
  BY DEF CGoesOn, NoCall
<1> QED BY <1>1 DEF CallInv, ParametersDelivered, After

\* CallInv holds of every behaviour: closure_invoke, the Java methods it
\* calls and DirectClosureBuffer.
THEOREM CallInvariance == Spec => []CallInv
<1>1. Init => CallInv
  <2> SUFFICES ASSUME Init PROVE CallInv
    OBVIOUS
  <2>1. call = NoCall /\ call.pc = "none" /\ machine \in Machines /\ sig \in Signatures
    BY DEF Init, NoCall
  <2> QED BY <2>1 DEF CallInv, ParametersDelivered, After
<1>2. CallInv /\ [Next]_vars => CallInv'
  <2> SUFFICES ASSUME CallInv, [Next]_vars PROVE CallInv'
    OBVIOUS
  <2>1. CASE UNCHANGED vars
    BY <2>1, CallFrame DEF vars
  <2>2. ASSUME NEW t \in Threads, Step(t) PROVE CallInv'
    <3>1. UNCHANGED <<machine, sig, call>>
      BY <2>2 DEF Step, Prepare, Error, Get, GetFails, GetNone, Count, Free, NextProxy, Dispose,
                  NewClosureMagazine, Allocate
    <3> QED BY <3>1, CallFrame
  <2>3. CASE Collector
    <3>1. UNCHANGED <<machine, sig, call>>
      BY <2>3 DEF Collector, Forget, Clean
    <3> QED BY <3>1, CallFrame
  <2>4. CASE Callback
    BY <2>4, InvokeCall, ReplyCall, ReturnCall, GoesOnCall DEF Callback
  <2> QED BY <2>1, <2>2, <2>3, <2>4 DEF Next
<1> QED BY <1>1, <1>2, PTL DEF Spec

\* Java sees every parameter as C passed it, through a jvalue or through
\* DirectClosureBuffer, in either byte order and with pointers of either
\* size, but for the float and the double in a jvalue.
THEOREM ParametersArrive == Spec => []ParametersDelivered
<1>1. CallInv => ParametersDelivered
  BY DEF CallInv
<1> QED BY <1>1, CallInvariance, PTL

\* C reads what the Java method returned: the setters of DirectClosureBuffer
\* and closure_invoke widen it as libffi narrows it; and zero after an
\* exception, where the clearing does not miss.
THEOREM RepliesArrive == Spec => []ReplyDelivered
<1>1. CallInv => ReplyDelivered
  BY DEF CallInv, ReplyDelivered
<1> QED BY <1>1, CallInvariance, PTL
=============================================================================
