----------------------------- MODULE SlotAllocator -----------------------------
(***************************************************************************)
(* What a pool of native closures promises, without saying how: slots come *)
(* into being a magazine at a time, each is handed to one client at a time *)
(* with the client's closure behind it, and it becomes free again only     *)
(* after the client has given it up, with no closure behind it.            *)
(*                                                                         *)
(* ClosurePool implements this specification; ClosureManager is composed   *)
(* of pools of which it assumes no more than this.                         *)
(***************************************************************************)
CONSTANTS Magazines, SlotIdx, Closures, None

Slots == Magazines \X SlotIdx

VARIABLES
  created,  \* the magazines that exist
  free,     \* the slots waiting for a client
  clients,  \* the slots a client can use
  target    \* the closure that a native call of a slot reaches

vars == <<created, free, clients, target>>

SlotsOf(m) == {m} \X SlotIdx

Init == created = {} /\ free = {} /\ clients = {} /\ target = [s \in Slots |-> None]

\* A magazine is made, all of its slots free.
Grow(m) ==
  /\ m \notin created
  /\ created' = created \cup {m}
  /\ free' = free \cup SlotsOf(m)
  /\ UNCHANGED <<clients, target>>

\* A client gets a slot for its closure c.
Acquire(s, c) ==
  /\ s \in free
  /\ free' = free \ {s}
  /\ clients' = clients \cup {s}
  /\ target' = [target EXCEPT ![s] = c]
  /\ UNCHANGED created

\* A client disposes of its slot, or loses the last reference to it.
GiveUp(s) ==
  /\ s \in clients
  /\ clients' = clients \ {s}
  /\ UNCHANGED <<created, free, target>>

\* The pool takes back slots that no client has: the one that was disposed
\* of, or those of a magazine that nobody can reach.
TakeBack(S) ==
  /\ S \subseteq {s \in Slots : s[1] \in created /\ s \notin free /\ s \notin clients}
  /\ free' = free \cup S
  /\ target' = [s \in Slots |-> IF s \in S THEN None ELSE target[s]]
  /\ UNCHANGED <<created, clients>>

Next ==
  \/ \E m \in Magazines : Grow(m)
  \/ \E s \in Slots, c \in Closures : Acquire(s, c)
  \/ \E s \in Slots : GiveUp(s)
  \/ \E S \in SUBSET Slots : TakeBack(S)

Spec == Init /\ [][Next]_vars

----------------------------------------------------------------------------
\* A slot is free or a client's, never both, and no closure is behind a free
\* slot: a native call that comes late, after dispose, does nothing.
SlotSafe ==
  /\ free \cap clients = {}
  /\ \A s \in free : s[1] \in created /\ target[s] = None
================================================================================
