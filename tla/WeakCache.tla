------------------------------- MODULE WeakCache -------------------------------
(***************************************************************************)
(* What a cache that refers weakly or softly to its objects promises those *)
(* who ask it for one: an object that was made for what they asked and has *)
(* not been collected.  A request makes one object at most, and then that  *)
(* is its answer; until then nobody else gets it.  What was answered is    *)
(* not collected while the application has it.  How many objects there are *)
(* for a key is not promised.                                              *)
(*                                                                         *)
(* CallContextCache, Library and Aggregates implement this specification.  *)
(***************************************************************************)
CONSTANTS Threads, Objects

VARIABLES
  requests,  \* [by, key]: the thread by asks for the key
  alive,     \* [o, key]: o was made for the key and can still be used
  fresh,     \* [by, o]: the thread by has made o for its request
  held       \* the objects of the cache that the application has

vars == <<requests, alive, fresh, held>>

Init == requests = {} /\ alive = {} /\ fresh = {} /\ held = {}

Asking(t) == {r \in requests : r.by = t}
Made(t)   == {f \in fresh : f.by = t}

Ask(t) ==
  /\ Asking(t) = {}
  /\ \E r \in requests' : r.by = t /\ requests' = requests \cup {r}
  /\ UNCHANGED <<alive, fresh, held>>

\* There was none, or it is gone, or somebody else is about to make one too.
Make(t, o) ==
  /\ Made(t) = {} /\ \A a \in alive : a.o # o
  /\ \E r \in Asking(t) : alive' = alive \cup {[o |-> o, key |-> r.key]}
  /\ fresh' = fresh \cup {[by |-> t, o |-> o]}
  /\ UNCHANGED <<requests, held>>

Answer(t, o) ==
  /\ \E r \in Asking(t) : [o |-> o, key |-> r.key] \in alive
  /\ \A f \in fresh : f.by = t <=> f.o = o
  /\ requests' = requests \ Asking(t)
  /\ fresh' = fresh \ Made(t)
  /\ held' = held \cup {o}
  /\ UNCHANGED alive

\* No object can be made.
Fail(t) ==
  /\ Asking(t) # {} /\ Made(t) = {}
  /\ requests' = requests \ Asking(t)
  /\ UNCHANGED <<alive, fresh, held>>

Drop(o) ==
  /\ o \in held
  /\ held' = held \ {o}
  /\ UNCHANGED <<requests, alive, fresh>>

\* Objects that nobody has are collected.
Die ==
  /\ alive' \subseteq alive
  /\ \A a \in alive \ alive' : a.o \notin held /\ \A f \in fresh : f.o # a.o
  /\ UNCHANGED <<requests, fresh, held>>

Next ==
  \/ \E t \in Threads : Ask(t) \/ Fail(t) \/ \E o \in Objects : Make(t, o) \/ Answer(t, o)
  \/ \E o \in Objects : Drop(o)
  \/ Die

Spec == Init /\ [][Next]_vars
================================================================================
