------------------------------- MODULE Library -------------------------------
(***************************************************************************)
(* Library.java over Library.c: opening shared libraries, the cache of     *)
(* weak references, the thunk that closes a handle, and the error that a   *)
(* thread can ask for after a failure.                                     *)
(*                                                                         *)
(* dlopen counts the opens of a library: a handle stays good while the     *)
(* count of its name is positive.  A Library object stands for the one     *)
(* handle it keeps, so the same identity names both.  The C side is that   *)
(* of unix; on Windows a failing LoadLibrary throws nothing.               *)
(***************************************************************************)
EXTENDS Integers, FiniteSets

CONSTANTS
  Threads, Libs,
  Names,          \* names of libraries that are passed to dlopen
  Null,           \* the name of the default library
  None,           \* no Library, no message
  Unknown,        \* the text "unknown"
  SharedDlerror   \* dlerror keeps one message for the process, not one per thread

ASSUME LibraryAssumption ==
  /\ IsFiniteSet(Libs)
  /\ Null \notin Names /\ None \notin Libs /\ "uninit" \notin Libs
  /\ SharedDlerror \in BOOLEAN

VARIABLES
  pinned,         \* does a library's thunk refer to the library itself?
  cache,          \* name -> the referent of its WeakReference, or None
  lib,            \* the Library objects: [state, name, by, via]
  cleared,        \* those whose weak references have been cleared
  held,           \* those the application refers to
  default,        \* DefaultLibrary.INSTANCE: "uninit", None or a Library
  count,          \* opens of each name that are not closed yet
  dlerr,          \* the message dlerror would return
  lastError,      \* the ThreadLocal of that name
  failure,        \* the latest failing dlopen or dlsym of each thread
  th              \* each thread's place in the code and its locals

vars == <<pinned, cache, lib, cleared, held, default, count, dlerr, lastError, failure, th>>

AllNames == Names \cup {Null}
\* A message says what failed; which library it names plays no part.
Message(op, t) == [op |-> op, by |-> t]
Messages == [op : {"dlopen", "dlsym"}, by : Threads]
Idle == [pc |-> "idle", name |-> Null, via |-> "open", lib |-> None]
At(t, pc) == th[t].pc = pc
Goto(t, pc) == th' = [th EXCEPT ![t].pc = pc]

\* Where dlerror keeps the message of a failure in thread t.
Slot(t) == IF SharedDlerror THEN None ELSE t
Slots == {Slot(t) : t \in Threads}

\* The Libraries that opened a name and have not closed it.
Open(n) == {l \in Libs : lib[l].state \in {"opened", "live"} /\ lib[l].name = n}

\* Mutant of StronglyReachable: the thunk copies the handle to a local.
ReachableWithoutThunk(l) ==
  \/ l \in held \/ default = l
  \/ \E t \in Threads : th[t].pc \in {"construct", "put"} /\ th[t].lib = l

\* Mutant of StronglyReachable: a Library that is about to be cached counts
\* as collectable, as if only the cache referred to it.
ReachableFromApplication(l) == l \in held \/ default = l \/ (pinned /\ lib[l].state = "live")

\* Library.this, captured by the Runnable registered with the Cleaner, keeps
\* a library alive for good; a thread refers to the one it returns.
StronglyReachable(l) ==
  \/ l \in held \/ default = l
  \/ pinned /\ lib[l].state = "live"
  \/ \E t \in Threads : th[t].pc \in {"construct", "put"} /\ th[t].lib = l

(* ---- Opening ---------------------------------------------------------- *)

Return(t, l) ==
  /\ held' = held \cup {l}
  /\ th' = [th EXCEPT ![t] = Idle]

GetCachedInstance(t, n) ==
  /\ At(t, "idle")
  /\ th' = [th EXCEPT ![t] = [pc |-> IF cache[n] = None THEN "dlopen" ELSE "deref",
                              name |-> n, via |-> "cache", lib |-> cache[n]]]
  /\ UNCHANGED <<pinned, cache, lib, cleared, held, default, count, dlerr, lastError, failure>>

\* ref.get()
Deref(t) ==
  /\ At(t, "deref")
  /\ \/ th[t].lib \notin cleared /\ Return(t, th[t].lib)
     \/ th[t].lib \in cleared /\ Goto(t, "dlopen") /\ UNCHANGED held
  /\ UNCHANGED <<pinned, cache, lib, cleared, default, count, dlerr, lastError, failure>>

OpenLibrary(t, n) ==
  /\ At(t, "idle")
  /\ th' = [th EXCEPT ![t] = [pc |-> "dlopen", name |-> n, via |-> "open", lib |-> None]]
  /\ UNCHANGED <<pinned, cache, lib, cleared, held, default, count, dlerr, lastError, failure>>

\* The first thread initialises DefaultLibrary, the others wait for it.
GetDefault(t) ==
  /\ At(t, "idle")
  /\ \A u \in Threads : th[u].via # "default"
  /\ \/ /\ default = "uninit"
        /\ th' = [th EXCEPT ![t] = [pc |-> "dlopen", name |-> Null, via |-> "default", lib |-> None]]
        /\ UNCHANGED held
     \/ default \in Libs /\ Return(t, default)
  /\ UNCHANGED <<pinned, cache, lib, cleared, default, count, dlerr, lastError, failure>>

DlOpen(t) ==
  /\ At(t, "dlopen")
  /\ \/ \E l \in Libs :
          /\ lib[l].state = "none"
          /\ lib' = [lib EXCEPT ![l] = [state |-> "opened", name |-> th[t].name,
                                        by |-> t, via |-> th[t].via]]
          /\ count' = [count EXCEPT ![th[t].name] = @ + 1]
          /\ th' = [th EXCEPT ![t] = [pc |-> "construct", name |-> th[t].name,
                                    via |-> th[t].via, lib |-> l]]
          /\ UNCHANGED <<dlerr, failure>>
     \/ /\ dlerr' = [dlerr EXCEPT ![Slot(t)] = Message("dlopen", t)]
        /\ failure' = [failure EXCEPT ![t] = Message("dlopen", t)]
        /\ Goto(t, "dlerror")
        /\ UNCHANGED <<lib, count>>
  /\ UNCHANGED <<pinned, cache, cleared, held, default, lastError>>

\* dl_error: what dlerror says, or "unknown"; asking forgets the message.
Said(t) == IF dlerr[Slot(t)] = None THEN Unknown ELSE dlerr[Slot(t)]
Forgotten(t) == [dlerr EXCEPT ![Slot(t)] = None]

\* Mutant of DlOpenFails: the message is not kept.
DlOpenFailsSilently(t) ==
  /\ At(t, "dlerror")
  /\ dlerr' = Forgotten(t)
  /\ th' = [th EXCEPT ![t] = Idle]
  /\ default' = IF th[t].via = "default" THEN None ELSE default
  /\ UNCHANGED <<pinned, cache, lib, cleared, held, count, lastError, failure>>

\* The C code throws, dlopen catches, keeps the message and null is returned.
DlOpenFails(t) ==
  /\ At(t, "dlerror")
  /\ lastError' = [lastError EXCEPT ![t] = Said(t)]
  /\ dlerr' = Forgotten(t)
  /\ th' = [th EXCEPT ![t] = Idle]
  /\ default' = IF th[t].via = "default" THEN None ELSE default
  /\ UNCHANGED <<pinned, cache, lib, cleared, held, count, failure>>

\* new Library(...): the thunk is registered.
Construct(t) ==
  /\ At(t, "construct")
  /\ lib' = [lib EXCEPT ![th[t].lib].state = "live"]
  /\ default' = IF th[t].via = "default" THEN th[t].lib ELSE default
  /\ \/ th[t].via = "cache" /\ Goto(t, "put") /\ UNCHANGED held
     \/ th[t].via # "cache" /\ Return(t, th[t].lib)
  /\ UNCHANGED <<pinned, cache, cleared, count, dlerr, lastError, failure>>

Put(t) ==
  /\ At(t, "put")
  /\ cache' = [cache EXCEPT ![th[t].name] = th[t].lib]
  /\ Return(t, th[t].lib)
  /\ UNCHANGED <<pinned, lib, cleared, default, count, dlerr, lastError, failure>>

(* ---- Symbols ---------------------------------------------------------- *)

\* getSymbolAddress reads the handle, after which it needs the Library no
\* more: the compiler may let the object go before dlsym is called.
GetSymbolAddress(t, l) ==
  /\ At(t, "idle") /\ l \in held
  /\ th' = [th EXCEPT ![t] = [pc |-> "clear", name |-> lib[l].name, via |-> "open", lib |-> l]]
  /\ UNCHANGED <<pinned, cache, lib, cleared, held, default, count, dlerr, lastError, failure>>

ClearDlerror(t) ==
  /\ At(t, "clear")
  /\ dlerr' = Forgotten(t)
  /\ Goto(t, "dlsym")
  /\ UNCHANGED <<pinned, cache, lib, cleared, held, default, count, lastError, failure>>

\* The symbol is there, or it is not, or it is and its address is NULL.
DlSym(t) ==
  /\ At(t, "dlsym")
  /\ \/ th' = [th EXCEPT ![t] = Idle] /\ UNCHANGED <<dlerr, failure>>
     \/ /\ dlerr' = [dlerr EXCEPT ![Slot(t)] = Message("dlsym", t)]
        /\ failure' = [failure EXCEPT ![t] = Message("dlsym", t)]
        /\ Goto(t, "symerror")
     \/ Goto(t, "symerror") /\ failure' = [failure EXCEPT ![t] = None] /\ UNCHANGED dlerr
  /\ UNCHANGED <<pinned, cache, lib, cleared, held, default, count, lastError>>

\* The C code puts the message into the exception, ...
DlSymFails(t) ==
  /\ At(t, "symerror")
  /\ dlerr' = Forgotten(t)
  /\ Goto(t, "catch")
  /\ UNCHANGED <<pinned, cache, lib, cleared, held, default, count, lastError, failure>>

\* ... and the handler asks dlerror once more.
CatchSymbol(t) ==
  /\ At(t, "catch")
  /\ lastError' = [lastError EXCEPT ![t] = Said(t)]
  /\ dlerr' = Forgotten(t)
  /\ th' = [th EXCEPT ![t] = Idle]
  /\ UNCHANGED <<pinned, cache, lib, cleared, held, default, count, failure>>

(* ---- The application, the collector and the Cleaner ------------------- *)

Forget(l) ==
  /\ l \in held
  /\ held' = held \ {l}
  /\ UNCHANGED <<pinned, cache, lib, cleared, default, count, dlerr, lastError, failure, th>>

Clear(l) ==
  /\ lib[l].state = "live" /\ l \notin cleared /\ ~StronglyReachable(l)
  /\ cleared' = cleared \cup {l}
  /\ UNCHANGED <<pinned, cache, lib, held, default, count, dlerr, lastError, failure, th>>

\* Mutant of RunThunk: what getAndSet returns is not looked at, so the handle
\* stays open.
RunThunkIdly(l) ==
  /\ l \in cleared /\ lib[l].state = "live"
  /\ lib' = [lib EXCEPT ![l].state = "closed"]
  /\ UNCHANGED <<pinned, cache, cleared, held, default, count, dlerr, lastError, failure, th>>

\* The thunk disposes of the Library and calls dlclose.
RunThunk(l) ==
  /\ l \in cleared /\ lib[l].state = "live"
  /\ lib' = [lib EXCEPT ![l].state = "closed"]
  /\ count' = [count EXCEPT ![lib[l].name] = @ - 1]
  /\ UNCHANGED <<pinned, cache, cleared, held, default, dlerr, lastError, failure, th>>

Init ==
  /\ pinned \in BOOLEAN
  /\ cache = [n \in Names |-> None]
  /\ lib = [l \in Libs |-> [state |-> "none", name |-> Null, by |-> None, via |-> "open"]]
  /\ cleared = {} /\ held = {} /\ default = "uninit"
  /\ count = [n \in AllNames |-> 0]
  /\ dlerr = [s \in Slots |-> None]
  /\ lastError = [t \in Threads |-> None]
  /\ failure = [t \in Threads |-> None]
  /\ th = [t \in Threads |-> Idle]

Next ==
  \/ \E t \in Threads :
       \/ \E n \in Names : GetCachedInstance(t, n)
       \/ \E n \in AllNames : OpenLibrary(t, n)
       \/ \E l \in Libs : GetSymbolAddress(t, l)
       \/ Deref(t) \/ GetDefault(t) \/ DlOpen(t) \/ DlOpenFails(t) \/ Construct(t) \/ Put(t)
       \/ ClearDlerror(t) \/ DlSym(t) \/ DlSymFails(t) \/ CatchSymbol(t)
  \/ \E l \in Libs : Forget(l) \/ Clear(l) \/ RunThunk(l)

Spec == Init /\ [][Next]_vars

(* ---- Properties ------------------------------------------------------- *)

Fields == [state : {"none", "opened", "live", "closed"}, name : AllNames,
           by : Threads \cup {None}, via : {"cache", "open", "default"}]

Local == [pc : {"idle", "deref", "dlopen", "dlerror", "construct", "put",
                "clear", "dlsym", "symerror", "catch"},
          name : AllNames, via : {"cache", "open", "default"}, lib : Libs \cup {None}]

TypeOK ==
  /\ pinned \in BOOLEAN
  /\ cache \in [Names -> Libs \cup {None}]
  /\ lib \in [Libs -> Fields]
  /\ cleared \in SUBSET Libs /\ held \in SUBSET Libs
  /\ default \in {"uninit", None} \cup Libs
  /\ count \in [AllNames -> Nat]
  /\ dlerr \in [Slots -> Messages \cup {None}]
  /\ lastError \in [Threads -> Messages \cup {None, Unknown}]
  /\ failure \in [Threads -> Messages \cup {None}]
  /\ th \in [Threads -> Local]

\* Every open is closed by the thunk of the one Library made for it, and by
\* no other, through every race between opening, caching and collection.
HandlesAccounted == \A n \in AllNames : count[n] = Cardinality(Open(n))

\* A Library that the application or the cache still hands out is open.
UsableIsOpen ==
  \A l \in Libs : l \in held \/ default = l => lib[l].state = "live" /\ count[lib[l].name] > 0

\* dlsym never gets the handle of a library that has been closed.  Nothing
\* keeps the Library alive during the call except its own thunk: without
\* that reference this does not hold.
SymbolFromOpenHandle ==
  \A t \in Threads : pinned /\ At(t, "dlsym") => count[th[t].name] > 0

\* Racing threads open a library once each; the same thread never opens a
\* cached name again.
OneOpenPerThread ==
  pinned => \A l, m \in Libs :
    /\ lib[l].state # "none" /\ lib[m].state # "none"
    /\ lib[l].via = "cache" /\ lib[m].via = "cache"
    /\ lib[l].name = lib[m].name /\ lib[l].by = lib[m].by
    => l = m

\* After a dlopen that failed, getLastError gives the thread its message, and
\* never that of another thread.
ErrorOfOwnOpen ==
  \A t \in Threads :
    At(t, "idle") /\ failure[t] # None /\ failure[t].op = "dlopen" => lastError[t] = failure[t]

\* Whatever failed last, getLastError tells why.  "Stores the last error
\* returned by a dlopen or dlsym call" says Library.java, but dlsym's message
\* is gone by the time the handler asks for it.
ErrorOfLastFailure ==
  \A t \in Threads : At(t, "idle") /\ failure[t] # None => lastError[t] = failure[t]

(* ---- Refinement: getCachedInstance asks a WeakCache for a Library ------ *)

Cached(l) == lib[l].via = "cache"

Usable(l) == Cached(l) /\ lib[l].state \in {"opened", "live"} /\ l \notin cleared
Making(t) == th[t].via = "cache" /\ th[t].pc \in {"construct", "put"}

Requests == {[by |-> t, key |-> th[t].name] : t \in {u \in Threads : th[u].via = "cache"}}
Alive == {[o |-> l, key |-> lib[l].name] : l \in {m \in Libs : Usable(m)}}
Fresh == {[by |-> t, o |-> th[t].lib] : t \in {u \in Threads : Making(u)}}
HeldCached == {l \in held : Cached(l)}

Cache == INSTANCE WeakCache WITH
  Objects <- Libs, requests <- Requests, alive <- Alive, fresh <- Fresh, held <- HeldCached

\* However opening, caching and collecting interleave, getCachedInstance returns
\* a Library that is open and of the name that was asked for: the one it opened
\* if it did, so no handle is opened in vain, and none that is not cached yet.
ImplementsWeakCache == Cache!Spec

\* A Library that is found, or about to be put, was opened for its name.
KeyedInv ==
  /\ \A n \in Names : cache[n] # None => Cached(cache[n]) /\ lib[cache[n]].name = n
  /\ \A t \in Threads :
       At(t, "deref") \/ Making(t) => Cached(th[t].lib) /\ lib[th[t].lib].name = th[t].name

\* What a thread is about to put is not in the map, and no other has found it;
\* and the default library, and looking up symbols, are no business of the map.
UnpublishedInv ==
  /\ \A t \in Threads : Making(t) =>
       /\ \A n \in Names : cache[n] # th[t].lib
       /\ \A u \in Threads \ {t} : At(u, "deref") => th[u].lib # th[t].lib
  /\ default \in Libs => ~Cached(default)
  /\ \A t \in Threads :
       th[t].via = "cache" => th[t].pc \in {"deref", "dlopen", "dlerror", "construct", "put"}

(* ---- The inductive invariant ------------------------------------------ *)

\* What each place in the code knows of the Library it works on.
Knows(t) ==
  LET l == th[t].lib IN
    /\ th[t].pc \in {"deref", "construct", "put", "clear", "dlsym"} => l \in Libs
    /\ At(t, "deref") => lib[l].state \in {"live", "closed"}
    /\ At(t, "construct") => /\ lib[l].state = "opened" /\ lib[l].by = t
                             /\ lib[l].via = th[t].via
    /\ At(t, "put") => lib[l].state = "live" /\ l \notin cleared /\ lib[l].by = t
    /\ th[t].pc \in {"construct", "put"} => lib[l].name = th[t].name
    /\ th[t].pc \in {"clear", "dlsym"} =>
         /\ lib[l].name = th[t].name
         /\ lib[l].state \in (IF pinned THEN {"live"} ELSE {"live", "closed"})
    /\ th[t].pc \in {"deref", "put"} => th[t].via = "cache"
    /\ th[t].via = "cache" => th[t].name \in Names

ThreadInv == \A t \in Threads : Knows(t)

\* Only what nothing refers to is collected, and nothing is while thunks hold.
CollectInv ==
  \A l \in Libs :
    /\ l \in held \/ default = l => lib[l].state = "live" /\ l \notin cleared
    /\ l \in cleared => lib[l].state \in {"live", "closed"} /\ ~pinned
    /\ lib[l].state = "closed" => l \in cleared
    /\ lib[l].via = "cache" => lib[l].name \in Names
    /\ \A n \in Names : cache[n] = l => lib[l].state \in {"live", "closed"}

\* A Library opened for the cache is in it or on its way there, and a thread
\* about to open one has not done so before.
OpenedInv ==
  pinned => \A l \in Libs : lib[l].state # "none" /\ lib[l].via = "cache" =>
    /\ \/ cache[lib[l].name] # None
       \/ \E t \in Threads : /\ lib[l].by = t /\ th[t].lib = l
                              /\ th[t].pc \in {"construct", "put"}
    /\ \A t \in Threads :
         At(t, "dlopen") /\ th[t].via = "cache" /\ th[t].name = lib[l].name => lib[l].by # t

\* Between a failure and its report the message is in dlerror's keeping.
Reported(t) ==
  /\ At(t, "dlerror") => dlerr[t] = failure[t]
  /\ th[t].pc \in {"symerror", "catch"} => failure[t] = None \/ failure[t].op = "dlsym"
  /\ ~At(t, "dlerror") /\ failure[t] # None /\ failure[t].op = "dlopen" => lastError[t] = failure[t]

ErrorInv == ~SharedDlerror => \A t \in Threads : Reported(t)

LibraryInv ==
  TypeOK /\ HandlesAccounted /\ ThreadInv /\ CollectInv /\ OpenedInv /\ ErrorInv /\ OneOpenPerThread
=============================================================================
