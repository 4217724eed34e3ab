--------------------------- MODULE RegisterCaching ---------------------------
(***************************************************************************)
(* The two caches of registers, seen from one register.                    *)
(*                                                                         *)
(* CachingStore stands between the commands and the store: it keeps the    *)
(* Register objects that getCurrentVersion returns and forgets one before  *)
(* it passes on a write to it, but not when a tree is deleted or imported. *)
(* RegisterCache, when the registry is set to use it, keeps the Register   *)
(* object made for a URI, whichever version of the register it was made    *)
(* from, and forgets all when a message arrives.  Neither knows of         *)
(* transactions, and none of their steps is under a lock that orders them  *)
(* with the commits.  An object lists its members when first asked, and    *)
(* keeps the list.  A command keeps the object it was given when it was    *)
(* validated, and some change it in place when they write the register,    *)
(* before the commit, and whoever else may have it.                        *)
(*                                                                         *)
(* The store (TDB, external) gives a transaction the state last committed  *)
(* when it began, and lets one writer in at a time.  Other registers       *)
(* matter in that they push this one out of a cache.                       *)
(***************************************************************************)
EXTENDS Naturals, FiniteSets, Functions

CONSTANTS
  Threads,    \* that serve requests
  None,
  MaxWrites   \* bound: versions of the register that are written

ASSUME CachingAssumption == None \notin Threads /\ MaxWrites \in Nat /\ IsFiniteSet(Threads)

VARIABLES
  cacheRegisters,  \* the setting of the registry
  committed,       \* the version in the store, numbered by its write
  history,         \* the versions there have been
  absences,        \* the versions in which there is no register
  writes,
  writer,          \* the thread in a write transaction
  working,         \* the version that the writer sees
  pc,
  view,            \* the version that a reader sees
  held,            \* the Register object in the hands of each thread
  heap,            \* the Register objects there are
  cache,           \* the one that CachingStore keeps
  registerCache,   \* the one that RegisterCache keeps
  queue            \* messages not yet processed

data == <<cacheRegisters, committed, history, absences, writes, writer, working>>
caches == <<cache, registerCache>>
vars == <<data, pc, view, held, heap, caches, queue>>

Absent == 0
Versions == 0..MaxWrites
There(v) == v # Absent /\ v \notin absences

Unlisted == MaxWrites + 1     \* members that nobody has asked for

\* Numbers for the objects, enough for those that anything refers to.
Objects == 1..(Cardinality(Threads) + 3)
NoObject == 0

\* "excuse" is a history: the first way in which the object may have come to differ from
\* the store.
\*   raced: made, listed or cached by a reader while the register was being written, or
\*     whose transaction was older than the last commit
\*   uncommitted: made by the writer, from what it had written
\*   unflushed: in the cache when the register was deleted or imported
\*   unannounced: in the cache of registers when a command sent no message
\*   unheard: taken from the cache of registers before a message was processed
\*   historic: made from a version asked for by number or time
\*   undone: changed in place by a command that was then aborted, whatever came before
Excuses ==
  {"none", "raced", "uncommitted", "unflushed", "unannounced", "unheard", "historic", "undone"}

\* What an object tells: of a version and, if it was amended, as that version was written
\* but with the number of the one before; and of members.
ObjectOf(v, excuse) == [desc |-> v, amended |-> FALSE, members |-> Unlisted, excuse |-> excuse]
Blank == ObjectOf(Absent, "none")

------------------------------------------------------------------------------
Goto(t, place) == pc' = [pc EXCEPT ![t] = place]

Hold(t, o) == held' = [held EXCEPT ![t] = o]

\* The heap is h, without the objects that nothing refers to any more.
HeapIs(h) ==
  heap' = [o \in Objects |->
             IF o \in {cache', registerCache'} \union Range(held') THEN h[o] ELSE Blank]

Free == CHOOSE o \in Objects : o \notin {cache, registerCache} \union Range(held)

Excuse(h, o, reason) ==
  [p \in Objects |->
     IF p = o /\ h[p].excuse = "none" THEN [h[p] EXCEPT !.excuse = reason] ELSE h[p]]

\* Whether the register has been written, or is about to be, in a transaction not over yet.
BeingWritten ==
  writer # None /\ (working # committed \/ pc[writer] \in {"touched", "flushed", "updating"})

Sees(t) == IF t = writer THEN working ELSE view[t]

\* What is to be said of an object that t makes, lists or caches now.
Doubt(t) ==
  IF t = writer THEN (IF working # committed THEN "uncommitted" ELSE "none")
  ELSE IF BeingWritten \/ view[t] # committed THEN "raced" ELSE "none"

Unheard == queue > 0 \/ \E t \in Threads : pc[t] = "notify"

------------------------------------------------------------------------------
(* Lookups.                                                                 *)

BeginRead(t) ==
  /\ pc[t] = "idle"
  /\ view' = [view EXCEPT ![t] = committed]
  /\ Goto(t, "look")
  /\ UNCHANGED <<data, held, heap, caches, queue>>

\* What follows a lookup.
Return(t) == Goto(t, IF t = writer THEN "write" ELSE "use")

\* CachingStore.getCurrentVersion finds the register cached.
Hit(t) ==
  /\ pc[t] = "look" /\ cache # NoObject
  /\ Hold(t, cache) /\ Return(t)
  /\ UNCHANGED <<data, view, heap, caches, queue>>

\* It does not.
Miss(t) ==
  /\ pc[t] = "look" /\ cache = NoObject
  /\ Goto(t, "fetch")
  /\ UNCHANGED <<data, view, held, heap, caches, queue>>

\* Description.descriptionFrom: the object for the register, made from version v or, with
\* the cache of registers, the one that is there already.
MakeRegister(t, v, doubt) ==
  \/ /\ cacheRegisters /\ registerCache # NoObject
     /\ Hold(t, registerCache)
     /\ UNCHANGED caches
     /\ HeapIs(Excuse(heap, registerCache, IF Unheard THEN "unheard" ELSE "none"))
  \/ /\ ~(cacheRegisters /\ registerCache # NoObject)
     /\ Hold(t, Free)
     /\ registerCache' = IF cacheRegisters THEN Free ELSE registerCache
     /\ UNCHANGED cache
     /\ HeapIs([heap EXCEPT ![Free] = ObjectOf(v, doubt)])

\* The store is asked; it returns something else when there is no such register.
Fetch(t) ==
  /\ pc[t] = "fetch"
  /\ IF There(Sees(t))
     THEN MakeRegister(t, Sees(t), Doubt(t)) /\ Goto(t, "put")
     ELSE Return(t) /\ UNCHANGED <<held, heap, caches>>
  /\ UNCHANGED <<data, view, queue>>

Put(t) ==
  /\ pc[t] = "put"
  /\ cache' = held[t]
  /\ UNCHANGED <<data, view, held, registerCache, queue>>
  /\ HeapIs(Excuse(heap, held[t], Doubt(t)))
  /\ Return(t)

\* getVersion and getVersionAt go past CachingStore.  They are of interest with the cache
\* of registers only.
GetVersion(t) ==
  /\ cacheRegisters /\ pc[t] = "look" /\ t # writer
  /\ \E v \in history : There(v) /\ MakeRegister(t, v, "historic")
  /\ Goto(t, "use")
  /\ UNCHANGED <<data, view, queue>>

\* Register.getMembers, also by the commands that tag or edit, before they write.
ListMembers(t) ==
  /\ pc[t] = "use" \/ (pc[t] = "write" /\ working = committed)
  /\ held[t] # NoObject /\ heap[held[t]].members = Unlisted
  /\ UNCHANGED <<data, pc, view, held, caches, queue>>
  /\ HeapIs(Excuse([heap EXCEPT ![held[t]].members = Sees(t)], held[t], Doubt(t)))

\* The end of a request that reads, or is refused.
EndRead(t) ==
  /\ pc[t] = "use"
  /\ Goto(t, "idle") /\ Hold(t, NoObject)
  /\ view' = [view EXCEPT ![t] = Absent]
  /\ UNCHANGED <<data, caches, queue>>
  /\ HeapIs(heap)

------------------------------------------------------------------------------
(* Commands that write.                                                     *)

\* A command ends the transaction in which it was validated, of which nothing is left but the
\* object that it keeps (parentRegister, register) if it looked this register up, and begins
\* one to write.
WriteBegins(t) ==
  /\ pc[t] \in {"idle", "use"} /\ writes < MaxWrites
  /\ writer' = t /\ working' = committed
  /\ Goto(t, "write")
  /\ view' = [view EXCEPT ![t] = Absent]
  /\ UNCHANGED <<cacheRegisters, committed, history, absences, writes, held, heap, caches, queue>>

\* Mutation: writers do not wait for each other.
BeginWriteAnyway(t) == WriteBegins(t)

BeginWrite(t) == writer = None /\ WriteBegins(t)

\* What held[t] tells once t has changed it in place: the next version, if it is committed.
Amend(t) == HeapIs([heap EXCEPT ![held[t]].desc = writes + 1, ![held[t]].amended = TRUE])

\* The command that tags adds the release to the object, and then updates the register.
Touch(t) ==
  /\ pc[t] = "write" /\ working = committed /\ held[t] # NoObject /\ writes < MaxWrites
  /\ Goto(t, "touched")
  /\ UNCHANGED <<data, view, held, caches, queue>>
  /\ Amend(t)

\* CachingStore passes on addToRegister and the update of an item, or the update of the
\* register, the last that a command writes.
PassOn(t) ==
  /\ writes < MaxWrites
  /\ \/ pc[t] = "write" /\ Goto(t, "flushed")
     \/ pc[t] \in {"write", "touched"} /\ held[t] # NoObject /\ Goto(t, "updating")

\* Mutation: the cache is not told.
FlushNothing(t) ==
  /\ PassOn(t)
  /\ UNCHANGED <<data, view, held, caches, queue>>
  /\ HeapIs(heap)

\* The cache first, then the store.
Flush(t) ==
  /\ PassOn(t)
  /\ cache' = NoObject
  /\ UNCHANGED <<data, view, held, registerCache, queue>>
  /\ HeapIs(heap)

\* Mutation: what is written goes into the cache.
WriteThrough(t) ==
  /\ pc[t] = "flushed"
  /\ writes' = writes + 1 /\ working' = writes'
  /\ cache' = Free
  /\ Goto(t, "write")
  /\ UNCHANGED <<cacheRegisters, committed, history, absences, writer, view, held>>
  /\ UNCHANGED <<registerCache, queue>>
  /\ HeapIs([heap EXCEPT ![Free] = ObjectOf(writes', "none")])

Write(t) ==
  /\ pc[t] = "flushed"
  /\ writes' = writes + 1 /\ working' = writes'
  /\ Goto(t, "write")
  /\ UNCHANGED <<cacheRegisters, committed, history, absences, writer, view, held, heap>>
  /\ UNCHANGED <<caches, queue>>

\* doUpdateRegister changes the given object, and then writes the register from it.
UpdateInPlace(t) ==
  /\ pc[t] = "updating"
  /\ writes' = writes + 1 /\ working' = writes'
  /\ Goto(t, "written")
  /\ UNCHANGED <<cacheRegisters, committed, history, absences, writer, view, held, caches, queue>>
  /\ Amend(t)

\* delete and importTree, which leave the cache alone.
Replace(t) ==
  /\ pc[t] = "write" /\ working = committed /\ writes < MaxWrites
  /\ writes' = writes + 1 /\ working' = writes'
  /\ \/ UNCHANGED absences
     \/ There(committed) /\ absences' = absences \union {writes'}
  /\ Goto(t, "written")
  /\ UNCHANGED <<cacheRegisters, committed, history, writer, view, held, caches, queue>>
  /\ HeapIs(Excuse(heap, cache, "unflushed"))

\* A batch registration looks up the register it has just written.
LookUpNew(t) ==
  /\ pc[t] = "write" /\ ~There(committed) /\ There(working) /\ held[t] = NoObject
  /\ Goto(t, "look")
  /\ UNCHANGED <<data, view, held, heap, caches, queue>>

EndWrite(t) ==
  /\ writer' = None /\ working' = Absent
  /\ Hold(t, NoObject)
  /\ UNCHANGED <<cacheRegisters, writes, view, caches, queue>>

\* Some commands send messages, and some never do (graphs, tags, imports).
Commit(t) ==
  /\ pc[t] \in {"write", "written"} /\ working # committed
  /\ committed' = working /\ history' = history \union {working}
  /\ EndWrite(t)
  /\ UNCHANGED absences
  /\ \/ Goto(t, "notify") /\ HeapIs(heap)
     \/ Goto(t, "idle") /\ HeapIs(Excuse(heap, registerCache, "unannounced"))

\* What was changed in place stays changed.
Undone(o) ==
  [p \in Objects |->
     IF p = o /\ heap[p].desc > committed THEN [heap[p] EXCEPT !.excuse = "undone"] ELSE heap[p]]

Abort(t) ==
  /\ pc[t] \in {"write", "written"}
  /\ EndWrite(t)
  /\ Goto(t, "idle")
  /\ UNCHANGED <<committed, history, absences>>
  /\ HeapIs(Undone(held[t]))

\* Mutation: the message is sent to nobody.
NotifyNobody(t) ==
  /\ pc[t] = "notify"
  /\ Goto(t, "idle")
  /\ UNCHANGED <<data, view, held, heap, caches, queue>>

Notify(t) ==
  /\ pc[t] = "notify"
  /\ queue' = queue + 1
  /\ Goto(t, "idle")
  /\ UNCHANGED <<data, view, held, heap, caches>>

------------------------------------------------------------------------------
\* The listener of RegisterCache.
Clear ==
  /\ queue > 0
  /\ queue' = queue - 1
  /\ registerCache' = NoObject
  /\ UNCHANGED <<data, pc, view, held, cache>>
  /\ HeapIs(heap)

\* Other registers push this one out.
Evict ==
  /\ \/ cache # NoObject /\ cache' = NoObject /\ UNCHANGED registerCache
     \/ registerCache # NoObject /\ registerCache' = NoObject /\ UNCHANGED cache
  /\ UNCHANGED <<data, pc, view, held, queue>>
  /\ HeapIs(heap)

Init ==
  /\ cacheRegisters \in BOOLEAN
  /\ committed = Absent /\ history = {} /\ absences = {} /\ writes = 0
  /\ writer = None /\ working = Absent
  /\ pc = [t \in Threads |-> "idle"] /\ view = [t \in Threads |-> Absent]
  /\ held = [t \in Threads |-> NoObject] /\ heap = [o \in Objects |-> Blank]
  /\ cache = NoObject /\ registerCache = NoObject
  /\ queue = 0

Reading(t) ==
  \/ BeginRead(t) \/ Hit(t) \/ Miss(t) \/ Fetch(t) \/ Put(t)
  \/ GetVersion(t) \/ ListMembers(t) \/ EndRead(t)

Writing(t) ==
  \/ BeginWrite(t) \/ Touch(t) \/ Flush(t) \/ Write(t) \/ UpdateInPlace(t) \/ Replace(t)
  \/ LookUpNew(t)
  \/ Commit(t) \/ Abort(t) \/ Notify(t)

Next == (\E t \in Threads : Reading(t) \/ Writing(t)) \/ Clear \/ Evict

Spec == Init /\ [][Next]_vars

------------------------------------------------------------------------------
(* Properties.                                                              *)

TypeOK ==
  /\ cacheRegisters \in BOOLEAN
  /\ committed \in Versions /\ history \subseteq Versions /\ absences \subseteq Versions
  /\ writes \in Versions /\ working \in Versions /\ queue \in 0..MaxWrites
  /\ writer \in Threads \union {None}
  /\ \A t \in Threads :
       /\ pc[t] \in {"write", "touched", "flushed", "updating", "written"} => t = writer
       /\ t = writer => pc[t] \notin {"idle", "use", "notify"}
  /\ view \in [Threads -> Versions]
  /\ {cache, registerCache} \union Range(held) \subseteq Objects \union {NoObject}
  /\ \A o \in Objects : /\ heap[o].desc \in Versions /\ heap[o].amended \in BOOLEAN
                        /\ heap[o].members \in 0..Unlisted /\ heap[o].excuse \in Excuses

\* An object tells of the register as it is.
Current(o) ==
  /\ heap[o].desc = committed /\ ~heap[o].amended
  /\ heap[o].members \in {committed, Unlisted}

\* The object that CachingStore gives to the next request tells of the register as it was
\* last committed, unless the register is being written, a reader raced a writer, the writer
\* itself asked, the register was deleted or imported, or the object came from the cache of
\* registers, where there may be one changed in place by a command that was then aborted
\* (CachingStore.getCurrentVersion, addToRegister, update).
CachedIsCurrent ==
  cache # NoObject /\ ~BeingWritten => Current(cache) \/ heap[cache].excuse # "none"

\* What was never committed is in nobody's hands but the writer's, with three exceptions: an
\* object that the writer looked up after writing the register, as batch registration does;
\* the one it was given before, which an ordinary registration or a tag changes before the
\* commit; and that same object after an abort (CommandRegister.batchRegister, CommandTag,
\* StoreBaseImpl.doUpdateRegister).
OnlyCommittedIsShared ==
  \A t \in Threads \ {writer} : held[t] # NoObject =>
    \/ heap[held[t]].desc \in history
    \/ writer # None /\ held[t] = held[writer]
    \/ heap[held[t]].excuse \in {"uncommitted", "undone"}

\* A request is not given a register older than its own transaction, with the exceptions
\* of CachedIsCurrent.
NotOlderThanView ==
  \A t \in Threads : pc[t] = "use" /\ held[t] # NoObject =>
    heap[held[t]].desc >= view[t] \/ heap[held[t]].excuse # "none"

\* When every message has been processed the cache of registers is as current as
\* CachingStore, unless a command wrote without a message, the object was made from an
\* older version, the writer is changing it, or changed it and was aborted (RegisterCache,
\* Command.notify).
RegisterCacheCatchesUp ==
  registerCache # NoObject /\ ~Unheard =>
    \/ Current(registerCache) \/ heap[registerCache].excuse # "none"
    \/ BeingWritten /\ registerCache = held[writer]
==============================================================================
