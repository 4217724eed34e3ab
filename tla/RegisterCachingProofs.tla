------------------------ MODULE RegisterCachingProofs ------------------------
(***************************************************************************)
(* The caches of registers, for any number of threads and versions.        *)
(*                                                                         *)
(* The invariant follows an object from the one that makes it to those     *)
(* that are given it: Made says where what it tells comes from, Kept-      *)
(* Current and RegisterCurrent that an object without an excuse in one of  *)
(* the caches tells of the register as it is, and HeldRecent that one in   *)
(* the hands of a thread tells of nothing older than the thread's own      *)
(* transaction, except for the one object that the writer is changing in   *)
(* place (Changing).  Most steps only drop objects or give them an excuse; *)
(* the lemmas on objects that are kept deal with them once.                *)
(***************************************************************************)
EXTENDS RegisterCaching, FiniteSetTheorems, TLAPS

Places ==
  {"idle", "look", "fetch", "put", "use", "write", "touched", "flushed", "updating", "written",
   "notify"}

ObjectType == [desc : Versions, amended : BOOLEAN, members : 0..Unlisted, excuse : Excuses]

\* The objects that something refers to.
Refs == {cache, registerCache} \union Range(held)

Types ==
  /\ cacheRegisters \in BOOLEAN
  /\ committed \in Versions /\ writes \in Versions /\ working \in Versions
  /\ history \subseteq Versions /\ absences \subseteq Versions
  /\ writer \in Threads \union {None}
  /\ pc \in [Threads -> Places] /\ view \in [Threads -> Versions]
  /\ held \in [Threads -> Objects \union {NoObject}]
  /\ cache \in Objects \union {NoObject} /\ registerCache \in Objects \union {NoObject}
  /\ heap \in [Objects -> ObjectType]
  /\ queue \in Nat

\* Which thread is where, and what it has in its hands.
Roles ==
  \A t \in Threads :
    /\ pc[t] \in {"write", "touched", "flushed", "updating", "written"} => t = writer
    /\ t = writer => pc[t] \notin {"idle", "use", "notify"}
    /\ t = writer /\ pc[t] \in {"look", "fetch", "put"} => working # committed
    /\ pc[t] \in {"touched", "flushed", "updating"} => writes < MaxWrites
    /\ pc[t] \in {"put", "touched", "updating"} => held[t] # NoObject
    /\ pc[t] \in {"idle", "notify"} => held[t] = NoObject

\* Versions are numbered by their writes, and what anyone sees was committed.
Ordered ==
  /\ committed <= writes /\ working <= writes
  /\ writer # None => committed <= working
  /\ committed # Absent => committed \in history
  /\ \A t \in Threads : view[t] <= committed /\ (view[t] # Absent => view[t] \in history)

Announcing == {t \in Threads : pc[t] = "notify"}

\* Each message was sent for a commit of its own.
Announced == queue + Cardinality(Announcing) <= committed

\* The object that the writer has changed in place, and not committed yet.
Changing(o) ==
  /\ writer # None /\ o = held[writer]
  /\ heap[o].amended /\ heap[o].desc > committed
  /\ \/ pc[writer] \in {"touched", "updating"} /\ heap[o].desc = writes + 1
     \/ pc[writer] = "written" /\ heap[o].desc = working

Made ==
  \A o \in Refs \ {NoObject} :
    heap[o].desc \in history \/ heap[o].excuse \in {"uncommitted", "undone"} \/ Changing(o)

\* An object that has no excuse.
Clean(o) == o # NoObject /\ heap[o].excuse = "none"

\* It tells of the register as it is, but for what the writer has changed.
Told(o) == Current(o) \/ (Changing(o) /\ heap[o].members \in {committed, Unlisted})

KeptCurrent == Clean(cache) => Told(cache) /\ (BeingWritten => pc[writer] = "touched")

RegisterCurrent == Clean(registerCache) /\ ~Unheard => Told(registerCache)

Recent(t) ==
  LET o == held[t] IN
  /\ heap[o].desc >= view[t] /\ (heap[o].amended => heap[o].desc > view[t])
  /\ heap[o].desc <= committed \/ Changing(o)
  /\ heap[o].members \in (view[t]..committed) \union {Unlisted}

HeldRecent == \A t \in Threads : Clean(held[t]) /\ t # writer => Recent(t)

IInv ==
  /\ Types /\ Roles /\ Ordered /\ Announced
  /\ Made /\ KeptCurrent /\ RegisterCurrent /\ HeldRecent

------------------------------------------------------------------------------
(* The heap.                                                                *)

LEMMA Bounds ==
  /\ None \notin Threads /\ MaxWrites \in Nat /\ IsFiniteSet(Threads)
  /\ Cardinality(Threads) \in Nat
BY CachingAssumption, FS_CardinalityType DEF CachingAssumption

LEMMA BlankType == Blank \in ObjectType
BY Bounds DEF Blank, ObjectOf, ObjectType, Versions, Unlisted, Absent, Excuses

LEMMA OneMore ==
  ASSUME NEW S, IsFiniteSet(S), NEW n \in Nat, Cardinality(S) <= n, NEW x
  PROVE  IsFiniteSet(S \union {x}) /\ Cardinality(S \union {x}) <= n + 1
<1>1. Cardinality(S) \in Nat
  BY FS_CardinalityType
<1>2. IsFiniteSet(S \union {x})
      /\ Cardinality(S \union {x}) = IF x \in S THEN Cardinality(S) ELSE Cardinality(S) + 1
  BY FS_AddElement
<1> QED
  BY <1>1, <1>2

\* There are more objects than threads and caches can refer to.
LEMMA FreeIsFree ==
  ASSUME Types
  PROVE  Free \in Objects \ Refs
<1>1. IsFiniteSet(Refs) /\ Cardinality(Refs) <= Cardinality(Threads) + 2
  <2>1. IsFiniteSet(Range(held)) /\ Cardinality(Range(held)) <= Cardinality(Threads)
    <3>1. Range(held) = {held[t] : t \in Threads}
      BY DEF Types, Range
    <3>2. held \in Surjection(Threads, Range(held))
      BY <3>1 DEF Types, Surjection
    <3> QED
      BY <3>2, Bounds, FS_Surjection
  <2>2. IsFiniteSet(Range(held) \union {cache})
        /\ Cardinality(Range(held) \union {cache}) <= Cardinality(Threads) + 1
    BY <2>1, Bounds, OneMore
  <2>3. Refs = (Range(held) \union {cache}) \union {registerCache}
    BY DEF Refs
  <2> QED
    <3>1. Cardinality(Threads) + 1 \in Nat
      BY Bounds
    <3>2. IsFiniteSet(Refs) /\ Cardinality(Refs) <= (Cardinality(Threads) + 1) + 1
      BY <2>2, <2>3, <3>1, OneMore
    <3> QED
      BY <3>2, Bounds
<1>2. IsFiniteSet(Objects) /\ Cardinality(Objects) = Cardinality(Threads) + 3
  BY Bounds, FS_Interval DEF Objects
<1>3. \E o \in Objects : o \notin Refs
  <2> SUFFICES ASSUME Objects \subseteq Refs PROVE FALSE
    OBVIOUS
  <2>1. Cardinality(Objects) <= Cardinality(Refs)
    BY <1>1, FS_Subset
  <2> QED
    BY <1>1, <1>2, <2>1, Bounds, FS_CardinalityType
<1> QED
  BY <1>3 DEF Free, Refs

LEMMA ExcuseIs ==
  ASSUME NEW h \in [Objects -> ObjectType], NEW o, NEW reason \in Excuses
  PROVE  /\ Excuse(h, o, reason) \in [Objects -> ObjectType]
         /\ \A p \in Objects :
              /\ Excuse(h, o, reason)[p].desc = h[p].desc
              /\ Excuse(h, o, reason)[p].amended = h[p].amended
              /\ Excuse(h, o, reason)[p].members = h[p].members
              /\ Excuse(h, o, reason)[p].excuse =
                   IF p = o /\ h[p].excuse = "none" THEN reason ELSE h[p].excuse
<1> DEFINE e == Excuse(h, o, reason)
<1>1. ASSUME NEW p \in Objects
      PROVE  /\ e[p] \in ObjectType
             /\ e[p].desc = h[p].desc /\ e[p].amended = h[p].amended
             /\ e[p].members = h[p].members
             /\ e[p].excuse = IF p = o /\ h[p].excuse = "none" THEN reason ELSE h[p].excuse
  <2>1. h[p] \in ObjectType
    OBVIOUS
  <2>2. e[p] = IF p = o /\ h[p].excuse = "none" THEN [h[p] EXCEPT !.excuse = reason] ELSE h[p]
    BY DEF Excuse
  <2> QED
    BY <2>1, <2>2 DEF ObjectType
<1>2. e = [p \in Objects |-> e[p]]
  BY DEF Excuse
<1> QED
  BY <1>1, <1>2

LEMMA HeapIsOf ==
  ASSUME NEW h \in [Objects -> ObjectType], HeapIs(h)
  PROVE  /\ heap' \in [Objects -> ObjectType]
         /\ \A o \in Objects : o \in Refs' => heap'[o] = h[o]
BY BlankType DEF HeapIs, Refs

LEMMA RefsAre ==
  /\ Types => \A o \in Refs : o \in Objects \union {NoObject}
  /\ Types' => \A o \in Refs' : o \in Objects \union {NoObject}
  /\ Types => \A t \in Threads : held[t] \in Refs
  /\ Types' => \A t \in Threads : held'[t] \in Refs'
BY DEF Types, Refs, Range

LEMMA ObjectNumbers == Objects \subseteq Nat \ {0} /\ NoObject = 0
BY Bounds DEF Objects, NoObject

------------------------------------------------------------------------------
(* Objects that are kept.                                                   *)

\* A step tells nothing new of an object, but may find an excuse for it.
KeptObject(o) ==
  /\ heap'[o].desc = heap[o].desc /\ heap'[o].amended = heap[o].amended
  /\ heap[o].excuse \in {"uncommitted", "undone"} =>
       heap'[o].excuse \in {"uncommitted", "undone"}
  /\ heap'[o].excuse = "none" => heap'[o] = heap[o]

\* What becomes of the object that the writer has changed.
Fate(o) ==
  Changing(o) => \/ Changing(o)' \/ heap'[o].excuse = "undone"
                 \/ heap[o].desc \in history' /\ heap[o].desc <= committed'

LEMMA Numbers ==
  ASSUME Types
  PROVE  /\ committed \in Nat /\ writes \in Nat /\ working \in Nat
         /\ \A t \in Threads : view[t] \in Nat
         /\ \A o \in Objects : heap[o].desc \in Nat /\ heap[o] \in ObjectType
BY Bounds DEF Types, Versions, ObjectType

LEMMA ChangingIsWriting ==
  ASSUME Types, NEW o, Changing(o)
  PROVE  BeingWritten /\ writer # None /\ o = held[writer] /\ heap[o].desc # committed
<1>1. heap[o].desc # committed
  <2>1. heap[o].desc > committed /\ committed \in Nat
    BY Numbers DEF Changing
  <2>2. CASE o \in Objects
    BY <2>1, <2>2, Numbers
  <2>3. CASE pc[writer] = "written"
    BY <2>1, <2>3, Numbers DEF Changing
  <2>4. CASE pc[writer] # "written"
    BY <2>1, <2>4, Numbers DEF Changing
  <2> QED
    BY <2>3, <2>4
<1> QED
  BY <1>1 DEF Changing, BeingWritten

\* Whatever is as the caches should be will do for any thread.
LEMMA ToldIsRecent ==
  ASSUME IInv, NEW t \in Threads, NEW o \in Objects, Told(o)
  PROVE  /\ heap[o].desc >= view[t] /\ (heap[o].amended => heap[o].desc > view[t])
         /\ heap[o].desc <= committed \/ Changing(o)
         /\ heap[o].members \in (view[t]..committed) \union {Unlisted}
<1>1. committed \in Nat /\ view[t] \in Nat /\ view[t] <= committed /\ heap[o].desc \in Nat
  BY Numbers DEF IInv, Ordered
<1>2. committed \in view[t]..committed
  BY <1>1
<1>3. CASE Current(o)
  BY <1>1, <1>2, <1>3 DEF Current
<1>4. CASE Changing(o) /\ heap[o].members \in {committed, Unlisted}
  BY <1>1, <1>2, <1>4 DEF Changing
<1> QED
  BY <1>3, <1>4 DEF Told

LEMMA ObjectsKept ==
  ASSUME IInv, Types', Roles', Ordered', Announced', KeptCurrent', RegisterCurrent',
         committed <= committed', history \subseteq history',
         \A o \in Refs' \ {NoObject} : o \in Refs /\ KeptObject(o) /\ Fate(o),
         \A t \in Threads :
           /\ held'[t] # NoObject /\ t # writer' => t # writer /\ view'[t] = view[t]
           /\ \/ held'[t] \in {held[t], cache, NoObject}
              \/ held'[t] = registerCache /\ (heap'[held'[t]].excuse = "none" => ~Unheard)
  PROVE  IInv'
<1>1. Made'
  BY DEF IInv, Made, KeptObject, Fate
<1>2. HeldRecent'
  <2> SUFFICES ASSUME NEW t \in Threads, Clean(held[t])', t # writer' PROVE Recent(t)'
    BY DEF HeldRecent
  <2>1. PICK o : o = held'[t]
    OBVIOUS
  <2>2. o \in Refs' \ {NoObject} /\ heap'[o].excuse = "none"
    BY <2>1, RefsAre DEF Clean
  <2>3. o \in Objects
    BY <2>2, RefsAre
  <2>4. heap'[o] = heap[o] /\ heap[o].excuse = "none" /\ view'[t] = view[t] /\ t # writer
        /\ \/ o \in {held[t], cache}
           \/ o = registerCache /\ ~Unheard
    BY <2>1, <2>2 DEF KeptObject
  <2>5. /\ heap[o].desc >= view[t] /\ (heap[o].amended => heap[o].desc > view[t])
        /\ heap[o].desc <= committed \/ Changing(o)
        /\ heap[o].members \in (view[t]..committed) \union {Unlisted}
    <3>1. CASE o = held[t]
      BY <2>2, <2>4, <3>1 DEF IInv, HeldRecent, Recent, Clean
    <3>2. CASE o = cache \/ (o = registerCache /\ ~Unheard)
      <4>1. Told(o)
        BY <2>2, <2>4, <3>2 DEF IInv, KeptCurrent, RegisterCurrent, Clean
      <4> QED
        BY <2>3, <4>1, ToldIsRecent
    <3> QED
      BY <2>4, <3>1, <3>2
  <2>6. committed \in Nat /\ committed' \in Nat /\ view[t] \in Nat /\ heap[o].desc \in Nat
    BY <2>3, Numbers, Bounds DEF IInv, Types, Versions
  <2>7. heap[o].desc <= committed' \/ Changing(o)'
    BY <2>2, <2>5, <2>6 DEF Fate
  <2>8. heap[o].members \in (view[t]..committed') \union {Unlisted}
    BY <2>5, <2>6
  <2> QED
    BY <2>1, <2>4, <2>5, <2>7, <2>8 DEF Recent
<1> QED
  BY <1>1, <1>2 DEF IInv

LEMMA CacheKept ==
  ASSUME IInv, cache' \in {cache, NoObject},
         cache' # NoObject => KeptObject(cache),
         Clean(cache)' => /\ committed' = committed
                          /\ Changing(cache) => Changing(cache)'
                          /\ BeingWritten' =>
                               BeingWritten /\ (pc[writer] = "touched" => pc'[writer'] = "touched")
  PROVE  KeptCurrent'
<1> SUFFICES ASSUME Clean(cache)' PROVE Told(cache)' /\ (BeingWritten' => pc'[writer'] = "touched")
  BY DEF KeptCurrent
<1>1. cache' = cache /\ heap'[cache] = heap[cache]
  BY DEF KeptObject, Clean
<1>2. Clean(cache)
  BY <1>1 DEF Clean
<1>3. Told(cache) /\ (BeingWritten => pc[writer] = "touched")
  BY <1>2 DEF IInv, KeptCurrent
<1>4. Told(cache)'
  BY <1>1, <1>3 DEF Told, Current
<1> QED
  BY <1>3, <1>4

LEMMA RegisterKept ==
  ASSUME IInv, registerCache' \in {registerCache, NoObject},
         registerCache' # NoObject => KeptObject(registerCache),
         Clean(registerCache)' /\ ~Unheard' =>
           /\ committed' = committed /\ ~Unheard
           /\ Changing(registerCache) => Changing(registerCache)'
  PROVE  RegisterCurrent'
<1> SUFFICES ASSUME Clean(registerCache)', ~Unheard' PROVE Told(registerCache)'
  BY DEF RegisterCurrent
<1>1. registerCache' = registerCache /\ heap'[registerCache] = heap[registerCache]
  BY DEF KeptObject, Clean
<1>2. Clean(registerCache)
  BY <1>1 DEF Clean
<1>3. Told(registerCache)
  BY <1>2 DEF IInv, RegisterCurrent
<1> QED
  BY <1>1, <1>3 DEF Told, Current

LEMMA KeptStep ==
  ASSUME IInv, Types', Roles', Ordered', Announced',
         committed <= committed', history \subseteq history',
         cache' \in {cache, NoObject}, registerCache' \in {registerCache, NoObject},
         \A t \in Threads :
           /\ held'[t] \in {held[t], cache, NoObject}
           /\ held'[t] # NoObject /\ t # writer' => t # writer /\ view'[t] = view[t],
         \A o \in Refs' \ {NoObject} : KeptObject(o) /\ Fate(o),
         Clean(cache)' =>
           /\ committed' = committed
           /\ BeingWritten' =>
                BeingWritten /\ (pc[writer] = "touched" => pc'[writer'] = "touched"),
         Clean(registerCache)' /\ ~Unheard' => committed' = committed /\ ~Unheard
  PROVE  IInv'
<1>1. \A o \in Refs' \ {NoObject} : o \in Refs /\ KeptObject(o) /\ Fate(o)
  <2>1. Refs = {cache, registerCache} \union {held[t] : t \in Threads}
        /\ Refs' = {cache', registerCache'} \union {held'[t] : t \in Threads}
    BY DEF IInv, Types, Refs, Range
  <2> QED
    BY <2>1
\* What is still being changed, and what was committed, is not the same.
<1>2. ASSUME NEW o \in Refs' \ {NoObject}, Clean(o)', committed' = committed, Changing(o)
      PROVE  Changing(o)'
  <2>1. Fate(o) /\ heap'[o].excuse = "none"
    BY <1>1, <1>2 DEF Clean
  <2>2. o \in Objects /\ heap[o].desc \in Nat /\ committed \in Nat
    BY <1>1, <1>2, RefsAre, Numbers DEF IInv
  <2>3. ~(heap[o].desc <= committed')
    BY <1>2, <2>2 DEF Changing
  <2> QED
    BY <1>2, <2>1, <2>3 DEF Fate
<1>3. KeptCurrent'
  <2>1. Clean(cache)' => cache' = cache /\ cache \in Refs' \ {NoObject}
    BY DEF Clean, Refs
  <2> QED
    BY <1>1, <1>2, <2>1, CacheKept DEF Refs, Clean
<1>4. RegisterCurrent'
  <2>1. Clean(registerCache)' =>
          registerCache' = registerCache /\ registerCache \in Refs' \ {NoObject}
    BY DEF Clean, Refs
  <2> QED
    BY <1>1, <1>2, <2>1, RegisterKept DEF Refs, Clean
<1> QED
  BY <1>1, <1>3, <1>4, ObjectsKept

\* The writer is still at it.
LEMMA StillChanging ==
  ASSUME Types, NEW o, KeptObject(o), UNCHANGED <<writer, writes, working, committed>>,
         Changing(o) => /\ held'[writer] = held[writer]
                        /\ \/ pc'[writer] = pc[writer]
                           \/ pc[writer] = "touched" /\ pc'[writer] = "updating"
  PROVE  Fate(o) /\ (Changing(o) => Changing(o)')
BY DEF KeptObject, Fate, Changing

\* No object is.
LEMMA NothingChanging ==
  ASSUME writer = None \/ pc[writer] \notin {"touched", "updating", "written"}
  PROVE  \A o : ~Changing(o) /\ Fate(o)
BY DEF Changing, Fate

LEMMA HeapAsItIs ==
  ASSUME Types, Types', HeapIs(heap) \/ UNCHANGED heap
  PROVE  \A o \in Refs' \ {NoObject} : KeptObject(o)
<1>1. ASSUME NEW o \in Refs' \ {NoObject} PROVE heap'[o] = heap[o]
  BY RefsAre, HeapIsOf DEF Types
<1> QED
  BY <1>1 DEF KeptObject

LEMMA HeapExcused ==
  ASSUME Types, Types', NEW p, NEW reason \in Excuses, HeapIs(Excuse(heap, p, reason))
  PROVE  /\ \A o \in Refs' \ {NoObject} : KeptObject(o)
         /\ p \in Refs' \ {NoObject} /\ reason # "none" => heap'[p].excuse # "none"
<1> DEFINE e == Excuse(heap, p, reason)
<1>1. /\ e \in [Objects -> ObjectType]
      /\ \A o \in Objects :
           /\ e[o].desc = heap[o].desc /\ e[o].amended = heap[o].amended
           /\ e[o].members = heap[o].members
           /\ e[o].excuse = IF o = p /\ heap[o].excuse = "none" THEN reason ELSE heap[o].excuse
  BY ExcuseIs DEF Types
<1>2. \A o \in Objects : e[o] \in ObjectType /\ heap[o] \in ObjectType
  BY <1>1 DEF Types
<1>3. HeapIs(e)
  OBVIOUS
<1> HIDE DEF e
<1>4. \A o \in Refs' \ {NoObject} : o \in Objects /\ heap'[o] = e[o]
  BY <1>1, <1>3, RefsAre, HeapIsOf
<1>5. ASSUME NEW o \in Refs' \ {NoObject} PROVE KeptObject(o)
  <2>1. heap'[o] = e[o] /\ o \in Objects
    BY <1>4
  <2>2. e[o].excuse = "none" => e[o] = heap[o]
    BY <1>1, <1>2, <2>1 DEF ObjectType
  <2> QED
    BY <1>1, <2>1, <2>2 DEF KeptObject
<1> QED
  BY <1>1, <1>4, <1>5

\* A thread that neither comes from nor goes to where messages are sent.
LEMMA AnnouncingKept ==
  ASSUME Types, NEW t \in Threads, NEW place, Goto(t, place),
         pc[t] # "notify", place # "notify"
  PROVE  Announcing' = Announcing
BY DEF Types, Announcing, Goto

LEMMA UnheardIs == (Unheard <=> queue > 0 \/ Announcing # {})
                   /\ (Unheard' <=> queue' > 0 \/ Announcing' # {})
BY DEF Unheard, Announcing

LEMMA AnnouncingSize == IsFiniteSet(Announcing) /\ Cardinality(Announcing) \in Nat
BY Bounds, FS_Subset, FS_CardinalityType DEF Announcing

------------------------------------------------------------------------------
(* Readers.                                                                 *)

\* A step of a thread that changes nothing in the store and tells nothing new.
LEMMA QuietStep ==
  ASSUME IInv, Types', Roles', UNCHANGED <<data, queue>>,
         NEW t \in Threads, NEW place, Goto(t, place), pc[t] # "notify",
         place \notin {"notify", "touched"},
         place \in {"flushed", "updating"} => cache' = NoObject,
         \/ pc[t] \notin {"touched", "updating", "written"}
         \/ pc[t] = "touched" /\ place = "updating" /\ held'[t] = held[t],
         cache' \in {cache, NoObject}, registerCache' \in {registerCache, NoObject},
         \A u \in Threads : /\ view'[u] \in {view[u], committed, Absent}
                            /\ held'[u] \in {held[u], cache, NoObject}
                            /\ u # t => held'[u] = held[u]
                            /\ held'[u] # NoObject => view'[u] = view[u],
         \A o \in Refs' \ {NoObject} : KeptObject(o)
  PROVE  IInv'
<1>1. Announcing' = Announcing
  BY AnnouncingKept DEF IInv
<1>2. Announced'
  BY <1>1 DEF IInv, Announced, data
<1>3. (Unheard' <=> Unheard)
  BY <1>1, UnheardIs
<1>4. Ordered'
  BY Bounds DEF IInv, Ordered, Types, Versions, data, Absent
<1>5. Clean(cache)' => /\ BeingWritten' => BeingWritten
                       /\ pc[writer] = "touched" /\ writer # None => pc'[writer'] = "touched"
  BY DEF IInv, Types, BeingWritten, Goto, data, Clean
<1>6. committed' = committed /\ history' = history /\ committed <= committed' /\ writer' = writer
  BY Bounds DEF IInv, Types, Versions, data
<1>7. ASSUME NEW o \in Refs' \ {NoObject} PROVE Fate(o)
  <2>1. UNCHANGED <<writer, writes, working, committed>> /\ Types /\ KeptObject(o)
    BY DEF data, IInv
  <2>2. ASSUME Changing(o)
        PROVE  /\ held'[writer] = held[writer]
               /\ \/ pc'[writer] = pc[writer]
                  \/ pc[writer] = "touched" /\ pc'[writer] = "updating"
    <3>1. writer \in Threads /\ pc[writer] \in {"touched", "updating", "written"}
      BY <2>2 DEF Changing, IInv, Types
    <3>2. pc'[writer] = IF writer = t THEN place ELSE pc[writer]
      BY <3>1 DEF IInv, Types, Goto
    <3> QED
      BY <3>1, <3>2
  <2> QED
    BY <2>1, <2>2, StillChanging
<1>8. BeingWritten => writer # None
  BY DEF BeingWritten
<1> QED
  BY <1>2, <1>3, <1>4, <1>5, <1>6, <1>7, <1>8, KeptStep

LEMMA BeginReadStep == ASSUME IInv, NEW t \in Threads, BeginRead(t) PROVE IInv'
<1> USE DEF BeginRead
<1>1. Types'
  BY Bounds DEF IInv, Types, Goto, Places, data, caches
<1>2. Roles' /\ held[t] = NoObject
  BY DEF IInv, Types, Roles, Goto, data
<1>3. \A o \in Refs' \ {NoObject} : KeptObject(o)
  BY <1>1, HeapAsItIs DEF IInv
<1>4. \A u \in Threads : view'[u] \in {view[u], committed} /\ (u # t => view'[u] = view[u])
  BY DEF IInv, Types
<1>5. \A u \in Threads : held'[u] = held[u]
  OBVIOUS
<1> QED
  BY <1>1, <1>2, <1>3, <1>4, <1>5, QuietStep DEF caches

LEMMA HitStep == ASSUME IInv, NEW t \in Threads, Hit(t) PROVE IInv'
<1> DEFINE place == IF t = writer THEN "write" ELSE "use"
<1> USE DEF Hit
<1>1. Goto(t, place) /\ place \in {"write", "use"} /\ pc[t] # "notify"
  BY DEF Return
<1>2. Types'
  BY Bounds DEF IInv, Types, Return, Goto, Hold, Places, data, caches
<1>3. Roles'
  BY DEF IInv, Types, Roles, Return, Goto, Hold, data
<1>4. \A o \in Refs' \ {NoObject} : KeptObject(o)
  BY <1>2, HeapAsItIs DEF IInv
<1>5. \A u \in Threads : view'[u] = view[u] /\ held'[u] \in {held[u], cache}
                       /\ (u # t => held'[u] = held[u])
  BY DEF IInv, Types, Hold
<1> HIDE DEF place
<1> QED
  BY <1>1, <1>2, <1>3, <1>4, <1>5, QuietStep DEF caches

LEMMA MissStep == ASSUME IInv, NEW t \in Threads, Miss(t) PROVE IInv'
<1> USE DEF Miss
<1>1. Types'
  BY Bounds DEF IInv, Types, Goto, Places, data, caches
<1>2. Roles'
  BY DEF IInv, Types, Roles, Goto, data
<1>3. \A o \in Refs' \ {NoObject} : KeptObject(o)
  BY <1>1, HeapAsItIs DEF IInv
<1>4. \A u \in Threads : view'[u] = view[u] /\ held'[u] = held[u]
  OBVIOUS
<1> QED
  BY <1>1, <1>2, <1>3, <1>4, QuietStep DEF caches

LEMMA NotFoundStep ==
  ASSUME IInv, NEW t \in Threads, pc[t] = "fetch", Return(t),
         UNCHANGED <<data, view, queue, held, heap, caches>>
  PROVE  IInv'
<1> DEFINE place == IF t = writer THEN "write" ELSE "use"
<1>1. Goto(t, place) /\ place \in {"write", "use"}
  BY DEF Return
<1>2. Types'
  BY Bounds DEF IInv, Types, Return, Goto, Places, data, caches
<1>3. Roles'
  BY DEF IInv, Types, Roles, Return, Goto, data
<1>4. \A o \in Refs' \ {NoObject} : KeptObject(o)
  BY <1>2, HeapAsItIs DEF IInv
<1>5. \A u \in Threads : view'[u] = view[u] /\ held'[u] = held[u]
  OBVIOUS
<1> HIDE DEF place
<1> QED
  BY <1>1, <1>2, <1>3, <1>4, <1>5, QuietStep DEF caches

LEMMA EndReadStep == ASSUME IInv, NEW t \in Threads, EndRead(t) PROVE IInv'
<1> USE DEF EndRead
<1>1. Types'
  <2>1. heap' \in [Objects -> ObjectType]
    BY HeapIsOf DEF IInv, Types
  <2> QED
    BY <2>1, Bounds DEF IInv, Types, Goto, Hold, Places, data, caches, Absent, Versions
<1>2. Roles'
  BY DEF IInv, Types, Roles, Goto, Hold, data
<1>3. \A o \in Refs' \ {NoObject} : KeptObject(o)
  BY <1>1, HeapAsItIs DEF IInv
<1>4. \A u \in Threads : /\ view'[u] \in {view[u], Absent}
                         /\ held'[u] \in {held[u], NoObject}
                         /\ u # t => held'[u] = held[u]
                         /\ held'[u] # NoObject => view'[u] = view[u]
  BY DEF IInv, Types, Hold
<1> QED
  BY <1>1, <1>2, <1>3, <1>4, QuietStep DEF caches

------------------------------------------------------------------------------
(* Writers.                                                                 *)

LEMMA LookUpNewStep == ASSUME IInv, NEW t \in Threads, LookUpNew(t) PROVE IInv'
<1> USE DEF LookUpNew
<1>1. Types'
  BY Bounds DEF IInv, Types, Goto, Places, data, caches
<1>2. Roles'
  BY DEF IInv, Types, Roles, Goto, data, There
<1>3. \A o \in Refs' \ {NoObject} : KeptObject(o)
  BY <1>1, HeapAsItIs DEF IInv
<1>4. \A u \in Threads : view'[u] = view[u] /\ held'[u] = held[u]
  OBVIOUS
<1> QED
  BY <1>1, <1>2, <1>3, <1>4, QuietStep DEF caches

LEMMA FlushStep == ASSUME IInv, NEW t \in Threads, Flush(t) PROVE IInv'
<1> USE DEF Flush
<1>1. PICK place \in {"flushed", "updating"} :
        /\ Goto(t, place) /\ writes < MaxWrites
        /\ pc[t] = "write" \/ (pc[t] = "touched" /\ place = "updating")
        /\ place = "updating" => held[t] # NoObject
  BY DEF PassOn
<1>2. Types'
  <2>1. heap' \in [Objects -> ObjectType]
    BY HeapIsOf DEF IInv, Types
  <2> QED
    BY <1>1, <2>1, Bounds DEF IInv, Types, Goto, Places, data
<1>3. Roles'
  BY <1>1 DEF IInv, Types, Roles, Goto, data
<1>4. \A o \in Refs' \ {NoObject} : KeptObject(o)
  BY <1>2, HeapAsItIs DEF IInv
<1>5. \A u \in Threads : view'[u] = view[u] /\ held'[u] = held[u]
  OBVIOUS
<1> QED
  BY <1>1, <1>2, <1>3, <1>4, <1>5, QuietStep

LEMMA BeginWriteStep == ASSUME IInv, NEW t \in Threads, BeginWrite(t) PROVE IInv'
<1> USE DEF BeginWrite, WriteBegins
<1>1. Types'
  BY Bounds DEF IInv, Types, Goto, Places, caches, Versions, Absent
<1>2. Roles'
  BY Bounds DEF IInv, Types, Roles, Goto
<1>3. \A o \in Refs' \ {NoObject} : KeptObject(o) /\ Fate(o)
  BY <1>1, HeapAsItIs, NothingChanging DEF IInv
<1>4. Ordered'
  BY Bounds DEF IInv, Types, Ordered, Versions, Absent
<1>5. Announcing' = Announcing
  BY AnnouncingKept DEF IInv
<1>6. Announced' /\ (Unheard' <=> Unheard)
  BY <1>5, UnheardIs DEF IInv, Announced
<1>7. ~BeingWritten'
  BY DEF IInv, Types, BeingWritten, Goto
<1>8. committed' = committed /\ history' = history /\ committed <= committed'
  BY Bounds DEF IInv, Types, Versions
<1>9. \A u \in Threads : /\ held'[u] = held[u]
                         /\ u # writer' => u # writer /\ view'[u] = view[u]
  BY Bounds DEF IInv, Types
<1> QED
  BY <1>1, <1>2, <1>3, <1>4, <1>6, <1>7, <1>8, <1>9, KeptStep DEF caches

LEMMA WriteStep == ASSUME IInv, NEW t \in Threads, Write(t) PROVE IInv'
<1> USE DEF Write
<1>1. writes < MaxWrites
  BY DEF IInv, Roles
<1>2. Types'
  BY <1>1, Bounds DEF IInv, Types, Goto, Places, caches, Versions
<1>3. Roles'
  BY Bounds DEF IInv, Types, Roles, Goto
<1>4. \A o \in Refs' \ {NoObject} : KeptObject(o) /\ Fate(o)
  <2>1. t = writer /\ pc[writer] = "flushed"
    BY DEF IInv, Roles
  <2> QED
    BY <1>2, <2>1, HeapAsItIs, NothingChanging DEF IInv
<1>5. Ordered'
  BY Bounds DEF IInv, Types, Ordered, Versions
<1>6. Announcing' = Announcing
  BY AnnouncingKept DEF IInv
<1>7. Announced' /\ (Unheard' <=> Unheard)
  BY <1>6, UnheardIs DEF IInv, Announced
<1>8. BeingWritten /\ t = writer /\ pc[writer] # "touched"
  BY Bounds DEF IInv, Types, BeingWritten, Roles
<1>9. committed' = committed /\ history' = history /\ committed <= committed'
  BY Bounds DEF IInv, Types, Versions
<1>10. \A u \in Threads : view'[u] = view[u] /\ held'[u] = held[u] /\ writer' = writer
  OBVIOUS
<1> QED
  BY <1>2, <1>3, <1>4, <1>5, <1>7, <1>8, <1>9, <1>10, KeptStep DEF caches

LEMMA ReplaceStep == ASSUME IInv, NEW t \in Threads, Replace(t) PROVE IInv'
<1> USE DEF Replace
<1>1. Types'
  <2>1. heap' \in [Objects -> ObjectType]
    BY ExcuseIs, HeapIsOf DEF IInv, Types, Excuses
  <2>2. writes' \in Versions /\ working' \in Versions
    BY Bounds DEF IInv, Types, Versions
  <2> QED
    BY <2>1, <2>2, Bounds DEF IInv, Types, Goto, Places, caches
<1>2. Roles'
  BY Bounds DEF IInv, Types, Roles, Goto
<1>3. /\ \A o \in Refs' \ {NoObject} : KeptObject(o) /\ Fate(o)
      /\ cache' # NoObject => heap'[cache'].excuse # "none"
  <2>1. cache' = cache /\ "unflushed" \in Excuses
    BY DEF caches, Excuses
  <2>2. t = writer /\ pc[writer] = "write"
    BY DEF IInv, Roles
  <2> QED
    BY <1>1, <2>1, <2>2, HeapExcused, NothingChanging DEF IInv, Refs
<1>4. Ordered'
  BY Bounds DEF IInv, Types, Ordered, Versions
<1>5. Announcing' = Announcing
  BY AnnouncingKept DEF IInv
<1>6. Announced' /\ (Unheard' <=> Unheard)
  BY <1>5, UnheardIs DEF IInv, Announced
<1>7. ~Clean(cache)'
  BY <1>3 DEF Clean
<1>8. committed' = committed /\ history' = history /\ committed <= committed'
  BY Bounds DEF IInv, Types, Versions
<1>9. \A u \in Threads : view'[u] = view[u] /\ held'[u] = held[u] /\ writer' = writer
  OBVIOUS
<1> QED
  BY <1>1, <1>2, <1>3, <1>4, <1>6, <1>7, <1>8, <1>9, KeptStep DEF caches

LEMMA CommitStep == ASSUME IInv, NEW t \in Threads, Commit(t) PROVE IInv'
<1>1. /\ pc[t] \in {"write", "written"} /\ t = writer /\ t # None
      /\ committed' = working /\ history' = history \union {working}
      /\ writer' = None /\ working' = Absent
      /\ held' = [held EXCEPT ![t] = NoObject]
      /\ UNCHANGED <<cacheRegisters, writes, view, cache, registerCache, queue, absences>>
  BY Bounds DEF IInv, Roles, Commit, EndWrite, Hold, caches
<1>2. committed < working /\ committed \in Nat /\ working \in Nat /\ writes \in Nat
  BY <1>1, Bounds DEF IInv, Types, Ordered, Commit, Versions
<1>3. \/ Goto(t, "notify") /\ HeapIs(heap)
      \/ Goto(t, "idle") /\ HeapIs(Excuse(heap, registerCache, "unannounced"))
  BY DEF Commit
<1>4. Types'
  <2>1. heap' \in [Objects -> ObjectType]
    <3>1. "unannounced" \in Excuses
      BY DEF Excuses
    <3>2. Excuse(heap, registerCache, "unannounced") \in [Objects -> ObjectType]
      BY <3>1, ExcuseIs DEF IInv, Types
    <3> QED
      BY <1>3, <3>2, HeapIsOf DEF IInv, Types
  <2>2. pc' \in [Threads -> Places]
    BY <1>3 DEF IInv, Types, Goto, Places
  <2>3. held' \in [Threads -> Objects \union {NoObject}]
    BY <1>1 DEF IInv, Types
  <2>4. /\ committed' \in Versions /\ writes' \in Versions /\ working' \in Versions
        /\ history' \subseteq Versions
    BY <1>1, Bounds DEF IInv, Types, Versions, Absent
  <2> QED
    BY <1>1, <2>1, <2>2, <2>3, <2>4 DEF IInv, Types
<1>5. Roles'
  BY <1>1, <1>3, Bounds DEF IInv, Types, Roles, Goto
<1>6. Ordered'
  BY <1>1, <1>2, Bounds DEF IInv, Types, Ordered, Absent, Versions
<1>7. BeingWritten
  BY <1>1, <1>2 DEF BeingWritten
<1>8. \A u \in Threads : /\ view'[u] = view[u] /\ held'[u] \in {held[u], NoObject}
                         /\ held'[u] # NoObject => u # writer
  BY <1>1 DEF IInv, Types
<1>0. \A o : Fate(o) /\ pc[writer] # "touched"
  BY <1>1, <1>2 DEF Fate, Changing
<1>9. CASE Goto(t, "notify") /\ HeapIs(heap)
  <2>1. \A o \in Refs' \ {NoObject} : KeptObject(o)
    BY <1>4, <1>9, HeapAsItIs DEF IInv
  <2>2. Announcing' = Announcing \union {t} /\ t \notin Announcing
    BY <1>1, <1>9 DEF IInv, Types, Announcing, Goto
  <2>3. Cardinality(Announcing') = Cardinality(Announcing) + 1
    BY <2>2, AnnouncingSize, FS_AddElement
  <2>4. Announced'
    BY <1>1, <1>2, <2>3, AnnouncingSize DEF IInv, Types, Announced
  <2>5. Unheard'
    BY <2>2, UnheardIs
  <2>6. ~Clean(cache)'
    BY <1>0, <1>1, <1>7, <2>1 DEF IInv, KeptCurrent, Clean, KeptObject, Refs
  <2> QED
    BY <1>0, <1>1, <1>2, <1>4, <1>5, <1>6, <1>8, <2>1, <2>4, <2>5, <2>6, KeptStep
<1>10. CASE Goto(t, "idle") /\ HeapIs(Excuse(heap, registerCache, "unannounced"))
  <2>1. /\ \A o \in Refs' \ {NoObject} : KeptObject(o)
        /\ registerCache' # NoObject => heap'[registerCache'].excuse # "none"
    <3>1. "unannounced" \in Excuses
      BY DEF Excuses
    <3> QED
      BY <1>1, <1>4, <1>10, <3>1, HeapExcused DEF IInv, Refs
  <2>2. Announcing' = Announcing
    BY <1>1, <1>10, AnnouncingKept DEF IInv
  <2>3. Announced'
    BY <1>1, <1>2, <2>2, AnnouncingSize DEF IInv, Types, Announced
  <2>4. ~Clean(cache)' /\ ~Clean(registerCache)'
    BY <1>0, <1>1, <1>7, <2>1 DEF IInv, KeptCurrent, Clean, KeptObject, Refs
  <2> QED
    BY <1>0, <1>1, <1>2, <1>4, <1>5, <1>6, <1>8, <2>1, <2>3, <2>4, KeptStep
<1> QED
  BY <1>3, <1>9, <1>10

\* An object that a command changed, and was aborted, is like it was but for the excuse.
LEMMA UndoneIs ==
  ASSUME Types, NEW o
  PROVE  /\ Undone(o) \in [Objects -> ObjectType]
         /\ \A p \in Objects :
              /\ Undone(o)[p].desc = heap[p].desc /\ Undone(o)[p].amended = heap[p].amended
              /\ p = o /\ heap[p].desc > committed => Undone(o)[p].excuse = "undone"
              /\ Undone(o)[p] = heap[p] \/ Undone(o)[p].excuse = "undone"
<1>1. ASSUME NEW p \in Objects
      PROVE  /\ Undone(o)[p] \in ObjectType
             /\ Undone(o)[p].desc = heap[p].desc /\ Undone(o)[p].amended = heap[p].amended
             /\ p = o /\ heap[p].desc > committed => Undone(o)[p].excuse = "undone"
             /\ Undone(o)[p] = heap[p] \/ Undone(o)[p].excuse = "undone"
  <2>1. heap[p] \in ObjectType /\ "undone" \in Excuses
    BY DEF Types, Excuses
  <2>2. Undone(o)[p] = IF p = o /\ heap[p].desc > committed
                       THEN [heap[p] EXCEPT !.excuse = "undone"] ELSE heap[p]
    BY DEF Undone
  <2> QED
    BY <2>1, <2>2 DEF ObjectType
<1>2. Undone(o) = [p \in Objects |-> Undone(o)[p]]
  BY DEF Undone
<1> QED
  BY <1>1, <1>2

LEMMA AbortStep == ASSUME IInv, NEW t \in Threads, Abort(t) PROVE IInv'
<1>1. /\ pc[t] \in {"write", "written"} /\ t = writer
      /\ writer' = None /\ working' = Absent
      /\ held' = [held EXCEPT ![t] = NoObject]
      /\ Goto(t, "idle") /\ HeapIs(Undone(held[t]))
      /\ UNCHANGED <<cacheRegisters, committed, history, writes, view, cache, registerCache,
                     queue, absences>>
  BY DEF IInv, Roles, Abort, EndWrite, Hold, caches
<1>2. Types'
  <2>1. heap' \in [Objects -> ObjectType]
    BY <1>1, UndoneIs, HeapIsOf DEF IInv
  <2> QED
    BY <1>1, <2>1, Bounds DEF IInv, Types, Goto, Places, Versions, Absent
<1>3. Roles'
  BY <1>1, Bounds DEF IInv, Types, Roles, Goto
<1>4. ASSUME NEW o \in Refs' \ {NoObject}
      PROVE  KeptObject(o) /\ (Changing(o) => heap'[o].excuse = "undone") /\ Fate(o)
  <2>1. o \in Objects /\ heap'[o] = Undone(held[t])[o]
    BY <1>1, <1>2, UndoneIs, HeapIsOf, RefsAre DEF IInv
  <2>2. Changing(o) => o = held[t] /\ heap[o].desc > committed
    BY <1>1 DEF Changing
  <2> QED
    BY <2>1, <2>2, UndoneIs DEF IInv, KeptObject, Fate
<1>5. Ordered'
  BY <1>1, Bounds DEF IInv, Types, Ordered, Versions, Absent
<1>6. Announcing' = Announcing
  BY <1>1, AnnouncingKept DEF IInv
<1>7. Announced' /\ (Unheard' <=> Unheard)
  BY <1>1, <1>6, UnheardIs DEF IInv, Announced
<1>8. ~BeingWritten'
  BY <1>1 DEF BeingWritten
<1>9. history \subseteq history' /\ committed <= committed'
  BY <1>1, Bounds DEF IInv, Types, Versions
<1>10. \A u \in Threads : /\ view'[u] = view[u] /\ held'[u] \in {held[u], NoObject}
                          /\ held'[u] # NoObject => u # writer
  BY <1>1 DEF IInv, Types
<1> QED
  BY <1>1, <1>2, <1>3, <1>4, <1>5, <1>7, <1>8, <1>9, <1>10, KeptStep

------------------------------------------------------------------------------
(* Messages and evictions.                                                  *)

LEMMA NotifyStep == ASSUME IInv, NEW t \in Threads, Notify(t) PROVE IInv'
<1> USE DEF Notify
<1>1. Types'
  BY Bounds DEF IInv, Types, Goto, Places, data, caches
<1>2. Roles'
  BY DEF IInv, Types, Roles, Goto, data
<1>3. t # writer
  BY DEF IInv, Roles
<1>4. Ordered'
  BY DEF IInv, Ordered, data
<1>5. Announcing' = Announcing \ {t} /\ t \in Announcing
  BY DEF IInv, Types, Announcing, Goto
<1>6. Cardinality(Announcing') = Cardinality(Announcing) - 1
  BY <1>5, AnnouncingSize, FS_RemoveElement
<1>7. Announced'
  BY <1>6, AnnouncingSize, Bounds DEF IInv, Types, Announced, data, Versions
<1>8. Unheard'
  BY UnheardIs DEF IInv, Types
<1>9. \A u \in Threads \ {t} : pc'[u] = pc[u]
  BY DEF IInv, Types, Goto
<1>12. BeingWritten' => BeingWritten /\ pc'[writer'] = pc[writer]
  BY <1>3, <1>9 DEF IInv, Types, BeingWritten, data
<1>13. \A o \in Refs' \ {NoObject} : KeptObject(o) /\ Fate(o)
  BY <1>1, <1>3, <1>9, HeapAsItIs, StillChanging DEF IInv, Types, Changing, data
<1>10. committed' = committed /\ history' = history /\ committed <= committed'
  BY Bounds DEF IInv, Types, Versions, data
<1>11. \A u \in Threads : view'[u] = view[u] /\ held'[u] = held[u]
  OBVIOUS
<1> QED
  BY <1>1, <1>2, <1>4, <1>7, <1>8, <1>10, <1>11, <1>12, <1>13, KeptStep DEF caches, data

LEMMA ClearStep == ASSUME IInv, Clear PROVE IInv'
<1> USE DEF Clear
<1>1. Types'
  <2>1. heap' \in [Objects -> ObjectType]
    BY HeapIsOf DEF IInv, Types
  <2> QED
    BY <2>1, Bounds DEF IInv, Types, data
<1>2. Roles'
  BY DEF IInv, Types, Roles, data
<1>3. \A o \in Refs' \ {NoObject} : KeptObject(o) /\ Fate(o)
  BY <1>1, HeapAsItIs, StillChanging DEF IInv, data
<1>4. Ordered'
  BY DEF IInv, Ordered, data
<1>5. Announced'
  <2>1. Announcing' = Announcing
    BY DEF Announcing
  <2> QED
    BY <2>1, AnnouncingSize, Bounds DEF IInv, Types, Announced, data, Versions
<1>6. ~Clean(registerCache)'
  BY DEF Clean
<1>7. BeingWritten' => BeingWritten /\ pc'[writer'] = pc[writer]
  BY DEF BeingWritten, data
<1>8. committed' = committed /\ history' = history /\ committed <= committed'
  BY Bounds DEF IInv, Types, Versions, data
<1>9. \A u \in Threads : view'[u] = view[u] /\ held'[u] = held[u]
  OBVIOUS
<1> QED
  BY <1>1, <1>2, <1>3, <1>4, <1>5, <1>6, <1>7, <1>8, <1>9, KeptStep DEF data

LEMMA EvictStep == ASSUME IInv, Evict PROVE IInv'
<1> USE DEF Evict
<1>1. Types'
  <2>1. heap' \in [Objects -> ObjectType]
    BY HeapIsOf DEF IInv, Types
  <2> QED
    BY <2>1, Bounds DEF IInv, Types, data
<1>2. Roles'
  BY DEF IInv, Types, Roles, data
<1>3. \A o \in Refs' \ {NoObject} : KeptObject(o) /\ Fate(o)
  BY <1>1, HeapAsItIs, StillChanging DEF IInv, data
<1>4. Ordered'
  BY DEF IInv, Ordered, data
<1>5. Announced' /\ (Unheard' <=> Unheard)
  BY DEF IInv, Announced, Announcing, data, Unheard
<1>6. BeingWritten' => BeingWritten /\ pc'[writer'] = pc[writer]
  BY DEF BeingWritten, data
<1>7. committed' = committed /\ history' = history /\ committed <= committed'
  BY Bounds DEF IInv, Types, Versions, data
<1>8. \A u \in Threads : view'[u] = view[u] /\ held'[u] = held[u]
  OBVIOUS
<1> QED
  BY <1>1, <1>2, <1>3, <1>4, <1>5, <1>6, <1>7, <1>8, KeptStep DEF data

------------------------------------------------------------------------------
(* Objects that are made, cached or listed.                                 *)

\* A thread makes an object, which may become the one of the cache of registers.
LEMMA NewObjectStep ==
  ASSUME IInv, Types', Roles', UNCHANGED <<data, view, queue, cache>>,
         NEW t \in Threads, NEW place, Goto(t, place),
         pc[t] \in {"look", "fetch"}, place \in {"put", "use"},
         NEW v \in Versions, NEW doubt \in Excuses,
         v \in history \/ doubt = "uncommitted", doubt = "none" => v = committed,
         Hold(t, Free), registerCache' \in {registerCache, Free},
         HeapIs([heap EXCEPT ![Free] = ObjectOf(v, doubt)])
  PROVE  IInv'
<1> DEFINE new == ObjectOf(v, doubt)
           free == Free
<1>1. free \in Objects /\ free \notin Refs /\ free # NoObject
  BY FreeIsFree, ObjectNumbers DEF IInv
<1>2. new \in ObjectType
  BY Bounds DEF ObjectOf, ObjectType, Unlisted, Versions
<1>3. /\ held' = [held EXCEPT ![t] = free] /\ registerCache' \in {registerCache, free}
      /\ HeapIs([heap EXCEPT ![free] = new])
  BY DEF Hold
<1> HIDE DEF new, free
<1>4. [heap EXCEPT ![free] = new] \in [Objects -> ObjectType]
  BY <1>1, <1>2 DEF IInv, Types
<1>5. \A o \in Refs' \ {NoObject} : heap'[o] = IF o = free THEN new ELSE heap[o]
  BY <1>1, <1>3, <1>4, RefsAre, HeapIsOf DEF IInv, Types
<1>6. \A o \in Refs' \ {NoObject, free} : o \in Refs
  BY <1>3 DEF IInv, Types, Refs, Range
<1>7. new.desc = v /\ ~new.amended /\ new.members = Unlisted /\ new.excuse = doubt
  BY DEF new, ObjectOf
<1>8. Announcing' = Announcing
  BY AnnouncingKept DEF IInv
<1>9. Announced' /\ (Unheard' <=> Unheard) /\ Ordered'
  BY <1>8, UnheardIs DEF IInv, Announced, Ordered, data
\* The writer has other things to do while it is changing an object.
<1>15. ASSUME NEW o \in Refs' \ {NoObject, free}, Changing(o) PROVE Changing(o)'
  <2>1. writer # t /\ writer \in Threads
    BY <1>15 DEF Changing, IInv, Types
  <2>2. held'[writer] = held[writer] /\ pc'[writer] = pc[writer] /\ heap'[o] = heap[o]
    BY <1>3, <1>5, <2>1 DEF IInv, Types, Goto
  <2> QED
    BY <1>15, <2>1, <2>2 DEF Changing, data
<1>10. Made'
  BY <1>5, <1>6, <1>7, <1>15 DEF IInv, Made, data
<1>11. BeingWritten' => BeingWritten /\ (pc[writer] = "touched" => pc'[writer'] = "touched")
  BY DEF IInv, Types, BeingWritten, Goto, data
<1>12. KeptCurrent'
  <2>1. cache' = cache /\ cache \in Refs /\ cache \in Refs'
    BY DEF Refs
  <2>2. cache # NoObject => heap'[cache] = heap[cache]
    BY <1>1, <1>5, <2>1
  <2>3. cache # NoObject => cache # free /\ (Changing(cache) => Changing(cache)')
    BY <1>1, <1>15, <2>1
  <2>4. Clean(cache)' => Clean(cache) /\ heap'[cache] = heap[cache]
    BY <2>1, <2>2 DEF Clean
  <2> QED
    BY <1>11, <2>1, <2>3, <2>4 DEF IInv, KeptCurrent, Clean, Told, Current, data
<1>13. RegisterCurrent'
  <2>1. CASE registerCache' = free
    <3>1. heap'[registerCache'] = new
      BY <1>1, <1>5, <2>1 DEF Refs
    <3> QED
      BY <1>7, <3>1 DEF RegisterCurrent, Clean, Told, Current, data
  <2>2. CASE registerCache' = registerCache
    <3>1. registerCache \in Refs /\ registerCache \in Refs'
      BY <2>2 DEF Refs
    <3>2. registerCache # NoObject => heap'[registerCache] = heap[registerCache]
      BY <1>1, <1>5, <3>1
    <3>3. registerCache # NoObject =>
            registerCache # free /\ (Changing(registerCache) => Changing(registerCache)')
      BY <1>1, <1>15, <2>2, <3>1
    <3> QED
      BY <1>9, <2>2, <3>2, <3>3 DEF IInv, RegisterCurrent, Clean, Told, Current, data
  <2> QED
    BY <1>3, <2>1, <2>2
<1>14. HeldRecent'
  <2> SUFFICES ASSUME NEW u \in Threads, Clean(held[u])', u # writer' PROVE Recent(u)'
    BY DEF HeldRecent
  <2>1. held'[u] \in Refs' \ {NoObject} /\ heap'[held'[u]].excuse = "none"
        /\ view' = view /\ committed' = committed /\ writer' = writer
    BY RefsAre DEF Clean, data
  <2>2. committed \in Nat /\ view[u] \in Nat /\ view[u] <= committed
    BY Numbers DEF IInv, Ordered
  <2>3. CASE u = t
    <3>1. heap'[held'[u]] = new
      BY <1>1, <1>3, <1>5, <2>1, <2>3 DEF IInv, Types
    <3>2. new.desc = committed /\ ~new.amended /\ new.members = Unlisted
      BY <1>7, <2>1, <3>1
    <3> QED
      BY <2>1, <2>2, <3>1, <3>2 DEF Recent
  <2>4. CASE u # t
    <3>1. PICK o : o = held[u]
      OBVIOUS
    <3>2. held'[u] = o /\ o \in Refs /\ o \in Refs' \ {NoObject, free}
      BY <1>1, <1>3, <2>1, <2>4, <3>1, RefsAre DEF IInv, Types
    <3>3. heap'[o] = heap[o] /\ (Changing(o) => Changing(o)')
      BY <1>5, <1>15, <3>2
    <3>4. Recent(u)
      BY <2>1, <3>1, <3>2, <3>3 DEF IInv, HeldRecent, Clean
    <3> QED
      BY <2>1, <3>1, <3>2, <3>3, <3>4 DEF Recent
  <2> QED
    BY <2>3, <2>4
<1> QED
  BY <1>9, <1>10, <1>12, <1>13, <1>14 DEF IInv

LEMMA MakeRegisterStep ==
  ASSUME IInv, UNCHANGED <<data, view, queue>>,
         NEW t \in Threads, NEW place, Goto(t, place), pc[t] \in {"look", "fetch"},
         \/ place = "put" /\ pc[t] = "fetch"
         \/ place = "use" /\ t # writer,
         NEW v \in Versions, NEW doubt \in Excuses,
         v \in history \/ doubt = "uncommitted", doubt = "none" => v = committed,
         MakeRegister(t, v, doubt)
  PROVE  IInv'
<1>1. /\ pc' = [pc EXCEPT ![t] = place] /\ pc' \in [Threads -> Places]
      /\ \A u \in Threads : pc'[u] = IF u = t THEN place ELSE pc[u]
  BY DEF IInv, Types, Goto, Places
<1>2. CASE /\ registerCache # NoObject
           /\ Hold(t, registerCache)
           /\ UNCHANGED caches
           /\ HeapIs(Excuse(heap, registerCache, IF Unheard THEN "unheard" ELSE "none"))
  <2> DEFINE reason == IF Unheard THEN "unheard" ELSE "none"
  <2>1. reason \in Excuses /\ (reason = "none" => ~Unheard)
    BY DEF Excuses
  <2>2. HeapIs(Excuse(heap, registerCache, reason)) /\ held' = [held EXCEPT ![t] = registerCache]
    BY <1>2 DEF Hold
  <2> HIDE DEF reason
  <2>3. Types'
    <3>1. Excuse(heap, registerCache, reason) \in [Objects -> ObjectType]
      BY <2>1, ExcuseIs DEF IInv, Types
    <3>2. heap' \in [Objects -> ObjectType]
      BY <2>2, <3>1, HeapIsOf
    <3>3. held' \in [Threads -> Objects \union {NoObject}]
      BY <2>2 DEF IInv, Types
    <3> QED
      BY <1>1, <1>2, <3>2, <3>3 DEF IInv, Types, data, caches
  <2>4. \A u \in Threads : held'[u] = IF u = t THEN registerCache ELSE held[u]
    BY <2>2 DEF IInv, Types
  <2>5. Roles'
    BY <1>1, <1>2, <2>4 DEF IInv, Roles, data
  <2>6. /\ \A o \in Refs' \ {NoObject} : KeptObject(o)
        /\ heap'[registerCache].excuse = "none" => ~Unheard
    <3>1. registerCache \in Refs' \ {NoObject}
      BY <1>2 DEF Refs, caches
    <3> QED
      BY <2>1, <2>2, <2>3, <3>1, HeapExcused DEF IInv
  <2>7. \A o \in Refs' \ {NoObject} : o \in Refs
    BY <1>2, <2>2 DEF IInv, Types, Refs, Range, caches
  <2>8. Announcing' = Announcing
    BY AnnouncingKept DEF IInv
  <2>9. Announced' /\ (Unheard' <=> Unheard) /\ Ordered'
    BY <2>8, UnheardIs DEF IInv, Announced, Ordered, data
  <2>10. BeingWritten' => BeingWritten /\ (pc[writer] = "touched" => pc'[writer'] = "touched")
    BY <1>1 DEF IInv, Types, BeingWritten, data
  <2>13. ASSUME NEW o \in Refs' \ {NoObject} PROVE Fate(o) /\ (Changing(o) => Changing(o)')
    <3>1. Changing(o) => held'[writer] = held[writer] /\ pc'[writer] = pc[writer]
      BY <1>1, <2>4 DEF Changing, IInv, Types
    <3> QED
      BY <2>6, <3>1, StillChanging DEF IInv, data
  <2>14. cache' = cache /\ registerCache' = registerCache
         /\ cache \in Refs' /\ registerCache \in Refs'
    BY <1>2 DEF caches, Refs
  <2>11. KeptCurrent' /\ RegisterCurrent'
    <3>1. KeptCurrent'
      BY <2>6, <2>10, <2>13, <2>14, CacheKept DEF Clean, data
    <3> QED
      BY <2>6, <2>9, <2>13, <2>14, <3>1, RegisterKept DEF Clean, data
  <2>12. committed <= committed' /\ history \subseteq history' /\ view' = view
    BY Bounds DEF IInv, Types, Versions, data
  <2> QED
    BY <2>3, <2>4, <2>5, <2>6, <2>7, <2>9, <2>11, <2>12, <2>13, ObjectsKept DEF data
<1>3. CASE /\ Hold(t, Free)
           /\ registerCache' = IF cacheRegisters THEN Free ELSE registerCache
           /\ UNCHANGED cache
           /\ HeapIs([heap EXCEPT ![Free] = ObjectOf(v, doubt)])
  <2> DEFINE new == ObjectOf(v, doubt)
             free == Free
  <2>1. free \in Objects /\ free # NoObject
    BY FreeIsFree, ObjectNumbers DEF IInv
  <2>2. new \in ObjectType
    BY Bounds DEF ObjectOf, ObjectType, Unlisted, Versions
  <2>3. /\ held' = [held EXCEPT ![t] = free] /\ registerCache' \in {registerCache, free}
        /\ HeapIs([heap EXCEPT ![free] = new])
    BY <1>3 DEF Hold
  <2>4. UNCHANGED cache
    BY <1>3
  <2> HIDE DEF new, free
  <2>5. Types'
    <3>1. [heap EXCEPT ![free] = new] \in [Objects -> ObjectType]
      BY <2>1, <2>2 DEF IInv, Types
    <3>2. heap' \in [Objects -> ObjectType]
      BY <2>3, <3>1, HeapIsOf
    <3>3. held' \in [Threads -> Objects \union {NoObject}]
      BY <2>1, <2>3 DEF IInv, Types
    <3> QED
      BY <1>1, <2>1, <2>3, <2>4, <3>2, <3>3 DEF IInv, Types, data
  <2>6. \A u \in Threads : held'[u] = IF u = t THEN free ELSE held[u]
    BY <2>3 DEF IInv, Types
  <2>7. Roles'
    BY <1>1, <2>1, <2>6 DEF IInv, Roles, data
  <2> QED
    BY <1>3, <2>5, <2>7, NewObjectStep
<1> QED
  BY <1>2, <1>3 DEF MakeRegister

LEMMA FetchStep == ASSUME IInv, NEW t \in Threads, Fetch(t) PROVE IInv'
<1>1. CASE ~There(Sees(t))
  BY <1>1, NotFoundStep DEF Fetch
<1>2. CASE There(Sees(t))
  <2> DEFINE v == Sees(t)
             doubt == Doubt(t)
  <2>1. pc[t] = "fetch" /\ MakeRegister(t, v, doubt) /\ Goto(t, "put")
        /\ UNCHANGED <<data, view, queue>>
    BY <1>2 DEF Fetch
  <2>2. v \in Versions /\ doubt \in Excuses
    BY DEF Sees, Doubt, Excuses, IInv, Types
  <2>3. CASE t = writer
    <3>1. doubt = "uncommitted"
      BY <2>1, <2>3 DEF IInv, Roles, Doubt
    <3> HIDE DEF v, doubt
    <3> QED
      BY <2>1, <2>2, <3>1, MakeRegisterStep
  <2>4. CASE t # writer
    <3>1. v \in history
      BY <1>2, <2>4 DEF There, Sees, IInv, Ordered
    <3>2. doubt = "none" => v = committed
      BY <2>4 DEF Doubt, Sees
    <3> HIDE DEF v, doubt
    <3> QED
      BY <2>1, <2>2, <3>1, <3>2, MakeRegisterStep
  <2> QED
    BY <2>3, <2>4
<1> QED
  BY <1>1, <1>2

LEMMA GetVersionStep == ASSUME IInv, NEW t \in Threads, GetVersion(t) PROVE IInv'
<1>1. PICK v \in history : MakeRegister(t, v, "historic")
  BY DEF GetVersion
<1>2. v \in Versions /\ "historic" \in Excuses
  BY DEF IInv, Types, Excuses
<1>3. pc[t] = "look" /\ t # writer /\ Goto(t, "use") /\ UNCHANGED <<data, view, queue>>
  BY DEF GetVersion
<1> QED
  BY <1>1, <1>2, <1>3, MakeRegisterStep

\* What is cached without an excuse was read by a reader that is up to date.
LEMMA PutStep == ASSUME IInv, NEW t \in Threads, Put(t) PROVE IInv'
<1> DEFINE o == held[t]
           doubt == Doubt(t)
           place == IF t = writer THEN "write" ELSE "use"
<1>1. /\ pc[t] = "put" /\ cache' = o /\ HeapIs(Excuse(heap, o, doubt))
      /\ UNCHANGED <<data, view, held, registerCache, queue>>
      /\ Goto(t, place) /\ place \in {"write", "use"}
  BY DEF Put, Return
<1>2. doubt \in Excuses
  BY DEF Doubt, Excuses
<1>3. o \in Objects /\ o # NoObject /\ o \in Refs
  BY <1>1, RefsAre DEF IInv, Types, Roles
<1>4. /\ pc' \in [Threads -> Places]
      /\ \A u \in Threads : pc'[u] = IF u = t THEN place ELSE pc[u]
  BY <1>1 DEF IInv, Types, Goto, Places
<1>5. doubt = "none" => ~BeingWritten /\ view[t] = committed /\ t # writer
  BY <1>1 DEF Doubt, IInv, Roles
<1>6. Roles'
  BY <1>1, <1>4 DEF IInv, Roles, data
<1> HIDE DEF doubt, place, o
<1>7. Types'
  <2>1. Excuse(heap, o, doubt) \in [Objects -> ObjectType]
    BY <1>2, ExcuseIs DEF IInv, Types
  <2>2. heap' \in [Objects -> ObjectType]
    BY <1>1, <2>1, HeapIsOf
  <2> QED
    BY <1>1, <1>3, <1>4, <2>2 DEF IInv, Types, data
<1>8. /\ \A p \in Refs' \ {NoObject} : KeptObject(p)
      /\ heap'[o].excuse = "none" => doubt = "none"
  <2>1. o \in Refs' \ {NoObject}
    BY <1>1, <1>3 DEF Refs
  <2> QED
    BY <1>1, <1>2, <1>7, <2>1, HeapExcused DEF IInv
<1>9. \A p \in Refs' \ {NoObject} : p \in Refs
  BY <1>1, <1>3 DEF Refs
<1>10. Announcing' = Announcing
  BY <1>1, AnnouncingKept DEF IInv
<1>11. Announced' /\ (Unheard' <=> Unheard) /\ Ordered'
  BY <1>1, <1>10, UnheardIs DEF IInv, Announced, Ordered, data
<1>15. ASSUME NEW p \in Refs' \ {NoObject} PROVE Fate(p) /\ (Changing(p) => Changing(p)')
  <2>1. Changing(p) => held'[writer] = held[writer] /\ pc'[writer] = pc[writer]
    BY <1>1, <1>4 DEF Changing, IInv, Types
  <2> QED
    BY <1>1, <1>8, <2>1, StillChanging DEF IInv, data
<1>12. KeptCurrent'
  <2> SUFFICES ASSUME heap'[o].excuse = "none" PROVE ~BeingWritten' /\ Current(cache)'
    BY <1>1 DEF KeptCurrent, Clean, Told
  <2>1. ~BeingWritten /\ view[t] = committed /\ t # writer
    BY <1>5, <1>8
  <2>2. ~BeingWritten'
    BY <1>1, <1>4, <2>1 DEF IInv, Types, BeingWritten, data
  <2>3. heap'[o] = heap[o] /\ heap[o].excuse = "none"
    BY <1>1, <1>3, <1>8 DEF KeptObject, Refs
  <2>4. Recent(t) /\ ~Changing(o)
    BY <1>3, <2>1, <2>3, ChangingIsWriting DEF IInv, HeldRecent, Clean, o
  <2>5. committed \in Nat /\ committed' = committed /\ heap[o].desc \in Nat
    BY <1>1, <1>3, Numbers DEF IInv, data
  <2>6. heap[o].desc = committed /\ ~heap[o].amended
        /\ heap[o].members \in (committed..committed) \union {Unlisted}
    BY <2>1, <2>4, <2>5 DEF Recent, o
  <2> QED
    BY <1>1, <2>2, <2>3, <2>5, <2>6 DEF Current
<1>13. RegisterCurrent'
  <2>1. registerCache' = registerCache /\ registerCache \in Refs' /\ committed' = committed
    BY <1>1 DEF Refs, data
  <2> QED
    BY <1>8, <1>11, <1>15, <2>1, RegisterKept DEF Clean
<1>14. committed <= committed' /\ history \subseteq history'
  BY <1>1, Bounds DEF IInv, Types, Versions, data
<1> QED
  BY <1>1, <1>6, <1>7, <1>8, <1>9, <1>11, <1>12, <1>13, <1>14, <1>15, ObjectsKept DEF data

LEMMA ListMembersStep == ASSUME IInv, NEW t \in Threads, ListMembers(t) PROVE IInv'
<1> DEFINE o == held[t]
           doubt == Doubt(t)
           seen == Sees(t)
           listed == [heap EXCEPT ![o].members = seen]
<1>1. /\ o # NoObject /\ HeapIs(Excuse(listed, o, doubt))
      /\ UNCHANGED <<data, pc, view, held, cache, registerCache, queue>>
  BY DEF ListMembers, caches
<1>2. doubt \in Excuses /\ o \in Objects /\ seen \in Versions
  BY <1>1, RefsAre DEF IInv, Types, Doubt, Sees, Excuses
<1>3. doubt = "none" => ~BeingWritten /\ seen = committed
  BY DEF ListMembers, Doubt, Sees, BeingWritten, IInv, Roles
<1>4. listed \in [Objects -> ObjectType]
      /\ \A p \in Objects : /\ listed[p].desc = heap[p].desc
                            /\ listed[p].amended = heap[p].amended
                            /\ listed[p].excuse = heap[p].excuse
                            /\ p # o => listed[p] = heap[p]
                            /\ p = o => listed[p].members = seen
  <2>1. seen \in 0..Unlisted /\ heap[o] \in ObjectType
    BY <1>2, Bounds DEF IInv, Types, Unlisted, Versions
  <2> HIDE DEF seen
  <2>2. [heap[o] EXCEPT !.members = seen] \in ObjectType
        /\ [heap[o] EXCEPT !.members = seen].desc = heap[o].desc
        /\ [heap[o] EXCEPT !.members = seen].amended = heap[o].amended
        /\ [heap[o] EXCEPT !.members = seen].excuse = heap[o].excuse
        /\ [heap[o] EXCEPT !.members = seen].members = seen
    BY <2>1 DEF ObjectType
  <2>3. listed = [heap EXCEPT ![o] = [heap[o] EXCEPT !.members = seen]]
    OBVIOUS
  <2> HIDE DEF listed, o
  <2> QED
    BY <1>2, <2>2, <2>3 DEF IInv, Types
<1> HIDE DEF doubt, listed, o, seen
<1>5. /\ Excuse(listed, o, doubt) \in [Objects -> ObjectType]
      /\ \A p \in Objects :
           /\ Excuse(listed, o, doubt)[p].desc = listed[p].desc
           /\ Excuse(listed, o, doubt)[p].amended = listed[p].amended
           /\ Excuse(listed, o, doubt)[p].members = listed[p].members
           /\ Excuse(listed, o, doubt)[p].excuse =
                IF p = o /\ listed[p].excuse = "none" THEN doubt ELSE listed[p].excuse
  BY <1>2, <1>4, ExcuseIs
<1>6. heap' \in [Objects -> ObjectType]
      /\ \A p \in Objects : p \in Refs' => heap'[p] = Excuse(listed, o, doubt)[p]
  BY <1>1, <1>5, HeapIsOf
<1>7. Types' /\ Refs' = Refs
  BY <1>1, <1>6 DEF IInv, Types, Refs, data
<1>8. ASSUME NEW p \in Refs \ {NoObject}
      PROVE  /\ p \in Objects
             /\ heap'[p].desc = heap[p].desc /\ heap'[p].amended = heap[p].amended
             /\ heap[p].excuse \in {"uncommitted", "undone"} => heap'[p].excuse = heap[p].excuse
             /\ heap'[p].excuse = "none" => heap[p].excuse = "none"
             /\ heap'[p].members = IF p = o THEN seen ELSE heap[p].members
             /\ p = o /\ heap'[p].excuse = "none" => doubt = "none"
             /\ Changing(p)' <=> Changing(p)
  <2>1. p \in Objects
    BY RefsAre DEF IInv
  <2>2. heap'[p].desc = heap[p].desc /\ heap'[p].amended = heap[p].amended
    BY <1>4, <1>5, <1>6, <1>7, <2>1
  <2>3. Changing(p)' <=> Changing(p)
    BY <1>1, <2>2 DEF Changing, data
  <2> QED
    BY <1>4, <1>5, <1>6, <1>7, <2>1, <2>2, <2>3
<1>9. Roles' /\ Ordered' /\ Announced' /\ (Unheard' <=> Unheard)
      /\ (BeingWritten' <=> BeingWritten) /\ committed' = committed /\ history' = history
      /\ writer' = writer
  BY <1>1 DEF IInv, Roles, Ordered, Announced, Announcing, Unheard, BeingWritten, data
<1>10. Made'
  BY <1>7, <1>8, <1>9 DEF IInv, Made
<1>11. ASSUME NEW p \in Refs \ {NoObject}, heap'[p].excuse = "none", Told(p) PROVE Told(p)'
  <2>1. heap'[p].members \in {committed, Unlisted}
    BY <1>3, <1>8, <1>11 DEF Told, Current
  <2> QED
    BY <1>8, <1>9, <1>11, <2>1 DEF Told, Current
<1>12. KeptCurrent' /\ RegisterCurrent'
  <2>1. cache \in Refs /\ registerCache \in Refs
    BY DEF Refs
  <2> QED
    BY <1>1, <1>8, <1>9, <1>11, <2>1 DEF IInv, KeptCurrent, RegisterCurrent, Clean
<1>13. HeldRecent'
  <2> SUFFICES ASSUME NEW u \in Threads, u # writer, held[u] # NoObject,
                      heap'[held[u]].excuse = "none"
               PROVE  Recent(u)'
    BY <1>1, <1>9 DEF HeldRecent, Clean
  <2>1. held[u] \in Refs \ {NoObject}
    BY RefsAre DEF IInv
  <2>2. Recent(u)
    BY <1>8, <2>1 DEF IInv, HeldRecent, Clean
  <2>3. committed \in view[u]..committed
    BY Numbers DEF IInv, Ordered
  <2>4. heap'[held[u]].members \in (view[u]..committed) \union {Unlisted}
    BY <1>3, <1>8, <2>1, <2>2, <2>3 DEF Recent
  <2> QED
    BY <1>1, <1>8, <1>9, <2>1, <2>2, <2>4 DEF Recent
<1> QED
  BY <1>7, <1>9, <1>10, <1>12, <1>13 DEF IInv

------------------------------------------------------------------------------
(* Objects that are changed in place.                                       *)

LEMMA AmendStep ==
  ASSUME IInv, Roles', Ordered', NEW t \in Threads, held[t] # NoObject, Amend(t),
         UNCHANGED <<cacheRegisters, committed, history, absences, writer, view, held>>,
         UNCHANGED <<caches, queue>>,
         NEW place, Goto(t, place),
         \/ /\ pc[t] = "write" /\ working = committed /\ writes < MaxWrites
            /\ place = "touched" /\ UNCHANGED <<writes, working>>
         \/ /\ pc[t] = "updating" /\ place = "written"
            /\ writes' = writes + 1 /\ working' = writes'
  PROVE  IInv'
<1>0. PICK o : o = held[t]
  OBVIOUS
<1> DEFINE next == writes + 1
           new == [heap EXCEPT ![o].desc = next, ![o].amended = TRUE]
<1>1. /\ t = writer /\ writer # None /\ writes < MaxWrites /\ t \notin Announcing
      /\ o \in Objects /\ o \in Refs /\ next \in Versions /\ next > committed
  <2>1. t = writer /\ writes < MaxWrites
    BY DEF IInv, Roles
  <2>2. committed <= writes /\ committed \in Nat /\ writes \in Nat
    BY Numbers DEF IInv, Ordered
  <2> QED
    BY <1>0, <2>1, <2>2, RefsAre, Bounds DEF IInv, Types, Versions, Announcing
<1>2. HeapIs(new)
  BY <1>0 DEF Amend
<1> HIDE DEF next
<1>3. new \in [Objects -> ObjectType]
      /\ \A p \in Objects :
           /\ p # o => new[p] = heap[p]
           /\ new[p].members = heap[p].members /\ new[p].excuse = heap[p].excuse
      /\ new[o].desc = next /\ new[o].amended
  <2>1. heap[o] \in ObjectType
    BY <1>1 DEF IInv, Types
  <2>2. DEFINE r == [heap[o] EXCEPT !.desc = next, !.amended = TRUE]
  <2>3. r \in ObjectType /\ r.desc = next /\ r.amended
        /\ r.members = heap[o].members /\ r.excuse = heap[o].excuse
    BY <1>1, <2>1 DEF ObjectType
  <2>4. new = [heap EXCEPT ![o] = r]
    OBVIOUS
  <2> HIDE DEF r, new
  <2> QED
    BY <1>1, <2>3, <2>4 DEF IInv, Types
<1> HIDE DEF new
<1>4. Refs' = Refs
  BY DEF Refs, caches
<1>5. heap' \in [Objects -> ObjectType] /\ \A p \in Refs \ {NoObject} : heap'[p] = new[p]
  BY <1>2, <1>3, <1>4, HeapIsOf, RefsAre DEF IInv
<1>6. Types'
  <2>1. place \in Places
    BY DEF Places
  <2>2. writes' \in Versions /\ working' \in Versions
    BY <1>1 DEF IInv, Types, next
  <2> QED
    BY <1>5, <2>1, <2>2 DEF IInv, Types, Goto, caches
<1>7. pc'[t] = place /\ \A u \in Threads \ {t} : pc'[u] = pc[u]
  BY DEF IInv, Types, Goto
\* It is the object that the writer is changing now, and no other is.
<1>8. o # NoObject /\ Changing(o)'
  <2>1. o # NoObject /\ heap'[o].desc = next /\ heap'[o].amended /\ o = held'[writer']
    BY <1>0, <1>1, <1>3, <1>5
  <2>2. committed' = committed /\ writer' = t /\ writer' # None
    BY <1>1
  <2>3. \/ pc'[writer'] = "touched" /\ next = writes' + 1
        \/ pc'[writer'] = "written" /\ next = working'
    BY <1>1, <1>7 DEF next
  <2> QED
    BY <1>1, <2>1, <2>2, <2>3 DEF Changing
<1>9. ASSUME NEW p \in Refs \ {NoObject}, p # o PROVE ~Changing(p) /\ heap'[p] = heap[p]
  BY <1>0, <1>1, <1>3, <1>5, <1>9, RefsAre DEF IInv, Changing
<1>10. \A p \in Refs \ {NoObject} :
         heap'[p].members = heap[p].members /\ heap'[p].excuse = heap[p].excuse
  BY <1>3, <1>5, RefsAre DEF IInv
<1>11. Announced' /\ (Unheard' <=> Unheard)
  <2>1. pc[t] # "notify" /\ place # "notify"
    OBVIOUS
  <2>2. Announcing' = Announcing
    BY <2>1, AnnouncingKept DEF IInv
  <2> QED
    BY <2>2, UnheardIs DEF IInv, Announced
<1>12. Made'
  BY <1>4, <1>8, <1>9 DEF IInv, Made
<1>13. ASSUME NEW p \in Refs \ {NoObject}, Told(p) PROVE Told(p)'
  <2>1. heap'[p].members \in {committed', Unlisted}
    BY <1>10, <1>13 DEF Told, Current
  <2>2. CASE p = o
    BY <1>8, <2>1, <2>2 DEF Told
  <2>3. CASE p # o
    BY <1>9, <1>13, <2>3 DEF Told, Current
  <2> QED
    BY <2>2, <2>3
<1>14. cache \in Refs /\ registerCache \in Refs /\ UNCHANGED <<cache, registerCache>>
  BY DEF Refs, caches
<1>15. KeptCurrent'
  <2> SUFFICES ASSUME Clean(cache)' PROVE Told(cache)' /\ pc'[writer'] = "touched"
    BY DEF KeptCurrent
  <2>1. Clean(cache) /\ cache \in Refs \ {NoObject}
    BY <1>10, <1>14 DEF Clean
  <2>2. Told(cache) /\ (BeingWritten => pc[writer] = "touched")
    BY <2>1 DEF IInv, KeptCurrent
  <2>3. pc[t] # "updating"
    BY <1>1, <2>2 DEF BeingWritten
  <2>4. Told(cache)'
    BY <1>13, <1>14, <2>1, <2>2 DEF Told, Current
  <2> QED
    BY <1>1, <1>7, <2>3, <2>4
<1>16. RegisterCurrent'
  <2> SUFFICES ASSUME Clean(registerCache)', ~Unheard' PROVE Told(registerCache)'
    BY DEF RegisterCurrent
  <2>1. Clean(registerCache) /\ registerCache \in Refs \ {NoObject}
    BY <1>10, <1>14 DEF Clean
  <2>2. Told(registerCache)
    BY <1>11, <2>1 DEF IInv, RegisterCurrent
  <2> QED
    BY <1>13, <1>14, <2>1, <2>2 DEF Told, Current
<1>17. HeldRecent'
  <2> SUFFICES ASSUME NEW u \in Threads, Clean(held[u])', u # writer' PROVE Recent(u)'
    BY DEF HeldRecent
  <2>1. PICK p : p = held[u]
    OBVIOUS
  <2>2. p \in Refs \ {NoObject} /\ held'[u] = p /\ heap[p].excuse = "none"
        /\ view'[u] = view[u] /\ committed' = committed
    BY <1>10, <2>1, RefsAre DEF IInv, Clean
  <2>3. Recent(u)
    BY <2>1, <2>2 DEF IInv, HeldRecent, Clean
  <2>4. CASE p # o
    BY <1>9, <2>1, <2>2, <2>3, <2>4 DEF Recent
  <2>5. CASE p = o
    <3>1. view[u] \in Nat /\ view[u] <= committed /\ committed \in Nat /\ next \in Nat
      BY <1>1, Numbers DEF IInv, Ordered, Versions
    <3>2. heap'[p].desc = next /\ next > view[u]
      BY <1>1, <1>3, <1>5, <2>2, <2>5, <3>1
    <3>3. heap'[p].members \in (view[u]..committed) \union {Unlisted}
      BY <1>10, <2>1, <2>2, <2>3 DEF Recent
    <3> QED
      BY <1>8, <2>2, <2>5, <3>1, <3>2, <3>3 DEF Recent
  <2> QED
    BY <2>4, <2>5
<1> QED
  BY <1>6, <1>11, <1>12, <1>15, <1>16, <1>17 DEF IInv

LEMMA TouchStep == ASSUME IInv, NEW t \in Threads, Touch(t) PROVE IInv'
<1> USE DEF Touch
<1>1. Roles' /\ Ordered'
  BY DEF IInv, Types, Roles, Ordered, Goto, data
<1> QED
  BY <1>1, AmendStep DEF data

LEMMA UpdateInPlaceStep == ASSUME IInv, NEW t \in Threads, UpdateInPlace(t) PROVE IInv'
<1> USE DEF UpdateInPlace
<1>1. held[t] # NoObject
  BY DEF IInv, Roles
<1>2. Roles'
  BY Bounds DEF IInv, Types, Roles, Goto
<1>3. Ordered'
  BY Bounds DEF IInv, Types, Ordered, Versions
<1> QED
  BY <1>1, <1>2, <1>3, AmendStep

------------------------------------------------------------------------------
(* The theorems.                                                            *)

LEMMA InitInv == Init => IInv
<1> SUFFICES ASSUME Init PROVE IInv
  OBVIOUS
<1>1. Types
  BY Bounds, BlankType DEF Init, Types, Versions, Absent, Places, NoObject
<1>2. Roles /\ Ordered
  BY Bounds DEF Init, Roles, Ordered, Absent
<1>3. Announced
  <2>1. Announcing = {}
    BY DEF Init, Announcing
  <2> QED
    BY <2>1, FS_EmptySet DEF Init, Announced, Absent
<1>4. Refs \subseteq {NoObject}
  BY DEF Init, Refs, Range
<1> QED
  BY <1>1, <1>2, <1>3, <1>4 DEF Init, IInv, Made, KeptCurrent, RegisterCurrent, HeldRecent, Clean

LEMMA StepInv == IInv /\ [Next]_vars => IInv'
<1> SUFFICES ASSUME IInv, [Next]_vars PROVE IInv'
  OBVIOUS
<1>1. CASE UNCHANGED vars
  BY <1>1 DEF vars, data, caches, IInv, Types, Roles, Ordered, Announced, Announcing, Made,
       Refs, KeptCurrent, RegisterCurrent, HeldRecent, Clean, Told, Current, Changing, Recent,
       BeingWritten, Unheard
<1>2. ASSUME NEW t \in Threads, Reading(t) PROVE IInv'
  BY <1>2, BeginReadStep, HitStep, MissStep, FetchStep, PutStep, GetVersionStep,
     ListMembersStep, EndReadStep DEF Reading
<1>3. ASSUME NEW t \in Threads, Writing(t) PROVE IInv'
  BY <1>3, BeginWriteStep, TouchStep, FlushStep, WriteStep, UpdateInPlaceStep, ReplaceStep,
     LookUpNewStep, CommitStep, AbortStep, NotifyStep DEF Writing
<1> QED
  BY <1>1, <1>2, <1>3, ClearStep, EvictStep DEF Next

\* The variables keep their types; there are never more messages than commits.
THEOREM TypeCorrect == Spec => []TypeOK
<1>1. IInv => TypeOK
  <2> SUFFICES ASSUME IInv PROVE TypeOK
    OBVIOUS
  <2>1. queue \in 0..MaxWrites
    BY AnnouncingSize, Bounds DEF IInv, Types, Announced, Versions
  <2>2. {cache, registerCache} \union Range(held) \subseteq Objects \union {NoObject}
    BY RefsAre DEF IInv, Refs
  <2>3. \A o \in Objects : /\ heap[o].desc \in Versions /\ heap[o].amended \in BOOLEAN
                           /\ heap[o].members \in 0..Unlisted /\ heap[o].excuse \in Excuses
    BY DEF IInv, Types, ObjectType
  <2> QED
    BY <2>1, <2>2, <2>3 DEF IInv, Types, Roles, TypeOK
<1> QED
  BY <1>1, InitInv, StepInv, PTL DEF Spec

\* What CachingStore hands out is what was last committed, unless the register is being
\* written or one of the named races and omissions came about, an aborted change in place
\* among them (CachingStore.getCurrentVersion, addToRegister, update).
THEOREM CacheCorrect == Spec => []CachedIsCurrent
<1>1. IInv => CachedIsCurrent
  BY ChangingIsWriting DEF IInv, KeptCurrent, CachedIsCurrent, Clean, Told
<1> QED
  BY <1>1, InitInv, StepInv, PTL DEF Spec

\* What was never committed is in nobody's hands but the writer's, unless the writer looked
\* up what it had written (CommandRegister.batchRegister), or changed the object that others
\* had too, before the commit or before an abort (CommandTag, StoreBaseImpl.doUpdateRegister).
THEOREM CommittedIsShared == Spec => []OnlyCommittedIsShared
<1>1. IInv => OnlyCommittedIsShared
  BY RefsAre DEF IInv, Made, Changing, OnlyCommittedIsShared
<1> QED
  BY <1>1, InitInv, StepInv, PTL DEF Spec

\* No request is given a register older than its own transaction, with the exceptions of
\* CacheCorrect.
THEOREM ViewsRespected == Spec => []NotOlderThanView
<1>1. IInv => NotOlderThanView
  BY DEF IInv, Roles, HeldRecent, Recent, NotOlderThanView, Clean
<1> QED
  BY <1>1, InitInv, StepInv, PTL DEF Spec

\* Once all messages are processed the cache of registers is current, unless a command sent
\* none, an older version was asked for, the writer is changing the object, or changed it
\* and was aborted (RegisterCache, Command.notify, StoreBaseImpl.doUpdateRegister).
THEOREM RegisterCacheCorrect == Spec => []RegisterCacheCatchesUp
<1>1. IInv => RegisterCacheCatchesUp
  <2> SUFFICES ASSUME IInv, Clean(registerCache), ~Unheard, ~Current(registerCache)
               PROVE  BeingWritten /\ registerCache = held[writer]
    BY DEF RegisterCacheCatchesUp, Clean
  <2>1. Changing(registerCache)
    BY DEF IInv, RegisterCurrent, Told
  <2> QED
    BY <2>1, ChangingIsWriting DEF IInv
<1> QED
  BY <1>1, InitInv, StepInv, PTL DEF Spec
==============================================================================
