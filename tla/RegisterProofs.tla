---------------------------- MODULE RegisterProofs ----------------------------
(***************************************************************************)
(* What holds of the registry for requests of every kind, those that write *)
(* what their validation read included.                                    *)
(*                                                                         *)
(* Type correctness, for any number of clients; only an item that is       *)
(* declared its own successor is left out, which makes two versions in one *)
(* commit.  What makes it a theorem is the bound on the versions: a commit *)
(* writes the version after one that was read, then or earlier, and none   *)
(* is read whose number is greater than that of the commits so far.        *)
(*                                                                         *)
(* The register: it comes and goes with its item and no member is made or  *)
(* left without it, if there is one client or nobody erases the register;  *)
(* and with one client its history is linear.  What a validation found is  *)
(* then still there when the request is executed (Sheltered).              *)
(***************************************************************************)
EXTENDS RegistryCommandsProofs

NoSelfSuccession == \A r \in Requests : r.successor \notin r.on

\* A thing, and what was read of one, that has no version more than "room".
Small(thing, room) == thing \in ThingType /\ thing.current <= room

SmallSeen(seen, room) == seen \in SeenType /\ seen.base <= room

TInv ==
  /\ store = [x \in Things |-> store[x]]
  /\ \A x \in Things : Small(store[x], Room)
  /\ job = [t \in Threads |-> job[t]]
  /\ \A t \in Threads : job[t] # Idle =>
       /\ job[t].request \in Requests
       /\ \A x \in Reads(job[t].request) : SmallSeen(job[t].seen[x], Room)
  /\ commits \in 0..MaxCommits

------------------------------------------------------------------------------
(* What the store operations make of small things.                          *)

LEMMA SmallerIsSmall ==
  ASSUME NEW room \in Nat
  PROVE  /\ \A thing : Small(thing, room) => Small(thing, room + 1)
         /\ \A seen : SmallSeen(seen, room) => SmallSeen(seen, room + 1)
         /\ Small(Unknown, room)
<1>1. Unknown \in ThingType /\ Unknown.current = 0
  BY UnknownSound DEF Sound, Linear, Unknown
<1> QED
  BY <1>1 DEF Small, SmallSeen, ThingType, SeenType

LEMMA ReadSmall ==
  ASSUME NEW thing, NEW room \in Nat, room <= MaxVersions, Small(thing, room),
         NEW status \in Statuses \union {"keep"}
  PROVE  /\ SmallSeen(GetCurrentVersion(thing), room)
         /\ SmallSeen(WithStatus(GetCurrentVersion(thing), status), room)
<1> DEFINE seen == GetCurrentVersion(thing)
<1>1. /\ thing.current \in Nat /\ thing.current <= room
      /\ thing.version \in [Versions -> VersionType]
      /\ (Exists(thing) => thing.current \in Versions)
  BY Bounds DEF Small, ThingType, Exists, Versions
<1>2. Absent \in VersionType
  BY DEF Absent, VersionType
<1>3. CurrentVersion(thing) \in VersionType
  BY <1>1, <1>2 DEF CurrentVersion
<1>4. seen \in SeenType /\ seen.base = thing.current
  BY <1>1, <1>3 DEF GetCurrentVersion, SeenType, VersionType
<1> HIDE DEF seen
<1>5. WithStatus(seen, status) \in SeenType /\ WithStatus(seen, status).base = seen.base
  BY <1>4 DEF WithStatus, SeenType
<1> QED
  BY <1>1, <1>4, <1>5 DEF SmallSeen, seen

LEMMA StatusSmall ==
  ASSUME NEW seen, NEW room \in Nat, SmallSeen(seen, room),
         NEW status \in Statuses \union {"keep"}
  PROVE  SmallSeen(WithStatus(seen, status), room)
BY DEF SmallSeen, WithStatus, SeenType

LEMMA NextVersionSmall ==
  ASSUME NEW thing, NEW room \in Nat, room < MaxVersions, Small(thing, room),
         NEW seen, SmallSeen(seen, room)
  PROVE  /\ Small(NextVersion(thing, seen), room + 1)
         /\ NextVersion(thing, seen).current \in Versions
         /\ NextVersion(thing, seen).stored = thing.stored
<1> DEFINE new == NextVersion(thing, seen)
           n == seen.base + 1
<1>1. /\ seen \in SeenType /\ seen.base \in Nat /\ seen.base <= room
      /\ thing.version \in [Versions -> VersionType]
      /\ thing.stored \in [Versions -> Nat] /\ thing.live \in SUBSET Nat
  BY DEF Small, ThingType, SmallSeen, SeenType
<1>2. n \in Versions /\ n \in Nat /\ n <= room + 1
  BY <1>1, Bounds DEF Versions
<1>3. /\ new = [current |-> n, version |-> new.version, stored |-> thing.stored,
                live |-> thing.live]
      /\ new.version = [k \in Versions |->
                          IF k = n THEN Written(thing.version[k], seen)
                          ELSE IF k = seen.base THEN Closed(thing.version[k])
                          ELSE thing.version[k]]
  BY DEF NextVersion
<1> HIDE DEF new
<1>4. new.version \in [Versions -> VersionType]
  <2>1. \A k \in Versions : /\ thing.version[k] \in VersionType
                          /\ Written(thing.version[k], seen) \in VersionType
                          /\ Closed(thing.version[k]) \in VersionType
    BY <1>1, WrittenType
  <2> QED
    BY <1>3, <2>1
<1> QED
  BY <1>1, <1>2, <1>3, <1>4 DEF Small, ThingType, new

LEMMA UpdateEntitySmall ==
  ASSUME NEW thing, NEW room \in Nat, room < MaxVersions, Small(thing, room),
         NEW seen, SmallSeen(seen, room), NEW content \in Nat, NEW asGraph \in BOOLEAN,
         NEW new \in UpdateEntity(thing, seen, content, asGraph)
  PROVE  Small(new, room + 1)
<1> DEFINE written == NextVersion(thing, seen)
           n == written.current
<1>1. Small(written, room + 1) /\ n \in Versions
  BY NextVersionSmall
<1>2. PICK old, m : new = WithEntity(written, old, content, asGraph, Without(thing, m))
  BY DEF UpdateEntity
<1> DEFINE left == Without(thing, m)
<1>3. left \subseteq Nat
  BY DEF Small, ThingType, Without
<1> HIDE DEF written, left
<1>4. /\ n \in Nat /\ n <= room + 1
      /\ written.version \in [Versions -> VersionType]
      /\ written.stored \in [Versions -> Nat]
      /\ written.version[n] \in VersionType
  BY <1>1 DEF Small, ThingType
<1>5. /\ new.current = n
      /\ new.version = [written.version EXCEPT ![n] = Referring(written.version[n], old, n)]
      /\ new.stored = [written.stored EXCEPT ![n] = content]
      /\ new.live = left \union (IF asGraph THEN {} ELSE {content})
      /\ new = [current |-> new.current, version |-> new.version,
                stored |-> new.stored, live |-> new.live]
  BY <1>2 DEF WithEntity, left
<1>6. Referring(written.version[n], old, n) \in VersionType
  BY <1>1, <1>4 DEF Referring, VersionType
<1>7. new \in ThingType
  BY <1>3, <1>4, <1>5, <1>6 DEF ThingType
<1> QED
  BY <1>4, <1>5, <1>7 DEF Small

LEMMA UpdateRegisterSmall ==
  ASSUME NEW thing, NEW room \in Nat, room < MaxVersions, Small(thing, room),
         NEW seen, SmallSeen(seen, room), NEW new \in UpdateRegister(thing, seen)
  PROVE  Small(new, room + 1)
<1>1. PICK base \in AnyOf({seen.base, thing.current} \ {0}) :
        new = NextVersion(thing, [seen EXCEPT !.base = base])
  BY DEF UpdateRegister
<1>2. base \in Nat /\ base <= room
  BY DEF AnyOf, Small, ThingType, SmallSeen, SeenType
<1>3. SmallSeen([seen EXCEPT !.base = base], room)
  BY <1>2 DEF SmallSeen, SeenType
<1> QED
  BY <1>1, <1>3, NextVersionSmall

------------------------------------------------------------------------------
(* What the commands write.                                                 *)

\* What a command may make of the store.
SmallStore(written) ==
  /\ written = [x \in Things |-> written[x]]
  /\ \A x \in Things : Small(written[x], Room + 1)

LEMMA SmallRoom ==
  ASSUME TInv, commits < MaxCommits
  PROVE  /\ Room \in Nat /\ Room < MaxVersions /\ Room <= MaxVersions
         /\ commits + 1 \in Nat
BY Bounds DEF TInv, Room

\* A thread that serves a request was asked for it and has what its handler needs.
LEMMA ServedSmall ==
  ASSUME TInv, NEW t \in Threads, NEW op, Serves(t, op)
  PROVE  LET r == job[t].request IN
         /\ r \in Requests /\ r.op = op /\ RequestFits(r)
         /\ \A x \in Reads(r) : SmallSeen(job[t].seen[x], Room)
<1>1. job[t] # Idle
  BY DEF Serves, Idle
<1> QED
  BY <1>1, RequestIs DEF Serves, TInv

LEMMA UpdatedSmall ==
  ASSUME TInv, commits < MaxCommits, NEW x \in Things,
         NEW status \in Statuses \union {"keep"}
  PROVE  Small(Updated(x, status), Room + 1)
<1>1. Small(store[x], Room)
  BY DEF TInv
<1> QED
  BY <1>1, SmallRoom, ReadSmall, NextVersionSmall DEF Updated

LEMMA EntityUpdatesSmall ==
  ASSUME TInv, commits < MaxCommits, NEW x \in Things,
         NEW status \in Statuses \union {"keep"}, NEW asGraph \in BOOLEAN,
         NEW new \in EntityUpdates(x, status, asGraph)
  PROVE  Small(new, Room + 1)
<1> DEFINE seen == WithStatus(GetCurrentVersion(store[x]), status)
<1>1. Small(store[x], Room)
  BY DEF TInv
<1>2. SmallSeen(seen, Room) /\ new \in UpdateEntity(store[x], seen, commits + 1, asGraph)
  BY <1>1, SmallRoom, ReadSmall DEF EntityUpdates
<1> HIDE DEF seen
<1> QED
  BY <1>1, <1>2, SmallRoom, UpdateEntitySmall

LEMMA AdditionsSmall ==
  ASSUME TInv, commits < MaxCommits, NEW x \in Things,
         NEW status \in Statuses \union {"keep"}, NEW asGraph \in BOOLEAN,
         NEW new \in Additions(x, status, asGraph)
  PROVE  Small(new, Room + 1)
<1> DEFINE seen == [base   |-> 0,
                    status |-> {IF status = "keep" THEN "submitted" ELSE status},
                    graphs |-> {}]
<1>1. Small(store[x], Room)
  BY DEF TInv
<1>2. SmallSeen(seen, Room)
  BY SmallRoom DEF SmallSeen, SeenType, Statuses
<1>3. new \in UpdateEntity(store[x], seen, commits + 1, asGraph)
  BY DEF Additions
<1> HIDE DEF seen
<1> QED
  BY <1>1, <1>2, <1>3, SmallRoom, UpdateEntitySmall

LEMMA OverlaySmall ==
  ASSUME TInv, commits < MaxCommits, NEW changed,
         \A x \in Things \intersect DOMAIN changed : Small(changed[x], Room + 1)
  PROVE  SmallStore(Overlay(changed))
<1>1. ASSUME NEW x \in Things PROVE Small(Overlay(changed)[x], Room + 1)
  BY SmallerIsSmall, SmallRoom DEF Overlay, TInv
<1> QED
  BY <1>1, OverlayFunction DEF SmallStore

LEMMA WriteSmall ==
  ASSUME NEW old, NEW x, NEW thing, SmallStore(old), Small(thing, Room + 1)
  PROVE  SmallStore([old EXCEPT ![x] = thing])
<1> DEFINE written == [old EXCEPT ![x] = thing]
<1>1. written = [y \in Things |-> written[y]]
  BY DEF SmallStore
<1>2. \A y \in Things : written[y] = IF y = x THEN thing ELSE old[y]
  BY DEF SmallStore
<1> QED
  BY <1>1, <1>2 DEF SmallStore

LEMMA StoreSmall ==
  ASSUME TInv, commits < MaxCommits
  PROVE  SmallStore(store)
BY SmallRoom, SmallerIsSmall DEF SmallStore, TInv

\* A commit of small things keeps the invariant.
LEMMA CommitSmall ==
  ASSUME TInv, NEW t \in Threads, NEW written, Commit(t, written), SmallStore(written)
  PROVE  TInv'
<1>1. store' = written /\ commits' = commits + 1 /\ commits < MaxCommits
      /\ job' = [job EXCEPT ![t] = Idle]
  BY DEF Commit
<1>2. commits' \in 0..MaxCommits /\ Room' = Room + 1
  BY <1>1, Bounds DEF TInv, Room
<1>3. job' = [u \in Threads |-> job'[u]]
      /\ \A u \in Threads : job'[u] = Idle \/ job'[u] = job[u]
  BY <1>1 DEF TInv
<1>4. ASSUME NEW u \in Threads, job'[u] # Idle
      PROVE  /\ job'[u].request \in Requests
             /\ \A x \in Reads(job'[u].request) : SmallSeen(job'[u].seen[x], Room + 1)
  <2>1. job'[u] = job[u]
    BY <1>3, <1>4
  <2> QED
    BY <1>1, <1>4, <2>1, SmallRoom, SmallerIsSmall DEF TInv
<1>5. store' = [x \in Things |-> store'[x]] /\ \A x \in Things : Small(store'[x], Room + 1)
  BY <1>1 DEF SmallStore
<1> QED
  BY <1>2, <1>3, <1>4, <1>5 DEF TInv, Reads, Things
------------------------------------------------------------------------------
(* One lemma for each command.                                              *)

LEMMA RegisterTyped ==
  ASSUME TInv, NEW t \in Threads, Register(t)
  PROVE  TInv'
<1> DEFINE r == job[t].request
           sets == [x \in r.on |-> Additions(x, r.status, FALSE)]
<1>1. PICK items \in Selections(sets), register \in UpdateRegister(store[Reg], job[t].seen[Reg]) :
        Commit(t, [Overlay(items) EXCEPT ![Reg] = register])
  BY DEF Register
<1>2. /\ commits < MaxCommits /\ r.op = "register"
      /\ r.status \in Statuses \union {"keep"}
      /\ \A x \in Reads(r) : SmallSeen(job[t].seen[x], Room)
  BY <1>1, ServedSmall DEF Commit, Register, RequestFits
<1>3. DOMAIN items = r.on /\ \A x \in r.on : items[x] \in Additions(x, r.status, FALSE)
  <2>1. DOMAIN sets = r.on /\ \A x \in r.on : sets[x] = Additions(x, r.status, FALSE)
    OBVIOUS
  <2>2. items \in Selections(sets)
    BY <1>1
  <2> HIDE DEF sets
  <2>3. DOMAIN items = DOMAIN sets /\ \A x \in DOMAIN sets : items[x] \in sets[x]
    BY <2>2, SelectionPicks
  <2> QED
    BY <2>1, <2>3
<1> HIDE DEF r
<1>4. SmallStore(Overlay(items))
  BY <1>2, <1>3, AdditionsSmall, OverlaySmall
<1>5. Small(register, Room + 1)
  <2>1. SmallSeen(job[t].seen[Reg], Room) /\ Small(store[Reg], Room)
    BY <1>2 DEF Reads, TInv, Things
  <2> QED
    BY <1>1, <1>2, <2>1, SmallRoom, UpdateRegisterSmall
<1> QED
  BY <1>1, <1>4, <1>5, WriteSmall, CommitSmall

LEMMA UpdateTyped ==
  ASSUME TInv, NEW t \in Threads, Update(t)
  PROVE  TInv'
<1> DEFINE r == job[t].request
           x == Target(r)
           seen == WithStatus(job[t].seen[x], r.status)
<1>1. /\ r.op = "update" /\ r.status \in Statuses \union {"keep"}
      /\ x \in r.on /\ x \in Items \union {RegItem}
      /\ \A y \in Reads(r) : SmallSeen(job[t].seen[y], Room)
  BY ServedSmall DEF Update, RequestFits, HistoryItems
<1>2. commits < MaxCommits
  BY DEF Update, Commit
<1>3. Small(store[x], Room) /\ x \in Things
  BY <1>1 DEF TInv, Things
<1>4. SmallSeen(seen, Room)
  BY <1>1, SmallRoom, <1>2, StatusSmall DEF Reads
<1>5. \/ Commit(t, [store EXCEPT ![x] = NextVersion(store[x], seen)])
      \/ \E item \in UpdateEntity(store[x], seen, commits + 1, FALSE) :
           Commit(t, [store EXCEPT ![x] = item])
      \/ /\ r.entity
         /\ \E register \in UpdateRegister(store[Reg], job[t].seen[Reg]) :
              Commit(t, [store EXCEPT ![x] = NextVersion(store[x], seen), ![Reg] = register])
  BY <1>3 DEF Update, TInv
<1>6. r.entity => SmallSeen(job[t].seen[Reg], Room) /\ Small(store[Reg], Room)
  BY <1>1 DEF Reads, TInv, Things
<1> HIDE DEF r, x, seen
<1>7. Small(NextVersion(store[x], seen), Room + 1)
  BY <1>2, <1>3, <1>4, SmallRoom, NextVersionSmall
<1>8. SmallStore([store EXCEPT ![x] = NextVersion(store[x], seen)])
  BY <1>2, <1>7, StoreSmall, WriteSmall
<1>9. CASE Commit(t, [store EXCEPT ![x] = NextVersion(store[x], seen)])
  BY <1>8, <1>9, CommitSmall
<1>10. ASSUME NEW item \in UpdateEntity(store[x], seen, commits + 1, FALSE),
              Commit(t, [store EXCEPT ![x] = item])
       PROVE  TInv'
  <2>1. Small(item, Room + 1)
    BY <1>2, <1>3, <1>4, <1>10, SmallRoom, UpdateEntitySmall
  <2> QED
    BY <1>2, <1>10, <2>1, StoreSmall, WriteSmall, CommitSmall
<1>11. ASSUME r.entity, NEW register \in UpdateRegister(store[Reg], job[t].seen[Reg]),
              Commit(t, [store EXCEPT ![x] = NextVersion(store[x], seen), ![Reg] = register])
       PROVE  TInv'
  <2>1. Small(register, Room + 1)
    BY <1>2, <1>6, <1>11, SmallRoom, UpdateRegisterSmall
  <2> QED
    BY <1>8, <1>11, <2>1, WriteSmall, CommitSmall
<1> QED
  BY <1>5, <1>9, <1>10, <1>11

LEMMA StatusUpdateTyped ==
  ASSUME NoSelfSuccession, TInv, NEW t \in Threads, StatusUpdate(t)
  PROVE  TInv'
<1> DEFINE r == job[t].request
           x == Target(r)
           y == r.successor
<1>1. /\ r \in Requests /\ x \in r.on /\ r.status \in Statuses \union {"keep"}
      /\ x \in Things
  BY ServedSmall DEF StatusUpdate, RequestFits
<1>2. commits < MaxCommits
  BY DEF StatusUpdate, Commit
<1>3. y # x
  BY <1>1 DEF NoSelfSuccession
<1>4. \/ Commit(t, [store EXCEPT ![x] = Updated(x, r.status)])
      \/ /\ y \in Things
         /\ Commit(t, [store EXCEPT ![x] = Updated(x, r.status), ![y] = Updated(y, "keep")])
  BY <1>3 DEF StatusUpdate, Members, Things
<1> HIDE DEF r, x, y
<1>5. SmallStore([store EXCEPT ![x] = Updated(x, r.status)])
  BY <1>1, <1>2, UpdatedSmall, StoreSmall, WriteSmall
<1>6. y \in Things =>
        SmallStore([store EXCEPT ![x] = Updated(x, r.status), ![y] = Updated(y, "keep")])
  BY <1>2, <1>5, UpdatedSmall, WriteSmall
<1> QED
  BY <1>4, <1>5, <1>6, CommitSmall

LEMMA StatusUpdateAllTyped ==
  ASSUME TInv, NEW t \in Threads, StatusUpdateAll(t)
  PROVE  TInv'
<1> DEFINE r == job[t].request
           changed == [x \in Members |-> Updated(x, r.status)]
<1>1. commits < MaxCommits /\ r.status \in Statuses \union {"keep"}
  BY ServedSmall DEF StatusUpdateAll, Commit, RequestFits
<1>2. \A x \in Members : Small(changed[x], Room + 1)
  BY <1>1, UpdatedSmall DEF Members, Things
<1>3. SmallStore(Overlay(changed))
  BY <1>1, <1>2, OverlaySmall
<1> QED
  BY <1>3, CommitSmall DEF StatusUpdateAll

LEMMA ItemIsThing ==
  ASSUME NEW x \in Things
  PROVE  ItemOf(x) \in Things /\ WithMembers(ItemOf(x)) \subseteq Things
BY DEF ItemOf, Things, WithMembers, Members

LEMMA DeleteTyped ==
  ASSUME TInv, NEW t \in Threads, Delete(t)
  PROVE  TInv'
<1> DEFINE x == ItemOf(Target(job[t].request))
           changed == [y \in WithMembers(x) |-> Deleted(y)]
<1>1. commits < MaxCommits
  BY DEF Delete, Commit
<1>2. Target(job[t].request) \in Things
  BY ServedSmall DEF Delete, RequestFits
<1>3. WithMembers(x) \subseteq Things
  BY <1>2, ItemIsThing
<1>4. \A y \in WithMembers(x) : Small(Deleted(y), Room + 1)
  BY <1>1, <1>3, UpdatedSmall DEF Deleted, Statuses
<1>5. SmallStore(Overlay(changed))
  <2>1. DOMAIN changed = WithMembers(x) /\ \A y \in WithMembers(x) : changed[y] = Deleted(y)
    OBVIOUS
  <2> HIDE DEF changed
  <2> QED
    BY <1>1, <1>4, <2>1, OverlaySmall
<1> QED
  BY <1>5, CommitSmall DEF Delete

LEMMA RealDeleteTyped ==
  ASSUME TInv, NEW t \in Threads, RealDelete(t)
  PROVE  TInv'
<1> DEFINE x == ItemOf(Target(job[t].request))
           erased == WithMembers(x) \union (IF x = RegItem THEN {Reg} ELSE {})
           changed == [y \in erased |-> Unknown]
<1>1. commits < MaxCommits
  BY DEF RealDelete, Commit
<1>2. Small(Unknown, Room + 1)
  BY <1>1, SmallRoom, SmallerIsSmall
<1>3. SmallStore(Overlay(changed))
  <2>1. \A y \in DOMAIN changed : changed[y] = Unknown
    OBVIOUS
  <2> HIDE DEF changed
  <2> QED
    BY <1>1, <1>2, <2>1, OverlaySmall
<1>4. SmallStore(store)
  BY <1>1, StoreSmall
<1> QED
  BY <1>3, <1>4, CommitSmall DEF RealDelete

LEMMA TagTyped ==
  ASSUME TInv, NEW t \in Threads, Tag(t)
  PROVE  TInv'
<1> DEFINE r == job[t].request
<1>1. PICK register \in UpdateRegister(store[Reg], job[t].seen[Reg]) :
        Commit(t, [store EXCEPT ![Reg] = register])
  BY DEF Tag
<1>2. commits < MaxCommits
  BY <1>1 DEF Commit
<1>3. r.op = "tag" /\ \A x \in Reads(r) : SmallSeen(job[t].seen[x], Room)
  BY ServedSmall DEF Tag, RequestFits
<1>4. SmallSeen(job[t].seen[Reg], Room) /\ Small(store[Reg], Room)
  BY <1>3 DEF Reads, TInv, Things
<1>5. Small(register, Room + 1)
  BY <1>2, <1>4, SmallRoom, UpdateRegisterSmall
<1> QED
  BY <1>1, <1>2, <1>5, StoreSmall, WriteSmall, CommitSmall

LEMMA EditTyped ==
  ASSUME TInv, NEW t \in Threads, Edit(t)
  PROVE  TInv'
<1> DEFINE r == job[t].request
<1>1. PICK alike : \E items \in Selections([x \in r.on \ alike |-> Edits(x, r)]) :
                     Commit(t, Overlay(items))
  BY DEF Edit
<1> DEFINE sets == [x \in r.on \ alike |-> Edits(x, r)]
<1>2. PICK items \in Selections(sets) : Commit(t, Overlay(items))
  BY <1>1
<1>3. /\ commits < MaxCommits
      /\ r.on \subseteq Items /\ r.status \in Statuses \union {"keep"}
  BY <1>2, ServedSmall DEF Commit, Edit, RequestFits
<1>4. \A x \in Things \intersect DOMAIN items : items[x] \in Edits(x, r)
  <2>1. \A x \in DOMAIN sets : sets[x] = Edits(x, r)
    OBVIOUS
  <2> HIDE DEF sets
  <2>2. DOMAIN items = DOMAIN sets /\ \A x \in DOMAIN sets : items[x] \in sets[x]
    BY <1>2, SelectionPicks
  <2> QED
    BY <2>1, <2>2
<1> HIDE DEF r, sets
<1>5. \A x \in Things \intersect DOMAIN items : Small(items[x], Room + 1)
  BY <1>3, <1>4, EntityUpdatesSmall, AdditionsSmall DEF Edits
<1> QED
  BY <1>2, <1>3, <1>5, OverlaySmall, CommitSmall

LEMMA GraphRegisterTyped ==
  ASSUME TInv, NEW t \in Threads, GraphRegister(t)
  PROVE  TInv'
<1> DEFINE x == Target(job[t].request)
<1>1. PICK item \in IF Exists(store[x]) THEN EntityUpdates(x, "keep", TRUE)
                                        ELSE Additions(x, "keep", TRUE) :
        Commit(t, [store EXCEPT ![x] = item])
  BY DEF GraphRegister
<1>2. commits < MaxCommits /\ x \in Things
  BY <1>1, ServedSmall DEF GraphRegister, Commit, Things, RequestFits
<1> HIDE DEF x
<1>3. Small(item, Room + 1)
  BY <1>1, <1>2, EntityUpdatesSmall, AdditionsSmall
<1> QED
  BY <1>1, <1>2, <1>3, StoreSmall, WriteSmall, CommitSmall

LEMMA AnnotateTyped ==
  ASSUME TInv, NEW t \in Threads, Annotate(t)
  PROVE  TInv'
<1> DEFINE x == Target(job[t].request)
<1>1. Commit(t, [store EXCEPT ![x] = Updated(x, "keep")])
  BY DEF Annotate
<1>2. commits < MaxCommits /\ x \in Things
  BY <1>1, ServedSmall DEF Annotate, Commit, Things, RequestFits, HistoryItems
<1> HIDE DEF x
<1> QED
  BY <1>1, <1>2, UpdatedSmall, StoreSmall, WriteSmall, CommitSmall

\* The validation keeps what is current, so its number is no greater than the commits made.
LEMMA ValidateTyped ==
  ASSUME TInv, NEW t \in Threads, Validate(t)
  PROVE  TInv'
<1>1. PICK r \in Requests :
        job' = [job EXCEPT ![t] =
                  [request |-> r,
                   seen    |-> [x \in Reads(r) |-> GetCurrentVersion(store[x])]]]
  BY DEF Validate
<1>2. store' = store /\ commits' = commits /\ Room' = Room
  BY DEF Validate, Room
<1>3. Reads(r) \subseteq Things
  <2>1. r.op = "update" => \E x \in Items \union {RegItem} : r.on = {x}
    BY RequestsAssumption DEF RequestsAssumption
  <2> QED
    BY <2>1 DEF Reads, Things
<1>4. \A x \in Things : SmallSeen(GetCurrentVersion(store[x]), Room)
  <2>1. Room \in Nat /\ Room <= MaxVersions
    BY Bounds DEF Room, TInv
  <2> QED
    BY <2>1, ReadSmall DEF TInv
<1>5. ASSUME NEW u \in Threads, job'[u] # Idle
      PROVE  /\ job'[u].request \in Requests
             /\ \A x \in Reads(job'[u].request) : SmallSeen(job'[u].seen[x], Room)
  <2>1. CASE u = t
    <3>1. /\ job'[t].request = r
          /\ job'[t].seen = [x \in Reads(r) |-> GetCurrentVersion(store[x])]
      BY <1>1 DEF TInv
    <3> QED
      BY <1>3, <1>4, <2>1, <3>1
  <2>2. CASE u # t
    BY <1>1, <1>5, <2>2 DEF TInv
  <2> QED
    BY <2>1, <2>2
<1>6. job' = [u \in Threads |-> job'[u]]
  BY <1>1 DEF TInv
<1> QED
  BY <1>2, <1>5, <1>6 DEF TInv, Things, Reads

LEMMA AbortTyped ==
  ASSUME TInv, NEW t \in Threads, Abort(t)
  PROVE  TInv'
<1>1. /\ store' = store /\ commits' = commits /\ Room' = Room
      /\ job' = [job EXCEPT ![t] = Idle]
  BY DEF Abort, Room
<1> QED
  BY <1>1 DEF TInv, Things, Reads

LEMMA NextTyped == NoSelfSuccession /\ TInv /\ [Next]_vars => TInv'
<1> SUFFICES ASSUME NoSelfSuccession, TInv, [Next]_vars PROVE TInv'
  OBVIOUS
<1>1. CASE UNCHANGED vars
  BY <1>1 DEF vars, TInv, Room, Things, Reads
<1>2. ASSUME NEW t \in Threads, Validate(t) \/ Execute(t) \/ Abort(t)
      PROVE  TInv'
  BY <1>2, ValidateTyped, AbortTyped, RegisterTyped, UpdateTyped, StatusUpdateTyped,
     StatusUpdateAllTyped, DeleteTyped, RealDeleteTyped, TagTyped, EditTyped,
     GraphRegisterTyped, AnnotateTyped DEF Execute
<1> QED
  BY <1>1, <1>2 DEF Next

LEMMA InitTyped == Init => TInv
<1> SUFFICES ASSUME Init PROVE TInv
  OBVIOUS
<1>1. IInv
  BY InitSound
<1>2. Room = 1 /\ 0 \in Nat /\ 0 < MaxVersions /\ 0 <= MaxVersions
  BY Bounds DEF Init, Room
<1>3. \A x \in Items \union {RegItem} : Small(store[x], Room)
  BY <1>1 DEF IInv, HistoryItems, Sound, Linear, Small
<1>4. Small(store[Reg], Room)
  <2>1. store[Reg] = NextVersion(Unknown, GetCurrentVersion(Unknown))
    BY Bounds DEF Init, Things
  <2>2. Small(Unknown, 0)
    BY SmallerIsSmall
  <2>3. SmallSeen(GetCurrentVersion(Unknown), 0)
    BY <1>2, <2>2, ReadSmall, "keep" \in Statuses \union {"keep"}
  <2>4. Small(store[Reg], 0 + 1)
    BY <1>2, <2>1, <2>2, <2>3, NextVersionSmall
  <2> QED
    BY <1>2, <2>4
<1>5. \A t \in Threads : job[t] = Idle
  BY DEF Init
<1> QED
  BY <1>1, <1>3, <1>4, <1>5 DEF TInv, IInv, Things

\* The variables of the registry have their types, whatever is validated before it is
\* written: no commit makes a version beyond the number of commits (VersionUtil.nextVersion).
THEOREM TypeCorrect == NoSelfSuccession /\ Spec => []TypeOK
<1> SUFFICES ASSUME NoSelfSuccession PROVE Spec => []TypeOK
  OBVIOUS
<1>1. TInv => TypeOK
  <2> SUFFICES ASSUME TInv PROVE TypeOK
    OBVIOUS
  <2>1. Room \in Nat /\ Room <= MaxVersions
    BY Bounds DEF Room, TInv
  <2>2. \A x \in Things : store[x] \in
          [current : 0..MaxVersions,
           version : [Versions -> [writes : Nat, closes : Nat, status : SUBSET Statuses,
                                   graphs : SUBSET Versions]],
           stored  : [Versions -> Nat],
           live    : SUBSET Nat]
    BY <2>1, Bounds DEF TInv, Small, ThingType, VersionType
  <2> QED
    BY <2>2 DEF TInv, TypeOK
<1>2. TInv /\ [Next]_vars => TInv'
  BY NextTyped
<1> QED
  BY <1>1, <1>2, InitTyped, PTL DEF Spec

------------------------------------------------------------------------------
(* The register and its item.                                               *)

Whole == {RegItem, Reg}

\* Nobody erases the register.
NoErasure == \A r \in Requests : r.op = "realDelete" => r.on \intersect Whole = {}

\* The register that a validation saw is there when the request is executed.
Sheltered == Serial \/ NoErasure

Numbered(seen) == "base" \in DOMAIN seen /\ seen.base \in Nat

RInv ==
  /\ store = [x \in Things |-> store[x]]
  /\ job = [t \in Threads |-> job[t]]
  /\ \A t \in Threads : job[t] # Idle =>
       /\ job[t].request \in Requests
       /\ \A x \in Whole \intersect Reads(job[t].request) : Numbered(job[t].seen[x])
  /\ \A x \in Whole : store[x].current \in Nat
  /\ commits \in 0..MaxCommits
  /\ NoOrphans
  /\ NoErasure => Exists(store[Reg])
  /\ Serial => Abreast /\ Linear(store[Reg], Room)

\* What a commit makes of the register: nothing, or the version after the one that was read
\* or is there.
RegisterStep(t, written) ==
  \/ written[Reg] = store[Reg]
  \/ written[Reg] = Unknown
  \/ /\ Reg \in Reads(job[t].request)
     /\ written[Reg] \in UpdateRegister(store[Reg], job[t].seen[Reg])

\* What it makes of the whole: no member is made without a register, and the register and
\* its item come and go together.
WholeStep(written) ==
  /\ written[RegItem].current \in Nat
  /\ \/ ~NoErasure /\ \A x \in Things : ~Exists(written[x])
     \/ \A x \in Whole : Exists(written[x])
     \/ /\ \A x \in Whole : Exists(written[x]) <=> Exists(store[x])
        /\ \A x \in Items : Exists(written[x]) => Exists(store[x])

Settled(t) ==
  /\ job[t] # Idle
  /\ \E written : /\ Commit(t, written)
                  /\ written = [x \in Things |-> written[x]]
                  /\ RegisterStep(t, written) /\ WholeStep(written)

LEMMA ServedWhole ==
  ASSUME RInv, NEW t \in Threads, NEW op, Serves(t, op)
  PROVE  LET r == job[t].request IN
         /\ job[t] # Idle /\ r \in Requests /\ r.op = op /\ RequestFits(r)
         /\ \A x \in Whole \intersect Reads(r) : Numbered(job[t].seen[x])
<1>1. job[t] # Idle
  BY DEF Serves, Idle
<1> QED
  BY <1>1, RequestIs DEF Serves, RInv

\* The validation has seen the register, and it has not gone.
LEMMA RegisterThere ==
  ASSUME RInv, Sheltered, NEW t \in Threads, job[t] # Idle,
         job[t].request.op \in {"register", "tag", "edit", "graph"}
  PROVE  \A x \in Whole : Exists(store[x])
<1>1. Exists(store[Reg])
  BY DEF RInv, Sheltered, Abreast, Valid
<1> QED
  BY <1>1 DEF RInv, NoOrphans, Whole

LEMMA ThingsApart ==
  /\ Reg \in Things /\ RegItem \in Things /\ Items \subseteq Things
  /\ RegItem # Reg /\ RegItem \notin Items /\ Reg \notin Items
  BY Bounds DEF Things

\* Writing makes a version, whatever was read.
LEMMA NextVersionExists ==
  ASSUME NEW thing, NEW seen, Numbered(seen)
  PROVE  NextVersion(thing, seen).current \in Nat /\ Exists(NextVersion(thing, seen))
BY DEF NextVersion, Exists, Numbered

LEMMA StatusNumbered ==
  ASSUME NEW seen, Numbered(seen), NEW status
  PROVE  Numbered(WithStatus(seen, status))
BY DEF Numbered, WithStatus

LEMMA ReadNumbered ==
  ASSUME NEW thing, thing.current \in Nat
  PROVE  Numbered(GetCurrentVersion(thing))
BY DEF Numbered, GetCurrentVersion

LEMMA UpdatedExists ==
  ASSUME NEW x, store[x].current \in Nat, NEW status
  PROVE  Updated(x, status).current \in Nat /\ Exists(Updated(x, status))
BY NextVersionExists, StatusNumbered, ReadNumbered DEF Updated

LEMMA UpdateRegisterExists ==
  ASSUME NEW thing, thing.current \in Nat, NEW seen, Numbered(seen),
         NEW new \in UpdateRegister(thing, seen)
  PROVE  new.current \in Nat /\ Exists(new)
<1>1. PICK base \in AnyOf({seen.base, thing.current} \ {0}) :
        new = NextVersion(thing, [seen EXCEPT !.base = base])
  BY DEF UpdateRegister
<1>2. base \in Nat
  BY <1>1 DEF AnyOf, Numbered
<1>3. Numbered([seen EXCEPT !.base = base])
  BY <1>2 DEF Numbered
<1> QED
  BY <1>1, <1>3, NextVersionExists

\* A commit that touches items only: those that were there, or with the register there.
LEMMA ItemsSettled ==
  ASSUME RInv, NEW t \in Threads, job[t] # Idle, NEW written, Commit(t, written),
         written = [x \in Things |-> written[x]],
         written[Reg] = store[Reg],
         \/ written[RegItem] = store[RegItem]
         \/ /\ Exists(store[RegItem]) /\ Exists(written[RegItem])
            /\ written[RegItem].current \in Nat,
         \/ \A x \in Whole : Exists(store[x])
         \/ \A x \in Items : Exists(written[x]) => Exists(store[x])
  PROVE  Settled(t)
<1>1. written[RegItem].current \in Nat
  BY DEF RInv, Whole
<1>2. \A x \in Whole : Exists(written[x]) <=> Exists(store[x])
  BY DEF Whole
<1>3. WholeStep(written)
  BY <1>1, <1>2 DEF WholeStep
<1> QED
  BY <1>3 DEF Settled, RegisterStep

LEMMA WriteSettled ==
  ASSUME RInv, NEW t \in Threads, job[t] # Idle, NEW x \in Items \union {RegItem}, NEW thing,
         Commit(t, [store EXCEPT ![x] = thing]),
         x = RegItem => Exists(store[x]) /\ Exists(thing) /\ thing.current \in Nat,
         Exists(store[x]) \/ \A y \in Whole : Exists(store[y])
  PROVE  Settled(t)
<1> DEFINE written == [store EXCEPT ![x] = thing]
<1>1. /\ written = [y \in Things |-> written[y]]
      /\ \A y \in Things : written[y] = IF y = x THEN thing ELSE store[y]
  BY DEF RInv
<1>2. Commit(t, written)
  OBVIOUS
<1> HIDE DEF written
<1>3. written[Reg] = store[Reg]
  BY <1>1, ThingsApart
<1>4. \/ written[RegItem] = store[RegItem]
      \/ /\ Exists(store[RegItem]) /\ Exists(written[RegItem])
         /\ written[RegItem].current \in Nat
  BY <1>1, ThingsApart
<1>5. \/ \A y \in Whole : Exists(store[y])
      \/ \A y \in Items : Exists(written[y]) => Exists(store[y])
  BY <1>1, ThingsApart
<1> QED
  BY <1>1, <1>2, <1>3, <1>4, <1>5, ItemsSettled

LEMMA OverlaySettled ==
  ASSUME RInv, NEW t \in Threads, job[t] # Idle, NEW changed,
         DOMAIN changed \subseteq Items \union {RegItem}, Commit(t, Overlay(changed)),
         RegItem \in DOMAIN changed =>
           /\ Exists(store[RegItem]) /\ Exists(changed[RegItem])
           /\ changed[RegItem].current \in Nat,
         \/ \A y \in Whole : Exists(store[y])
         \/ \A y \in DOMAIN changed \intersect Items :
              Exists(changed[y]) => Exists(store[y])
  PROVE  Settled(t)
<1> DEFINE written == Overlay(changed)
<1>1. /\ written = [y \in Things |-> written[y]]
      /\ \A y \in Things : written[y] = IF y \in DOMAIN changed THEN changed[y] ELSE store[y]
  BY OverlayFunction DEF Overlay
<1> HIDE DEF written
<1>2. written[Reg] = store[Reg]
  BY <1>1, ThingsApart
<1>3. \/ written[RegItem] = store[RegItem]
      \/ /\ Exists(store[RegItem]) /\ Exists(written[RegItem])
         /\ written[RegItem].current \in Nat
  BY <1>1, ThingsApart
<1>4. \/ \A y \in Whole : Exists(store[y])
      \/ \A y \in Items : Exists(written[y]) => Exists(store[y])
  BY <1>1, ThingsApart
<1> QED
  BY <1>1, <1>2, <1>3, <1>4, ItemsSettled DEF written

\* A commit that writes the register.
LEMMA RegisterSettled ==
  ASSUME RInv, NEW t \in Threads, job[t] # Idle, NEW written, Commit(t, written),
         written = [x \in Things |-> written[x]],
         job[t].request \in Requests, Reg \in Reads(job[t].request),
         written[Reg] \in UpdateRegister(store[Reg], job[t].seen[Reg]),
         Exists(written[RegItem]), written[RegItem].current \in Nat
  PROVE  Settled(t)
<1>1. Numbered(job[t].seen[Reg]) /\ store[Reg].current \in Nat
  BY DEF RInv, Whole
<1>2. Exists(written[Reg])
  BY <1>1, UpdateRegisterExists
<1>3. WholeStep(written)
  BY <1>2 DEF WholeStep, Whole
<1> QED
  BY <1>3 DEF Settled, RegisterStep

------------------------------------------------------------------------------
(* What each command does to them.                                          *)

LEMMA RegisterWhole ==
  ASSUME RInv, Sheltered, NEW t \in Threads, Register(t)
  PROVE  Settled(t)
<1> DEFINE r == job[t].request
<1>1. /\ job[t] # Idle /\ r \in Requests /\ r.op = "register" /\ r.on \subseteq Items
  BY ServedWhole DEF Register, RequestFits
<1>2. PICK items \in Selections([x \in r.on |-> Additions(x, r.status, FALSE)]),
          register \in UpdateRegister(store[Reg], job[t].seen[Reg]) :
        Commit(t, [Overlay(items) EXCEPT ![Reg] = register])
  BY DEF Register
<1> DEFINE sets == [x \in r.on |-> Additions(x, r.status, FALSE)]
           written == [Overlay(items) EXCEPT ![Reg] = register]
<1>3. DOMAIN items = r.on
  <2>1. items \in Selections(sets) /\ DOMAIN sets = r.on
    BY <1>2
  <2> HIDE DEF sets
  <2> QED
    BY <2>1, SelectionPicks
<1>4. /\ written = [x \in Things |-> written[x]]
      /\ written[Reg] = register /\ written[RegItem] = Overlay(items)[RegItem]
  BY OverlayFunction, ThingsApart
<1>5. Commit(t, written)
  BY <1>2
<1> HIDE DEF written, r
<1>6. Overlay(items)[RegItem] = store[RegItem]
  BY <1>1, <1>3, ThingsApart DEF Overlay
<1>7. Exists(written[RegItem]) /\ written[RegItem].current \in Nat
  BY <1>1, <1>4, <1>6, RegisterThere DEF RInv, Whole, r
<1>8. Reg \in Reads(r)
  BY <1>1 DEF Reads
<1> QED
  BY <1>1, <1>2, <1>4, <1>5, <1>7, <1>8, RegisterSettled DEF r

LEMMA UpdateWhole ==
  ASSUME RInv, Sheltered, NEW t \in Threads, Update(t)
  PROVE  Settled(t)
<1> DEFINE r == job[t].request
           x == Target(r)
           seen == WithStatus(job[t].seen[x], r.status)
<1>1. /\ job[t] # Idle /\ r \in Requests /\ r.op = "update"
      /\ x \in Items \union {RegItem} /\ x \in r.on
      /\ \A y \in Whole \intersect Reads(r) : Numbered(job[t].seen[y])
  BY ServedWhole DEF Update, RequestFits, HistoryItems
\* What validation saw of the item, or of the register, is still there.
<1>2. Exists(store[x]) \/ \A y \in Whole : Exists(store[y])
  <2>1. CASE Serial
    BY <1>1, <2>1 DEF RInv, Abreast, Valid
  <2>2. CASE NoErasure
    BY <2>2 DEF RInv, NoOrphans, Whole
  <2> QED
    BY <2>1, <2>2 DEF Sheltered
<1>3. x = RegItem => Numbered(seen)
  <2>1. x = RegItem => Numbered(job[t].seen[x])
    BY <1>1 DEF Whole, Reads
  <2> QED
    BY <2>1, StatusNumbered
<1>4. \/ Commit(t, [store EXCEPT ![x] = NextVersion(@, seen)])
      \/ /\ x \in Items
         /\ \E item : Commit(t, [store EXCEPT ![x] = item])
      \/ /\ x = RegItem /\ r.entity
         /\ \E register \in UpdateRegister(store[Reg], job[t].seen[Reg]) :
              Commit(t, [store EXCEPT ![x] = NextVersion(@, seen), ![Reg] = register])
  BY DEF Update
<1>5. x = RegItem => /\ Exists(NextVersion(store[x], seen))
                     /\ NextVersion(store[x], seen).current \in Nat
                     /\ Exists(store[x])
  BY <1>2, <1>3, NextVersionExists DEF Whole
<1> HIDE DEF r, x, seen
<1>6. CASE Commit(t, [store EXCEPT ![x] = NextVersion(@, seen)])
  <2>1. Commit(t, [store EXCEPT ![x] = NextVersion(store[x], seen)])
    BY <1>6
  <2> QED
    BY <1>1, <1>2, <1>5, <2>1, WriteSettled
<1>7. ASSUME NEW item, x \in Items, Commit(t, [store EXCEPT ![x] = item])
      PROVE  Settled(t)
  BY <1>1, <1>2, <1>7, ThingsApart, WriteSettled
<1>8. ASSUME NEW register \in UpdateRegister(store[Reg], job[t].seen[Reg]),
             x = RegItem, r.entity,
             Commit(t, [store EXCEPT ![x] = NextVersion(@, seen), ![Reg] = register])
      PROVE  Settled(t)
  <2> DEFINE written == [store EXCEPT ![x] = NextVersion(@, seen), ![Reg] = register]
  <2>1. /\ written = [y \in Things |-> written[y]]
        /\ written[Reg] = register /\ written[RegItem] = NextVersion(store[x], seen)
    BY <1>8, ThingsApart DEF RInv
  <2>2. Commit(t, written)
    BY <1>8
  <2>3. Reg \in Reads(r)
    BY <1>1, <1>8 DEF Reads
  <2> HIDE DEF written
  <2> QED
    BY <1>1, <1>5, <1>8, <2>1, <2>2, <2>3, RegisterSettled DEF r
<1> QED
  BY <1>4, <1>6, <1>7, <1>8

LEMMA StatusUpdateWhole ==
  ASSUME RInv, NEW t \in Threads, StatusUpdate(t)
  PROVE  Settled(t)
<1> DEFINE r == job[t].request
           x == Target(r)
           y == r.successor
           again == NextVersion(Updated(x, "keep"),
                                WithStatus(GetCurrentVersion(store[x]), r.status))
<1>1. /\ job[t] # Idle /\ r \in Requests /\ y \in Items \union {Nothing}
  BY ServedWhole DEF StatusUpdate, RequestFits
<1>2. /\ x \in Items \union {RegItem} /\ Exists(store[x])
      /\ \/ Commit(t, [store EXCEPT ![x] = Updated(x, r.status)])
         \/ /\ y \in Members \ {x}
            /\ Commit(t, [store EXCEPT ![x] = Updated(x, r.status), ![y] = Updated(y, "keep")])
         \/ y = x /\ Commit(t, [store EXCEPT ![x] = again])
  <2>1. x \in Things
    BY ThingsApart DEF StatusUpdate
  <2> QED
    BY <2>1 DEF StatusUpdate, RInv
<1>3. x = RegItem => Exists(Updated(x, r.status)) /\ Updated(x, r.status).current \in Nat
  BY UpdatedExists DEF RInv, Whole
<1>4. y = x => x # RegItem
  BY <1>1, Bounds DEF Things
<1> HIDE DEF r, x, y, again
<1>5. CASE Commit(t, [store EXCEPT ![x] = Updated(x, r.status)])
  BY <1>1, <1>2, <1>3, <1>5, WriteSettled DEF r
<1>6. CASE y = x /\ Commit(t, [store EXCEPT ![x] = again])
  BY <1>1, <1>2, <1>4, <1>6, WriteSettled DEF r
<1>7. CASE /\ y \in Members \ {x}
           /\ Commit(t, [store EXCEPT ![x] = Updated(x, r.status), ![y] = Updated(y, "keep")])
  <2> DEFINE written == [store EXCEPT ![x] = Updated(x, r.status), ![y] = Updated(y, "keep")]
  <2>1. /\ written = [z \in Things |-> written[z]]
        /\ \A z \in Things : written[z] = IF z = y THEN Updated(y, "keep")
                                          ELSE IF z = x THEN Updated(x, r.status) ELSE store[z]
    BY DEF RInv
  <2>2. Commit(t, written)
    BY <1>7
  <2>3. y \in Items /\ Exists(store[y])
    BY <1>7 DEF Members
  <2> HIDE DEF written
  <2>4. written[Reg] = store[Reg]
    BY <1>2, <2>1, <2>3, ThingsApart
  <2>5. \/ written[RegItem] = store[RegItem]
        \/ /\ Exists(store[RegItem]) /\ Exists(written[RegItem])
           /\ written[RegItem].current \in Nat
    BY <1>2, <1>3, <2>1, <2>3, ThingsApart
  <2>6. \A z \in Items : Exists(written[z]) => Exists(store[z])
    BY <1>2, <2>1, <2>3, ThingsApart
  <2> QED
    BY <1>1, <2>1, <2>2, <2>4, <2>5, <2>6, ItemsSettled DEF r
<1> QED
  BY <1>2, <1>5, <1>6, <1>7

LEMMA StatusUpdateAllWhole ==
  ASSUME RInv, NEW t \in Threads, StatusUpdateAll(t)
  PROVE  Settled(t)
<1> DEFINE changed == [x \in Members |-> Updated(x, job[t].request.status)]
<1>1. job[t] # Idle /\ Commit(t, Overlay(changed))
  BY ServedWhole DEF StatusUpdateAll
<1>2. DOMAIN changed = Members
  OBVIOUS
<1> HIDE DEF changed
<1>3. Members \subseteq Items /\ \A y \in Members : Exists(store[y])
  BY DEF Members
<1> QED
  BY <1>1, <1>2, <1>3, ThingsApart, OverlaySettled

LEMMA DeleteWhole ==
  ASSUME RInv, NEW t \in Threads, Delete(t)
  PROVE  Settled(t)
<1> DEFINE x == ItemOf(Target(job[t].request))
           changed == [y \in WithMembers(x) |-> Deleted(y)]
<1>1. job[t] # Idle /\ Commit(t, Overlay(changed)) /\ Exists(store[x])
  BY ServedWhole DEF Delete
<1>2. Target(job[t].request) \in Things
  BY ServedWhole DEF Delete, RequestFits
<1>3. x \in Items \union {RegItem}
  BY <1>2 DEF ItemOf, Things
<1>4. DOMAIN changed = WithMembers(x) /\ \A y \in WithMembers(x) : changed[y] = Deleted(y)
  OBVIOUS
<1> HIDE DEF changed, x
<1>5. /\ WithMembers(x) \subseteq Items \union {RegItem}
      /\ \A y \in WithMembers(x) : Exists(store[y])
  BY <1>1, <1>3 DEF WithMembers, Members
<1>6. Exists(Deleted(RegItem)) /\ Deleted(RegItem).current \in Nat
  BY UpdatedExists DEF Deleted, RInv, Whole
<1> QED
  BY <1>1, <1>4, <1>5, <1>6, OverlaySettled

\* The register goes with its item and its members; a member goes alone.
LEMMA RealDeleteWhole ==
  ASSUME RInv, NEW t \in Threads, RealDelete(t)
  PROVE  Settled(t)
<1> DEFINE r == job[t].request
           x == ItemOf(Target(r))
           erased == WithMembers(x) \union (IF x = RegItem THEN {Reg} ELSE {})
           changed == [y \in erased |-> Unknown]
           written == Overlay(changed)
<1>1. /\ job[t] # Idle /\ r \in Requests /\ r.op = "realDelete"
      /\ Target(r) \in r.on /\ Target(r) \in Things
  BY ServedWhole DEF RealDelete, RequestFits
<1>2. Commit(t, store) \/ Commit(t, written)
  BY DEF RealDelete
<1>3. x \in Items \union {RegItem} /\ (x = RegItem => Target(r) \in Whole)
  BY <1>1 DEF ItemOf, Things, Whole
<1>4. Unknown.current = 0 /\ ~Exists(Unknown)
  BY DEF Unknown, Exists
<1>5. CASE Commit(t, store)
  BY <1>1, <1>5, ItemsSettled DEF RInv
<1>6. CASE Commit(t, written) /\ x # RegItem
  <2>1. DOMAIN changed = {x} /\ changed[x] = Unknown
    BY <1>6 DEF WithMembers
  <2> HIDE DEF changed, x, r
  <2> QED
    BY <1>1, <1>3, <1>4, <1>6, <2>1, OverlaySettled DEF r
<1>7. CASE Commit(t, written) /\ x = RegItem
  <2>1. DOMAIN changed = {RegItem, Reg} \union Members
        /\ \A y \in DOMAIN changed : changed[y] = Unknown
    BY <1>7 DEF WithMembers
  <2>2. ~NoErasure
    BY <1>1, <1>3, <1>7 DEF NoErasure
  <2> HIDE DEF changed, x, r
  <2>3. \A y \in Things : written[y] = IF y \in DOMAIN changed THEN Unknown ELSE store[y]
    BY <2>1 DEF Overlay
  <2>4. written = [y \in Things |-> written[y]]
    BY OverlayFunction
  <2> HIDE DEF written
  <2>5. \A y \in Things : ~Exists(written[y])
    BY <1>4, <2>1, <2>3 DEF Things, Members
  <2>6. written[Reg] = Unknown /\ written[RegItem] = Unknown
    BY <2>1, <2>3, ThingsApart
  <2> QED
    BY <1>1, <1>4, <1>7, <2>2, <2>4, <2>5, <2>6 DEF Settled, RegisterStep, WholeStep, r
<1> QED
  BY <1>2, <1>5, <1>6, <1>7

LEMMA TagWhole ==
  ASSUME RInv, Sheltered, NEW t \in Threads, Tag(t)
  PROVE  Settled(t)
<1>1. /\ job[t] # Idle /\ job[t].request \in Requests /\ job[t].request.op = "tag"
  BY ServedWhole DEF Tag
<1>2. PICK register \in UpdateRegister(store[Reg], job[t].seen[Reg]) :
        Commit(t, [store EXCEPT ![Reg] = register])
  BY DEF Tag
<1> DEFINE written == [store EXCEPT ![Reg] = register]
<1>3. /\ written = [x \in Things |-> written[x]]
      /\ written[Reg] = register /\ written[RegItem] = store[RegItem]
  BY ThingsApart DEF RInv
<1>4. Commit(t, written)
  BY <1>2
<1> HIDE DEF written
<1>5. Exists(written[RegItem]) /\ written[RegItem].current \in Nat
  BY <1>1, <1>3, RegisterThere DEF RInv, Whole
<1>6. Reg \in Reads(job[t].request)
  BY <1>1 DEF Reads
<1> QED
  BY <1>1, <1>2, <1>3, <1>4, <1>5, <1>6, RegisterSettled

LEMMA EditWhole ==
  ASSUME RInv, Sheltered, NEW t \in Threads, Edit(t)
  PROVE  Settled(t)
<1> DEFINE r == job[t].request
<1>1. job[t] # Idle /\ r.op = "edit" /\ r.on \subseteq Items
  BY ServedWhole DEF Edit, RequestFits
<1>2. PICK alike : \E items \in Selections([x \in r.on \ alike |-> Edits(x, r)]) :
                     Commit(t, Overlay(items))
  BY DEF Edit
<1>3. PICK items \in Selections([x \in r.on \ alike |-> Edits(x, r)]) :
        Commit(t, Overlay(items))
  BY <1>2
<1>4. DOMAIN items \subseteq Items
  <2> DEFINE sets == [x \in r.on \ alike |-> Edits(x, r)]
  <2>1. items \in Selections(sets) /\ DOMAIN sets \subseteq Items
    BY <1>1, <1>3
  <2> HIDE DEF sets
  <2> QED
    BY <2>1, SelectionPicks
<1>5. \A y \in Whole : Exists(store[y])
  BY <1>1, RegisterThere
<1> QED
  BY <1>1, <1>3, <1>4, <1>5, ThingsApart, OverlaySettled

LEMMA GraphRegisterWhole ==
  ASSUME RInv, Sheltered, NEW t \in Threads, GraphRegister(t)
  PROVE  Settled(t)
<1> DEFINE x == Target(job[t].request)
<1>1. job[t] # Idle /\ job[t].request.op = "graph" /\ x \in Items
  BY ServedWhole DEF GraphRegister, RequestFits
<1>2. PICK item : Commit(t, [store EXCEPT ![x] = item])
  BY DEF GraphRegister
<1>3. \A y \in Whole : Exists(store[y])
  BY <1>1, RegisterThere
<1> HIDE DEF x
<1> QED
  BY <1>1, <1>2, <1>3, ThingsApart, WriteSettled

LEMMA AnnotateWhole ==
  ASSUME RInv, NEW t \in Threads, Annotate(t)
  PROVE  Settled(t)
<1> DEFINE x == Target(job[t].request)
<1>1. /\ job[t] # Idle /\ x \in Items \union {RegItem} /\ Exists(store[x])
      /\ Commit(t, [store EXCEPT ![x] = Updated(x, "keep")])
  BY ServedWhole DEF Annotate, RequestFits, HistoryItems
<1> HIDE DEF x
<1>2. x = RegItem => Exists(Updated(x, "keep")) /\ Updated(x, "keep").current \in Nat
  BY UpdatedExists DEF RInv, Whole
<1> QED
  BY <1>1, <1>2, WriteSettled

------------------------------------------------------------------------------
(* The invariant is one.                                                    *)

\* With one client the register is written from what it is, and so stays linear.
LEMMA RegisterStaysLinear ==
  ASSUME RInv, Serial, commits < MaxCommits, NEW t \in Threads, job[t] # Idle,
         NEW written, RegisterStep(t, written)
  PROVE  Linear(written[Reg], Room + 1)
<1>1. /\ Linear(store[Reg], Room)
      /\ Room \in Nat /\ Room < MaxVersions /\ Room <= MaxVersions
      /\ store[Reg].current \in Nat
  BY Bounds DEF RInv, Room, Whole
<1>2. CASE written[Reg] = store[Reg]
  BY <1>1, <1>2 DEF Linear
<1>3. CASE written[Reg] = Unknown
  BY <1>1, <1>3, UnknownSound DEF Sound, Linear, Unknown
<1>4. CASE /\ Reg \in Reads(job[t].request)
           /\ written[Reg] \in UpdateRegister(store[Reg], job[t].seen[Reg])
  <2> DEFINE seen == GetCurrentVersion(store[Reg])
  <2>1. job[t].seen[Reg] = seen
    BY <1>4 DEF RInv, Abreast
  <2>2. /\ seen \in SeenType
        /\ seen = [base   |-> store[Reg].current,
                   status |-> CurrentVersion(store[Reg]).status,
                   graphs |-> CurrentVersion(store[Reg]).graphs]
    BY <1>1, ReadLinear
  <2> HIDE DEF seen
  <2>3. PICK base \in AnyOf({seen.base, store[Reg].current} \ {0}) :
          written[Reg] = NextVersion(store[Reg], [seen EXCEPT !.base = base])
    BY <1>4, <2>1 DEF UpdateRegister
  <2>4. base = seen.base /\ seen.base = store[Reg].current
    BY <2>2, <2>3 DEF AnyOf
  <2>5. [seen EXCEPT !.base = base] = seen
    BY <2>2, <2>4
  <2> QED
    BY <1>1, <2>2, <2>3, <2>4, <2>5, NextVersionLinear
<1> QED
  BY <1>2, <1>3, <1>4 DEF RegisterStep

LEMMA CommitWhole ==
  ASSUME RInv, NEW t \in Threads, Settled(t)
  PROVE  RInv'
<1>1. PICK written : /\ Commit(t, written)
                     /\ written = [x \in Things |-> written[x]]
                     /\ RegisterStep(t, written) /\ WholeStep(written)
  BY DEF Settled
<1>2. /\ store' = written /\ commits' = commits + 1 /\ commits < MaxCommits
      /\ job' = [job EXCEPT ![t] = Idle] /\ job[t] # Idle
  BY <1>1 DEF Commit, Settled
<1>3. commits' \in 0..MaxCommits /\ Room' = Room + 1
  BY <1>2, Bounds DEF RInv, Room
<1>4. job' = [u \in Threads |-> job'[u]]
      /\ \A u \in Threads : job'[u] = Idle \/ job'[u] = job[u]
  BY <1>2 DEF RInv
<1>5. ASSUME NEW u \in Threads, job'[u] # Idle
      PROVE  /\ job'[u].request \in Requests
             /\ \A x \in Whole \intersect Reads(job'[u].request) : Numbered(job'[u].seen[x])
  BY <1>4, <1>5 DEF RInv
<1>6. \A x \in Whole : written[x].current \in Nat
  <2>1. written[Reg].current \in Nat
    <3>1. CASE written[Reg] = store[Reg]
      BY <3>1 DEF RInv, Whole
    <3>2. CASE written[Reg] = Unknown
      BY <3>2 DEF Unknown
    <3>3. CASE /\ Reg \in Reads(job[t].request)
               /\ written[Reg] \in UpdateRegister(store[Reg], job[t].seen[Reg])
      <4>1. Numbered(job[t].seen[Reg]) /\ store[Reg].current \in Nat
        BY <1>2, <3>3 DEF RInv, Whole
      <4> QED
        BY <3>3, <4>1, UpdateRegisterExists
    <3> QED
      BY <1>1, <3>1, <3>2, <3>3 DEF RegisterStep
  <2> QED
    BY <1>1, <2>1 DEF WholeStep, Whole
<1>7. NoOrphans' /\ (NoErasure => Exists(written[Reg]))
  <2>1. CASE ~NoErasure /\ \A x \in Things : ~Exists(written[x])
    BY <1>2, <2>1, ThingsApart DEF NoOrphans, Members
  <2>2. CASE \A x \in Whole : Exists(written[x])
    BY <1>2, <2>2 DEF NoOrphans, Whole
  <2>3. CASE /\ \A x \in Whole : Exists(written[x]) <=> Exists(store[x])
             /\ \A x \in Items : Exists(written[x]) => Exists(store[x])
    BY <1>2, <2>3 DEF RInv, NoOrphans, Members, Whole
  <2> QED
    BY <1>1, <2>1, <2>2, <2>3 DEF WholeStep
<1>8. Serial => Linear(written[Reg], Room + 1)
  BY <1>1, <1>2, RegisterStaysLinear
<1>9. Serial => Abreast'
  BY <1>2, FreedAbreast DEF RInv
<1> QED
  BY <1>1, <1>2, <1>3, <1>4, <1>5, <1>6, <1>7, <1>8, <1>9 DEF RInv, Whole, Reads, Things

LEMMA JobWhole ==
  ASSUME RInv, NEW t \in Threads, Validate(t) \/ Abort(t)
  PROVE  RInv'
<1>1. store' = store /\ commits' = commits /\ Room' = Room
  BY DEF Validate, Abort, Room
<1>2. PICK new : /\ job' = [job EXCEPT ![t] = new]
                 /\ new = Idle \/ \E r \in Requests :
                      new = [request |-> r,
                             seen    |-> [x \in Reads(r) |-> GetCurrentVersion(store[x])]]
  BY DEF Validate, Abort
<1>3. new # Idle => /\ new.request \in Requests
                    /\ \A x \in Whole \intersect Reads(new.request) : Numbered(new.seen[x])
  <2>1. SUFFICES ASSUME new # Idle, NEW r \in Requests,
                        new = [request |-> r,
                               seen    |-> [x \in Reads(r) |-> GetCurrentVersion(store[x])]]
                 PROVE  /\ new.request \in Requests
                        /\ \A x \in Whole \intersect Reads(new.request) : Numbered(new.seen[x])
    BY <1>2
  <2>2. new.request = r /\ \A x \in Reads(r) : new.seen[x] = GetCurrentVersion(store[x])
    BY <2>1
  <2>3. \A x \in Whole : Numbered(GetCurrentVersion(store[x]))
    BY ReadNumbered DEF RInv
  <2> QED
    BY <2>2, <2>3
<1>4. job' = [u \in Threads |-> job'[u]]
      /\ \A u \in Threads : job'[u] = new \/ job'[u] = job[u]
  BY <1>2 DEF RInv
<1>5. ASSUME NEW u \in Threads, job'[u] # Idle
      PROVE  /\ job'[u].request \in Requests
             /\ \A x \in Whole \intersect Reads(job'[u].request) : Numbered(job'[u].seen[x])
  BY <1>3, <1>4, <1>5 DEF RInv
<1>6. Serial => Abreast'
  BY FreedAbreast, ValidatedAbreast DEF RInv, Abort
<1>7. NoOrphans'
  BY <1>1 DEF RInv, NoOrphans, Members
<1> QED
  BY <1>1, <1>4, <1>5, <1>6, <1>7 DEF RInv, Whole, Reads, Things

LEMMA NextWhole == Sheltered /\ RInv /\ [Next]_vars => RInv'
<1> SUFFICES ASSUME Sheltered, RInv, [Next]_vars PROVE RInv'
  OBVIOUS
<1>1. CASE UNCHANGED vars
  <2>1. NoOrphans' /\ (Serial => Abreast')
    BY <1>1 DEF RInv, NoOrphans, Members, Abreast, Valid, CanBecome, vars
  <2> QED
    BY <1>1, <2>1 DEF RInv, Room, Whole, Reads, Things, vars
<1>2. ASSUME NEW t \in Threads, Validate(t) \/ Abort(t)
      PROVE  RInv'
  BY <1>2, JobWhole
<1>3. ASSUME NEW t \in Threads, Execute(t)
      PROVE  Settled(t)
  BY <1>3, RegisterWhole, UpdateWhole, StatusUpdateWhole, StatusUpdateAllWhole, DeleteWhole,
     RealDeleteWhole, TagWhole, EditWhole, GraphRegisterWhole, AnnotateWhole DEF Execute
<1> QED
  BY <1>1, <1>2, <1>3, CommitWhole DEF Next

LEMMA InitWhole == Init => RInv
<1> SUFFICES ASSUME Init PROVE RInv
  OBVIOUS
<1> DEFINE first == GetCurrentVersion(Unknown)
<1>1. /\ store = [x \in Things |-> store[x]] /\ job = [t \in Threads |-> job[t]]
      /\ \A t \in Threads : job[t] = Idle
      /\ commits \in 0..MaxCommits /\ Room = 1
  BY Bounds DEF Init, Room
<1>2. /\ store[Reg] = NextVersion(Unknown, first)
      /\ store[RegItem] = NextVersion(Unknown, [first EXCEPT !.status = {"stable"}])
      /\ \A x \in Items : store[x] = Unknown
  BY ThingsApart DEF Init
<1>3. Unknown.current = 0 /\ ~Exists(Unknown)
  BY DEF Unknown, Exists
<1>4. Linear(Unknown, 0) /\ 0 \in Nat /\ 0 < MaxVersions /\ 0 <= MaxVersions
  BY UnknownSound, Bounds DEF Sound
<1>5. first \in SeenType /\ first.base = Unknown.current
      /\ Numbered(first) /\ Numbered([first EXCEPT !.status = {"stable"}])
  <2>1. first = [base   |-> Unknown.current, status |-> CurrentVersion(Unknown).status,
                 graphs |-> CurrentVersion(Unknown).graphs] /\ first \in SeenType
    BY <1>4, ReadLinear
  <2> HIDE DEF first
  <2> QED
    BY <1>3, <2>1 DEF Numbered
<1> HIDE DEF first
<1>6. Linear(store[Reg], 0 + 1)
  BY <1>2, <1>4, <1>5, NextVersionLinear
<1>7. \A x \in Whole : Exists(store[x]) /\ store[x].current \in Nat
  BY <1>2, <1>5, NextVersionExists DEF Whole
<1>8. NoOrphans
  BY <1>7 DEF NoOrphans, Whole
<1>9. Abreast
  BY <1>1 DEF Abreast
<1> QED
  BY <1>1, <1>6, <1>7, <1>8, <1>9 DEF RInv, Whole

\* However many clients there are and whatever they ask for, as long as nobody erases the
\* register, and with one client whether or not it is erased: no register is without its item
\* and no member without its register (StoreBaseImpl.delete, CommandRegister).
THEOREM OrphansNever == Sheltered /\ Spec => []NoOrphans
<1> SUFFICES ASSUME Sheltered PROVE Spec => []NoOrphans
  OBVIOUS
<1>1. RInv => NoOrphans
  BY DEF RInv
<1>2. RInv /\ [Next]_vars => RInv'
  BY NextWhole
<1> QED
  BY <1>1, <1>2, InitWhole, PTL DEF Spec

\* With one client the history of the register is linear, whatever is registered, tagged,
\* updated and erased: the version that doUpdateRegister starts from is the current one
\* (StoreBaseImpl.doUpdateRegister).
THEOREM RegisterLinear == Serial /\ Spec => []RegisterHistoryLinear
<1> SUFFICES ASSUME Serial PROVE Spec => []RegisterHistoryLinear
  OBVIOUS
<1>1. RInv => RegisterHistoryLinear
  BY DEF RInv, Linear, RegisterHistoryLinear
<1>2. RInv /\ [Next]_vars => RInv'
  BY NextWhole DEF Sheltered
<1> QED
  BY <1>1, <1>2, InitWhole, PTL DEF Spec
==============================================================================
