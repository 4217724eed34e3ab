--------------------------- MODULE RegistryCommands ---------------------------
(***************************************************************************)
(* The commands that change the registry, and the versions they make.      *)
(*                                                                         *)
(* The registry here is one register: Reg, the RegItem that registers Reg  *)
(* in its parent, and the Items it may hold.  A thread validates a request *)
(* in one transaction and executes it in another, so what Validate read    *)
(* may be stale when Execute uses it.  Execute is one step: StoreTransact- *)
(* ions shows that no other commit falls inside a write transaction, and a *)
(* handler that fails leaves nothing behind.                               *)
(***************************************************************************)
EXTENDS VersionedStore, Lifecycle

CONSTANTS
  Threads,      \* the threads that serve requests
  Items,        \* the items that may be registered in Reg
  RegItem, Reg, \* the register's own item, and the register
  Nothing,      \* no request, no successor
  Requests,     \* the requests that clients make (see RequestOf)
  MaxCommits    \* bound: requests that commit

Things == Items \union {RegItem, Reg}

Operations == {"register", "update", "status", "delete", "realDelete",
               "tag", "edit", "graph", "annotate"}

\* A request: the things it is about, the status it asks for ("keep" when none), whether
\* it brings an entity, whether the caller may force a status, and a successor.
RequestOf(op, on, status, entity, force, successor) ==
  [op |-> op, on |-> on, status |-> status, entity |-> entity, force |-> force,
   successor |-> successor]

ASSUME RequestsAssumption ==
  /\ RegItem \notin Items /\ Reg \notin Items /\ RegItem # Reg
  /\ Nothing \notin Threads \union Things
  /\ MaxCommits \in Nat /\ MaxVersions \in Nat /\ MaxCommits < MaxVersions
  /\ \A r \in Requests :
       /\ r.op \in Operations
       /\ CASE r.op \in {"register", "edit"} -> r.on \subseteq Items /\ r.on # {}
            [] r.op = "graph"                -> \E x \in Items : r.on = {x}
            [] r.op \in {"update", "annotate"} -> \E x \in Items \union {RegItem} : r.on = {x}
            [] r.op = "tag"                  -> r.on = {Reg}
            [] OTHER                         -> \E x \in Things : r.on = {x}
       /\ r.status \in Statuses \union {"keep"}
       /\ r.entity \in BOOLEAN /\ r.force \in BOOLEAN
       /\ r.successor \in Items \union {Nothing}

VARIABLES
  store,   \* what is committed of each thing
  job,     \* the request each thread is serving and what its validation read
  commits  \* number of commits so far

vars == <<store, job, commits>>

Idle == [request |-> Nothing, seen |-> [x \in {} |-> GetCurrentVersion(Unknown)]]

Members == {x \in Items : Exists(store[x])}

CanBecome(x, status) ==
  \E previous \in CurrentVersion(store[x]).status : LegalNextState(previous, status)

\* The one thing a request is about, and the item of the URL it names.
Target(r) == CHOOSE x \in r.on : TRUE

ItemOf(x) == IF x = Reg THEN RegItem ELSE x

------------------------------------------------------------------------------
(* Validation.                                                              *)

\* What validate() keeps for doExecute().
Reads(r) ==
  CASE r.op \in {"register", "tag"} -> {Reg}
    [] r.op = "update"              -> r.on \union (IF r.entity THEN {Reg} ELSE {})
    [] OTHER                        -> {}

Valid(r) ==
  /\ r.op \in {"register", "tag", "edit", "graph"} => Exists(store[Reg])
  /\ r.op = "update" =>
       /\ Exists(store[Target(r)])
       /\ r.status = "keep" \/ r.force \/ CanBecome(Target(r), r.status)

Validate(t) ==
  /\ job[t] = Idle
  /\ \E r \in Requests :
       /\ Valid(r)
       /\ job' = [job EXCEPT ![t] =
                    [request |-> r,
                     seen    |-> [x \in Reads(r) |-> GetCurrentVersion(store[x])]]]
  /\ UNCHANGED <<store, commits>>

------------------------------------------------------------------------------
(* Execution.                                                               *)

Serves(t, op) == job[t].request # Nothing /\ job[t].request.op = op

\* What the handler wrote takes effect and the thread is free again.
Commit(t, written) ==
  /\ commits < MaxCommits
  /\ store' = written
  /\ commits' = commits + 1
  /\ job' = [job EXCEPT ![t] = Idle]

\* The store with the things in DOMAIN changed replaced.
Overlay(changed) ==
  [x \in Things |-> IF x \in DOMAIN changed THEN changed[x] ELSE store[x]]

\* The functions that pick a member of each set of a function of sets.
Selections(sets) ==
  {f \in [DOMAIN sets -> UNION {sets[x] : x \in DOMAIN sets}] :
     \A x \in DOMAIN sets : f[x] \in sets[x]}

\* A thing read in this transaction, with the status asked for.
WithStatus(seen, status) ==
  IF status = "keep" THEN seen ELSE [seen EXCEPT !.status = {status}]

Updated(x, status) ==
  NextVersion(store[x], WithStatus(GetCurrentVersion(store[x]), status))

EntityUpdates(x, status, asGraph) ==
  UpdateEntity(store[x], WithStatus(GetCurrentVersion(store[x]), status), commits + 1, asGraph)

\* addToRegister: a submission without a status is "submitted".
Additions(x, status, asGraph) ==
  UpdateEntity(store[x],
               [base   |-> 0,
                status |-> {IF status = "keep" THEN "submitted" ELSE status},
                graphs |-> {}],
               commits + 1, asGraph)

\* Mutation: addToRegister trusts the validation that the items are new.
RegisterUnchecked(t) ==
  LET r == job[t].request IN
  /\ Serves(t, "register")
  /\ \E items \in Selections([x \in r.on |-> Additions(x, r.status, FALSE)]),
        register \in UpdateRegister(store[Reg], job[t].seen[Reg]) :
       Commit(t, [Overlay(items) EXCEPT ![Reg] = register])

\* CommandRegister.  The items are looked for again; the register is the one that the
\* validation read.
Register(t) ==
  LET r == job[t].request IN
  /\ Serves(t, "register")
  /\ \A x \in r.on : ~Exists(store[x])
  /\ \E items \in Selections([x \in r.on |-> Additions(x, r.status, FALSE)]),
        register \in UpdateRegister(store[Reg], job[t].seen[Reg]) :
       Commit(t, [Overlay(items) EXCEPT ![Reg] = register])

\* CommandUpdate writes the item that the validation read, changed by the payload.  The
\* entity of a register's item is the register.
Update(t) ==
  LET r    == job[t].request
      x    == Target(r)
      seen == WithStatus(job[t].seen[x], r.status)
  IN /\ Serves(t, "update")
     /\ \/ /\ ~r.entity
           /\ Commit(t, [store EXCEPT ![x] = NextVersion(@, seen)])
        \/ /\ r.entity /\ x \in Items
           /\ \E item \in UpdateEntity(store[x], seen, commits + 1, FALSE) :
                Commit(t, [store EXCEPT ![x] = item])
        \/ /\ r.entity /\ x = RegItem
           /\ \E register \in UpdateRegister(store[Reg], job[t].seen[Reg]) :
                Commit(t, [store EXCEPT ![x] = NextVersion(@, seen), ![Reg] = register])

\* Mutation: the lifecycle is not asked.
StatusUpdateUnchecked(t) ==
  LET r == job[t].request
      x == Target(r)
  IN /\ Serves(t, "status")
     /\ x \in Items \union {RegItem} /\ Exists(store[x]) /\ r.successor = Nothing
     /\ Commit(t, [store EXCEPT ![x] = Updated(x, r.status)])

\* CommandStatusUpdate of one item.  It reads the item, gives its successor the item for a
\* predecessor, which makes a version of the successor, and then writes the item.
StatusUpdate(t) ==
  LET r == job[t].request
      x == Target(r)
      y == r.successor
  IN /\ Serves(t, "status")
     /\ x \in Items \union {RegItem} /\ Exists(store[x])
     /\ r.force \/ CanBecome(x, r.status)
     /\ \/ /\ y \notin Members
           /\ Commit(t, [store EXCEPT ![x] = Updated(x, r.status)])
        \/ /\ y \in Members \ {x}
           /\ Commit(t, [store EXCEPT ![x] = Updated(x, r.status), ![y] = Updated(y, "keep")])
        \/ /\ y = x
           /\ Commit(t, [store EXCEPT ![x] =
                  NextVersion(Updated(x, "keep"), WithStatus(GetCurrentVersion(@), r.status))])

\* CommandStatusUpdate of a whole register: every member or none.
StatusUpdateAll(t) ==
  LET r == job[t].request IN
  /\ Serves(t, "status") /\ r.on = {Reg} /\ Exists(store[RegItem])
  /\ r.successor = Nothing     \* bound: no successor common to the members
  /\ \A x \in Members : r.force \/ CanBecome(x, r.status)
  /\ Commit(t, Overlay([x \in Members |-> Updated(x, r.status)]))

\* CommandDelete: setStatus(Invalid), whose refusal it ignores, and a version all the same.
Deleted(x) == IF CanBecome(x, "invalid") THEN Updated(x, "invalid") ELSE Updated(x, "keep")

WithMembers(x) == IF x = RegItem THEN {RegItem} \union Members ELSE {x}

Delete(t) ==
  LET x == ItemOf(Target(job[t].request)) IN
  /\ Serves(t, "delete")
  /\ Exists(store[x])
  /\ Commit(t, Overlay([y \in WithMembers(x) |-> Deleted(y)]))

\* Mutation: the members of a register that is deleted stay.
RealDeleteKeepsMembers(t) ==
  LET x == ItemOf(Target(job[t].request)) IN
  /\ Serves(t, "realDelete")
  /\ Commit(t, Overlay([y \in {x} \union (IF x = RegItem THEN {Reg} ELSE {}) |-> Unknown]))

\* CommandRealDelete erases every version; a register goes with its members.
RealDelete(t) ==
  LET x      == ItemOf(Target(job[t].request))
      erased == WithMembers(x) \union (IF x = RegItem THEN {Reg} ELSE {})
  IN /\ Serves(t, "realDelete")
     /\ Commit(t, IF Exists(store[x]) THEN Overlay([y \in erased |-> Unknown]) ELSE store)

\* CommandTag adds the collection to the register that the validation read.
Tag(t) ==
  /\ Serves(t, "tag")
  /\ \E register \in UpdateRegister(store[Reg], job[t].seen[Reg]) :
       Commit(t, [store EXCEPT ![Reg] = register])

\* CommandEdit patches the members it finds, where the patch changes something, and adds
\* the other items.  The register makes no new version.
Edits(x, r) ==
  IF x \in Members THEN EntityUpdates(x, r.status, FALSE) ELSE Additions(x, r.status, FALSE)

Edit(t) ==
  LET r == job[t].request IN
  /\ Serves(t, "edit")
  /\ \E alike \in SUBSET (r.on \intersect Members) :
       \E items \in Selections([x \in r.on \ alike |-> Edits(x, r)]) :
         Commit(t, Overlay(items))

\* CommandGraphRegister: an update of an item that is there, else a registration that
\* makes no new version of the register.
GraphRegister(t) ==
  LET x == Target(job[t].request) IN
  /\ Serves(t, "graph")
  /\ \E item \in IF Exists(store[x]) THEN EntityUpdates(x, "keep", TRUE)
                                     ELSE Additions(x, "keep", TRUE) :
       Commit(t, [store EXCEPT ![x] = item])

Annotate(t) ==
  LET x == Target(job[t].request) IN
  /\ Serves(t, "annotate")
  /\ Exists(store[x])
  /\ Commit(t, [store EXCEPT ![x] = Updated(x, "keep")])

\* The request is refused, or the handler or the server fails, before the commit.
Abort(t) ==
  /\ job[t] # Idle
  /\ job' = [job EXCEPT ![t] = Idle]
  /\ UNCHANGED <<store, commits>>

------------------------------------------------------------------------------
\* Registry.startup has loaded the register, which has no members yet.
Init ==
  /\ store = [x \in Things |->
       CASE x = Reg     -> NextVersion(Unknown, GetCurrentVersion(Unknown))
         [] x = RegItem -> NextVersion(Unknown, [GetCurrentVersion(Unknown)
                                                   EXCEPT !.status = {"stable"}])
         [] OTHER       -> Unknown]
  /\ job = [t \in Threads |-> Idle]
  /\ commits = 0

Execute(t) ==
  \/ Register(t) \/ Update(t) \/ StatusUpdate(t) \/ StatusUpdateAll(t) \/ Delete(t)
  \/ RealDelete(t) \/ Tag(t) \/ Edit(t) \/ GraphRegister(t) \/ Annotate(t)

Next == \E t \in Threads : Validate(t) \/ Execute(t) \/ Abort(t)

Spec == Init /\ [][Next]_vars

------------------------------------------------------------------------------
(* Properties.                                                              *)

TypeOK ==
  /\ store \in [Things ->
       [current : 0..MaxVersions,
        version : [Versions -> [writes : Nat, closes : Nat, status : SUBSET Statuses,
                                graphs : SUBSET Versions]],
        stored  : [Versions -> Nat],
        live    : SUBSET Nat]]
  /\ \A t \in Threads : job[t] # Idle => job[t].request \in Requests
  /\ commits \in 0..MaxCommits

\* The versions of a thing are 1, 2, ... up to the current one.  Each was written by one
\* update, all but the current one are closed, once, and there is no trace of others.
LinearHistory(thing) ==
  \A n \in Versions :
    IF n <= thing.current
    THEN /\ thing.version[n].writes = 1
         /\ thing.version[n].closes = IF n = thing.current THEN 0 ELSE 1
    ELSE thing.version[n] = Absent /\ thing.stored[n] = 0

\* The history of every item is linear, so the version a time or a number selects is one
\* version (VersionUtil.nextVersion, getVersionAt).
ItemHistoriesLinear == \A x \in Items \union {RegItem} : LinearHistory(store[x])

\* So is the history of the register (doUpdateRegister).
RegisterHistoryLinear == LinearHistory(store[Reg])

\* What queries see of an item in the default graph is never an entity that a later
\* version replaced, nor one of an item that was erased (doUpdateItem, delete).
NoStaleEntity ==
  \A x \in Items :
    \A e \in store[x].live :
      /\ Exists(store[x])
      /\ \E g \in CurrentVersion(store[x]).graphs : store[x].stored[g] = e

\* There are no members of a register that is gone, and no register without its item
\* (StoreBaseImpl.delete, CommandRegister).
NoOrphans ==
  /\ Members # {} => Exists(store[Reg])
  /\ Exists(store[Reg]) <=> Exists(store[RegItem])

\* A version of an item, once written, is never changed but for the end of the current
\* one's interval; neither is the entity graph it stored.  Only a real delete removes
\* versions, and then all of them.
VersionsKept ==
  [][\A x \in Items \union {RegItem} :
       LET old == store[x]
           new == store'[x]
       IN Exists(old) /\ Exists(new) =>
            /\ new.current >= old.current
            /\ \A n \in 1..old.current :
                 /\ new.stored[n] = old.stored[n]
                 /\ \/ new.version[n] = old.version[n]
                    \/ /\ n = old.current
                       /\ new.version[n] = [old.version[n] EXCEPT !.closes = @ + 1]]_vars

\* The status of an item changes only along the lifecycle, one step for each commit,
\* unless the request may force it or is an edit, which does not ask the lifecycle
\* (setStatus, CommandUpdate.validate).
LegalLifecycle ==
  [][\A x \in Items :
       Exists(store[x]) /\ Exists(store'[x]) =>
         \A next \in CurrentVersion(store'[x]).status :
           \/ \E previous \in CurrentVersion(store[x]).status :
                next = previous \/ next \in Successors[previous]
           \/ \E t \in Threads :
                /\ job[t] # Idle /\ job'[t] = Idle
                /\ job[t].request.force \/ job[t].request.op = "edit"]_vars

\* Every update makes a new version: no two of them write the same one (StoreAPI.update
\* returns "the URI of the new version of the item").
UpdatesMakeVersions ==
  \A x \in Items : \A n \in Versions : store[x].version[n].writes <= 1

\* The statuses of the versions of each item are a log that only grows, or is erased.
History == INSTANCE VersionHistory
  WITH Things <- Items,
       log <- [x \in Items |-> [n \in 1..store[x].current |-> store[x].version[n].status]]

AppendOnly == History!Spec
==============================================================================
