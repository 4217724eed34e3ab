---------------------------- MODULE VersionedStore ----------------------------
(***************************************************************************)
(* What the store keeps of one versioned thing, an item or a register, and *)
(* what StoreBaseImpl and VersionUtil make of it.                          *)
(*                                                                         *)
(* A thing is a root resource, which names the current version, and one    *)
(* resource for each version, named by its number.  The triples of a new   *)
(* version are added to the store whether or not a version of that number  *)
(* is there already, so a version may hold the statuses and the graph      *)
(* references of several writes.  An entity that is not a register is      *)
(* stored twice: in a named graph that belongs to the version that wrote   *)
(* it, and in the default graph, which is what queries see.  What an       *)
(* entity says is abstracted to a number, the commit that wrote it.        *)
(***************************************************************************)
EXTENDS Naturals

CONSTANT MaxVersions   \* bound: versions of one thing

Versions == 1..MaxVersions

\* "writes" counts the updates that wrote the version, "closes" the ends its interval
\* was given, "graphs" are the numbers of the entity graphs it refers to.
Absent == [writes |-> 0, closes |-> 0, status |-> {}, graphs |-> {}]

\* "stored" is the entity in the graph of each version, 0 where there is none; "live"
\* are the entities in the default graph.
Unknown == [current |-> 0,
            version |-> [n \in Versions |-> Absent],
            stored  |-> [n \in Versions |-> 0],
            live    |-> {}]

Exists(thing) == thing.current # 0

CurrentVersion(thing) ==
  IF Exists(thing) THEN thing.version[thing.current] ELSE Absent

\* What a reader takes away: the current version, flattened into the root.
GetCurrentVersion(thing) ==
  [base   |-> thing.current,
   status |-> CurrentVersion(thing).status,
   graphs |-> CurrentVersion(thing).graphs]

Written(version, seen) ==
  [writes |-> version.writes + 1,
   closes |-> version.closes,
   status |-> version.status \union seen.status,
   graphs |-> version.graphs \union seen.graphs]

Closed(version) == [version EXCEPT !.closes = @ + 1]

\* Mutation: the interval of the version before is left open.
NextVersionLeftOpen(thing, seen) ==
  LET n == seen.base + 1 IN
  [thing EXCEPT !.current = n, !.version[n] = Written(@, seen)]

\* The version after the one the written resource came from, whatever is current now.
NextVersion(thing, seen) ==
  LET n == seen.base + 1 IN
  [current |-> n,
   version |-> [k \in Versions |-> IF k = n             THEN Written(thing.version[k], seen)
                                   ELSE IF k = seen.base THEN Closed(thing.version[k])
                                   ELSE thing.version[k]],
   stored  |-> thing.stored,
   live    |-> thing.live]

------------------------------------------------------------------------------
(* The store operations below return the set of outcomes: where a resource  *)
(* has several values of a property the code takes whichever comes first.   *)

AnyOf(numbers) == IF numbers = {} THEN {0} ELSE numbers

\* Mutation: the graph is named after the version before.
ReferringBefore(version, old, n) ==
  [version EXCEPT !.graphs = (@ \ {old}) \union {n - 1}]

\* The reference to the entity of version n takes the place of an earlier one.
Referring(version, old, n) == [version EXCEPT !.graphs = (@ \ {old}) \union {n}]

\* The entity of version n is stored in its graph and, unless it was registered as a
\* graph, is also added to what is left of the default graph.
WithEntity(thing, old, content, asGraph, left) ==
  LET n == thing.current IN
  [current |-> n,
   version |-> [thing.version EXCEPT ![n] = Referring(@, old, n)],
   stored  |-> [thing.stored EXCEPT ![n] = content],
   live    |-> left \union (IF asGraph THEN {} ELSE {content})]

\* Mutation: the old entity stays in the default graph.
UpdateEntityKeepsOld(thing, seen, content, asGraph) ==
  LET written == NextVersion(thing, seen)
  IN {WithEntity(written, old, content, asGraph, thing.live) :
        old \in AnyOf(written.version[written.current].graphs)}

\* The default graph without the entity of version n.
Without(thing, n) == IF n = 0 THEN thing.live ELSE thing.live \ {thing.stored[n]}

\* doUpdateItem with an entity that is no register: the graph of the version that was
\* current is taken out of the default graph and the new entity put in.
UpdateEntity(thing, seen, content, asGraph) ==
  LET written  == NextVersion(thing, seen)
      replaced == IF Exists(thing) THEN AnyOf(written.version[thing.current].graphs) ELSE {0}
  IN {WithEntity(written, old, content, asGraph, Without(thing, n)) :
        old \in AnyOf(written.version[written.current].graphs), n \in replaced}

\* doUpdateRegister: the root to write has the version number it was read with, if any,
\* and is given the current one too, and either may be taken for its number.
UpdateRegister(thing, seen) ==
  {NextVersion(thing, [seen EXCEPT !.base = base]) :
     base \in AnyOf({seen.base, thing.current} \ {0})}
==============================================================================
