------------------------ MODULE RegistryCommandsProofs ------------------------
(***************************************************************************)
(* The histories of items, for every set of threads, items and requests,   *)
(* as long as no item is declared its own successor and there is one       *)
(* client at a time or no CommandUpdate, which writes what its validation  *)
(* read.                                                                   *)
(*                                                                         *)
(* Each command then makes of each item what it was, nothing at all, or    *)
(* the version after the current one, of one status and with the entity    *)
(* of the current version or a new one: the relation Steps.  There is one  *)
(* lemma for each command that says so.  The invariant says of each item   *)
(* that its history is linear, that its versions have one status each and  *)
(* the current one at most one entity, and that it is no longer than the   *)
(* commits that can have made it, so there is room for one more.  That     *)
(* Steps keeps this, what it leaves of the versions that were there and    *)
(* what it does to the log of statuses are lemmas about one thing.         *)
(***************************************************************************)
EXTENDS RegistryCommands, Sequences, TLAPS

\* One client at a time.
Serial == \A t, u \in Threads : t = u

\* The requests the theorems are about: what they write of an item is read when they do, or
\* nothing was written since.
Fresh ==
  /\ \A r \in Requests : r.successor \notin r.on
  /\ Serial \/ \A r \in Requests : r.op # "update"

VersionType == [writes : Nat, closes : Nat, status : SUBSET Statuses, graphs : SUBSET Versions]

ThingType == [current : Nat, version : [Versions -> VersionType],
              stored : [Versions -> Nat], live : SUBSET Nat]

SeenType == [base : Nat, status : SUBSET Statuses, graphs : SUBSET Versions]

OneStatus(version) == \E s \in Statuses : version.status = {s}

\* The current version has at most one entity, and queries see no other.
Shown(thing) ==
  LET graphs == CurrentVersion(thing).graphs IN
  /\ \A g, h \in graphs : g = h
  /\ \A e \in thing.live : Exists(thing) /\ \E g \in graphs : thing.stored[g] = e

\* A thing that has no version more than "room".
Linear(thing, room) ==
  /\ thing \in ThingType
  /\ LinearHistory(thing)
  /\ thing.current <= room

Sound(thing, room) ==
  /\ Linear(thing, room)
  /\ \A n \in Versions : n <= thing.current => OneStatus(thing.version[n])
  /\ Shown(thing)

\* What was read in the transaction that writes the thing, with one status.
Fits(thing, seen) ==
  /\ seen \in SeenType /\ OneStatus(seen)
  /\ seen.base = thing.current
  /\ seen.graphs = CurrentVersion(thing).graphs

\* The status to write is one the lifecycle lets follow, if the lifecycle is asked.
Follows(thing, seen, free) ==
  \/ free
  \/ ~Exists(thing)
  \/ \A next \in seen.status :
       \E previous \in CurrentVersion(thing).status : LegalNextState(previous, next)

Writes(thing, seen, new) ==
  \/ new = NextVersion(thing, seen)
  \/ \E content \in Nat, asGraph \in BOOLEAN :
       new \in UpdateEntity(thing, seen, content, asGraph)

\* What one commit makes of a thing.
Steps(thing, new, free) ==
  \/ new = thing
  \/ new = Unknown
  \/ \E seen : Fits(thing, seen) /\ Follows(thing, seen, free) /\ Writes(thing, seen, new)

\* What Writes amounts to: one new version, and of the others only the end of the one
\* before is new.
Advanced(thing, seen, new) ==
  LET n == thing.current + 1 IN
  /\ new \in ThingType
  /\ new.current = n
  /\ new.version[n].writes = 1 /\ new.version[n].closes = 0
  /\ new.version[n].status = seen.status
  /\ \A g, h \in new.version[n].graphs : g = h
  /\ \A e \in new.live : \E g \in new.version[n].graphs : new.stored[g] = e
  /\ \A k \in Versions \ {n} :
       /\ new.version[k] = IF k = thing.current THEN Closed(thing.version[k])
                           ELSE thing.version[k]
       /\ new.stored[k] = thing.stored[k]

LEMMA Bounds ==
  /\ MaxCommits \in Nat /\ MaxVersions \in Nat /\ MaxCommits < MaxVersions
  /\ RegItem \notin Items /\ Reg \notin Items /\ RegItem # Reg
  /\ Nothing \notin Threads \union Things
BY RequestsAssumption DEF RequestsAssumption

------------------------------------------------------------------------------
(* Things.                                                                  *)

LEMMA UnknownSound == Sound(Unknown, 0)
BY DEF Sound, Linear, Unknown, Absent, ThingType, VersionType, LinearHistory, Versions, Shown,
       CurrentVersion, Exists

\* Reading the current version of a thing gives its number and sets of values.
LEMMA ReadLinear ==
  ASSUME NEW thing, NEW room \in Nat, room <= MaxVersions, Linear(thing, room)
  PROVE  /\ CurrentVersion(thing) \in VersionType
         /\ GetCurrentVersion(thing) \in SeenType
         /\ GetCurrentVersion(thing) = [base   |-> thing.current,
                                        status |-> CurrentVersion(thing).status,
                                        graphs |-> CurrentVersion(thing).graphs]
         /\ Exists(thing) => thing.current \in Versions
<1>1. thing.current \in Nat /\ thing.version \in [Versions -> VersionType]
      /\ (Exists(thing) => thing.current \in Versions)
  BY Bounds DEF Linear, ThingType, Exists, Versions
<1>2. Absent \in VersionType
  BY DEF Absent, VersionType
<1>3. CurrentVersion(thing) \in VersionType
  BY <1>1, <1>2 DEF CurrentVersion
<1> QED
  BY <1>1, <1>3 DEF GetCurrentVersion, SeenType, VersionType

\* That of a sound thing has one status.
LEMMA ReadCurrent ==
  ASSUME NEW thing, NEW room \in Nat, room <= MaxVersions, Sound(thing, room)
  PROVE  /\ CurrentVersion(thing) \in VersionType
         /\ GetCurrentVersion(thing) \in SeenType
         /\ GetCurrentVersion(thing) = [base   |-> thing.current,
                                        status |-> CurrentVersion(thing).status,
                                        graphs |-> CurrentVersion(thing).graphs]
         /\ Exists(thing) => thing.current \in Versions /\ OneStatus(CurrentVersion(thing))
<1>1. Exists(thing) => thing.current \in Versions
  BY ReadLinear DEF Sound
<1>2. Exists(thing) => OneStatus(CurrentVersion(thing))
  <2>1. thing.current \in Nat
    BY DEF Sound, Linear, ThingType
  <2> QED
    BY <1>1, <2>1 DEF CurrentVersion, Sound
<1> QED
  BY <1>1, <1>2, ReadLinear DEF Sound

LEMMA WrittenType ==
  ASSUME NEW version \in VersionType, NEW seen \in SeenType
  PROVE  Written(version, seen) \in VersionType /\ Closed(version) \in VersionType
BY DEF Written, Closed, VersionType, SeenType

\* The version after the current one is new, and the current one is closed.
LEMMA NextVersionIs ==
  ASSUME NEW thing, NEW room \in Nat, room < MaxVersions, Linear(thing, room),
         NEW seen \in SeenType, seen.base = thing.current
  PROVE  LET new == NextVersion(thing, seen)
             n   == thing.current + 1
         IN /\ n \in Versions /\ thing.current \in Nat
            /\ new = [current |-> n, version |-> new.version,
                      stored |-> thing.stored, live |-> thing.live]
            /\ new.version \in [Versions -> VersionType]
            /\ new.version[n] = [writes |-> 1, closes |-> 0, status |-> seen.status,
                                 graphs |-> seen.graphs]
            /\ thing.stored[n] = 0
            /\ \A k \in Versions \ {n} :
                 new.version[k] = IF k = thing.current THEN Closed(thing.version[k])
                                  ELSE thing.version[k]
<1> DEFINE new == NextVersion(thing, seen)
           n == thing.current + 1
<1>1. /\ thing.current \in Nat /\ thing.current <= room
      /\ thing.version \in [Versions -> VersionType]
      /\ seen \in SeenType /\ seen.base = thing.current
  BY DEF Linear, ThingType
<1>2. n \in Versions
  BY <1>1, Bounds DEF Versions
<1>3. new = [current |-> n, version |-> new.version, stored |-> thing.stored,
             live |-> thing.live]
  BY <1>1 DEF NextVersion
<1>4. new.version = [k \in Versions |->
                       IF k = n THEN Written(thing.version[k], seen)
                       ELSE IF k = thing.current THEN Closed(thing.version[k])
                       ELSE thing.version[k]]
  BY <1>1 DEF NextVersion
<1> HIDE DEF new
<1>5. new.version \in [Versions -> VersionType]
  <2>1. \A k \in Versions : /\ thing.version[k] \in VersionType
                          /\ Written(thing.version[k], seen) \in VersionType
                          /\ Closed(thing.version[k]) \in VersionType
    BY <1>1, WrittenType
  <2> QED
    BY <1>4, <2>1
<1>6. thing.version[n] = Absent /\ thing.stored[n] = 0
  BY <1>1, <1>2 DEF Linear, LinearHistory
<1>7. new.version[n] = Written(Absent, seen)
  BY <1>2, <1>4, <1>6
<1>8. Written(Absent, seen) = [writes |-> 1, closes |-> 0, status |-> seen.status,
                               graphs |-> seen.graphs]
  BY DEF Written, Absent
<1> QED
  BY <1>1, <1>2, <1>3, <1>4, <1>5, <1>6, <1>7, <1>8 DEF new

\* So a thing that is written from what is current stays linear.
LEMMA NextVersionLinear ==
  ASSUME NEW thing, NEW room \in Nat, room < MaxVersions, Linear(thing, room),
         NEW seen \in SeenType, seen.base = thing.current
  PROVE  Linear(NextVersion(thing, seen), room + 1)
<1> DEFINE new == NextVersion(thing, seen)
           n == thing.current + 1
<1>1. /\ n \in Versions /\ thing.current \in Nat
      /\ new = [current |-> n, version |-> new.version,
                stored |-> thing.stored, live |-> thing.live]
      /\ new.version \in [Versions -> VersionType]
      /\ new.version[n] = [writes |-> 1, closes |-> 0, status |-> seen.status,
                           graphs |-> seen.graphs]
      /\ \A k \in Versions \ {n} :
           new.version[k] = IF k = thing.current THEN Closed(thing.version[k])
                            ELSE thing.version[k]
  BY NextVersionIs
<1> HIDE DEF new
<1>2. new.current = n /\ new.stored = thing.stored /\ new.live = thing.live
  BY <1>1
<1>3. /\ thing \in ThingType /\ thing.current <= room
      /\ thing.version \in [Versions -> VersionType]
  BY DEF Linear, ThingType
<1>4. new \in ThingType
  BY <1>2, <1>1, <1>3 DEF ThingType
<1>5. ASSUME NEW k \in Versions
      PROVE  IF k <= n
             THEN new.version[k].writes = 1 /\ new.version[k].closes = IF k = n THEN 0 ELSE 1
             ELSE new.version[k] = Absent /\ new.stored[k] = 0
  <2>1. k \in Nat
    BY DEF Versions
  <2>2. thing.version[k] \in VersionType
    BY <1>3
  <2>3. IF k <= thing.current
        THEN /\ thing.version[k].writes = 1
             /\ thing.version[k].closes = IF k = thing.current THEN 0 ELSE 1
        ELSE thing.version[k] = Absent /\ thing.stored[k] = 0
    BY DEF Linear, LinearHistory
  <2>4. CASE k = thing.current
    <3>1. new.version[k] = Closed(thing.version[k])
      BY <1>1, <2>4
    <3>2. new.version[k].writes = 1 /\ new.version[k].closes = 1
      BY <1>1, <2>1, <2>2, <2>3, <2>4, <3>1 DEF Closed, VersionType
    <3> QED
      BY <1>1, <2>4, <3>2
  <2>5. CASE k = n
    BY <1>1, <2>5
  <2>6. CASE k # n /\ k # thing.current
    <3>1. new.version[k] = thing.version[k] /\ new.stored[k] = thing.stored[k]
      BY <1>2, <1>1, <2>6
    <3> QED
      BY <1>1, <2>1, <2>3, <2>6, <3>1
  <2> QED
    BY <2>4, <2>5, <2>6
<1>6. LinearHistory(new)
  BY <1>2, <1>5 DEF LinearHistory
<1> QED
  BY <1>2, <1>1, <1>3, <1>4, <1>6 DEF Linear, new

LEMMA ReferringRecord ==
  ASSUME NEW writes, NEW closes, NEW status, NEW graphs, NEW old, NEW n,
         graphs \ {old} = {}
  PROVE  Referring([writes |-> writes, closes |-> closes, status |-> status,
                    graphs |-> graphs], old, n)
           = [writes |-> writes, closes |-> closes, status |-> status, graphs |-> {n}]
BY DEF Referring

\* An entity update writes the next version, which then refers to the new entity only,
\* and the entity that was replaced is not shown any more.
LEMMA UpdateEntityIs ==
  ASSUME NEW thing, NEW room \in Nat, room < MaxVersions, Sound(thing, room),
         NEW seen, Fits(thing, seen), NEW content \in Nat, NEW asGraph \in BOOLEAN,
         NEW new \in UpdateEntity(thing, seen, content, asGraph)
  PROVE  LET written == NextVersion(thing, seen)
             n       == thing.current + 1
         IN /\ new = [current |-> n, version |-> new.version,
                      stored |-> [thing.stored EXCEPT ![n] = content], live |-> new.live]
            /\ new.version = [written.version EXCEPT ![n] =
                                [writes |-> 1, closes |-> 0, status |-> seen.status,
                                 graphs |-> {n}]]
            /\ new.live \subseteq {content}
<1> DEFINE written == NextVersion(thing, seen)
           n == thing.current + 1
<1>1. /\ n \in Versions /\ thing.current \in Nat
      /\ written.current = n /\ written.stored = thing.stored
      /\ written.version \in [Versions -> VersionType]
      /\ written.version[n] = [writes |-> 1, closes |-> 0, status |-> seen.status,
                               graphs |-> seen.graphs]
      /\ \A k \in Versions \ {n} :
           written.version[k] = IF k = thing.current THEN Closed(thing.version[k])
                                ELSE thing.version[k]
  BY NextVersionIs DEF Sound, Fits
<1> HIDE DEF written
<1>2. PICK old \in AnyOf(written.version[n].graphs),
           m \in IF Exists(thing) THEN AnyOf(written.version[thing.current].graphs) ELSE {0} :
        new = WithEntity(written, old, content, asGraph, Without(thing, m))
  BY <1>1 DEF UpdateEntity, written
<1>3. seen.graphs = CurrentVersion(thing).graphs /\ \A g, h \in seen.graphs : g = h
  BY DEF Fits, Sound, Shown
<1>4. seen.graphs \ {old} = {}
  BY <1>1, <1>2, <1>3 DEF AnyOf
<1>5. Referring(written.version[n], old, n)
        = [writes |-> 1, closes |-> 0, status |-> seen.status, graphs |-> {n}]
  <2> DEFINE last == [writes |-> 1, closes |-> 0, status |-> seen.status,
                      graphs |-> seen.graphs]
  <2>1. Referring(last, old, n)
          = [writes |-> 1, closes |-> 0, status |-> seen.status, graphs |-> {n}]
    BY <1>4, ReferringRecord
  <2>2. written.version[n] = last
    BY <1>1
  <2> HIDE DEF last
  <2> QED
    BY <2>1, <2>2
<1>6. Without(thing, m) = {}
  <2>1. CASE ~Exists(thing)
    <3>1. thing.live = {}
      BY <2>1 DEF Sound, Shown
    <3> QED
      BY <3>1 DEF Without
  <2>2. CASE Exists(thing)
    <3>1. thing.current \in Versions
      BY <1>1, <2>2, Bounds DEF Sound, Linear, Exists, Versions
    <3>2. written.version[thing.current] = Closed(thing.version[thing.current])
      BY <1>1, <3>1
    <3>3. thing.version[thing.current] \in VersionType
      BY <3>1 DEF Sound, Linear, ThingType
    <3>4. written.version[thing.current].graphs = seen.graphs
      BY <1>3, <2>2, <3>2, <3>3 DEF Closed, VersionType, CurrentVersion
    <3>5. m \in AnyOf(seen.graphs)
      BY <1>2, <2>2, <3>4
    <3>6. \A e \in thing.live : \E g \in seen.graphs : thing.stored[g] = e
      BY <1>3 DEF Sound, Shown
    <3>7. CASE seen.graphs = {}
      BY <3>6, <3>7 DEF Without
    <3>8. CASE seen.graphs # {}
      <4>1. m \in seen.graphs
        BY <3>5, <3>8 DEF AnyOf
      <4>2. m # 0
        BY <4>1 DEF Fits, SeenType, Versions
      <4> QED
        BY <1>3, <3>6, <4>1, <4>2 DEF Without
    <3> QED
      BY <3>7, <3>8
  <2> QED
    BY <2>1, <2>2
<1>7. new = [current |-> n,
             version |-> [written.version EXCEPT ![n] =
                            Referring(written.version[n], old, n)],
             stored  |-> [thing.stored EXCEPT ![n] = content],
             live    |-> {} \union (IF asGraph THEN {} ELSE {content})]
  BY <1>1, <1>2, <1>6 DEF WithEntity
<1> QED
  BY <1>5, <1>7 DEF written

LEMMA WritesAdvance ==
  ASSUME NEW thing, NEW room \in Nat, room < MaxVersions, Sound(thing, room),
         NEW seen, Fits(thing, seen), NEW new, Writes(thing, seen, new)
  PROVE  /\ thing.current \in Nat /\ thing.current + 1 \in Versions
         /\ Advanced(thing, seen, new)
<1> DEFINE written == NextVersion(thing, seen)
           n == thing.current + 1
<1>1. /\ n \in Versions /\ thing.current \in Nat
      /\ written = [current |-> n, version |-> written.version,
                    stored |-> thing.stored, live |-> thing.live]
      /\ written.version \in [Versions -> VersionType]
      /\ written.version[n] = [writes |-> 1, closes |-> 0, status |-> seen.status,
                               graphs |-> seen.graphs]
      /\ \A k \in Versions \ {n} :
           written.version[k] = IF k = thing.current THEN Closed(thing.version[k])
                                ELSE thing.version[k]
  BY NextVersionIs DEF Sound, Fits
<1> HIDE DEF written
<1>2. /\ thing.stored \in [Versions -> Nat] /\ thing.live \in SUBSET Nat
      /\ seen \in SeenType
      /\ seen.graphs = CurrentVersion(thing).graphs
      /\ Shown(thing)
  BY DEF Sound, Linear, ThingType, Fits
<1>3. CASE new = written
  <2>1. new \in ThingType
    BY <1>1, <1>2, <1>3 DEF ThingType, Versions
  <2> QED
    BY <1>1, <1>2, <1>3, <2>1 DEF Advanced, Shown
<1>4. ASSUME NEW content \in Nat, NEW asGraph \in BOOLEAN,
             new \in UpdateEntity(thing, seen, content, asGraph)
      PROVE  Advanced(thing, seen, new)
  <2> DEFINE last == [writes |-> 1, closes |-> 0, status |-> seen.status, graphs |-> {n}]
  <2>1. /\ new = [current |-> n, version |-> new.version,
                  stored |-> [thing.stored EXCEPT ![n] = content], live |-> new.live]
        /\ new.version = [written.version EXCEPT ![n] = last]
        /\ new.live \subseteq {content}
    BY <1>4, UpdateEntityIs DEF written
  <2>2. last \in VersionType
    BY <1>1, <1>2 DEF VersionType, SeenType
  <2>3. new \in ThingType
    BY <1>1, <1>2, <2>1, <2>2 DEF ThingType
  <2>4. new.version[n] = last /\ new.stored[n] = content
    BY <1>1, <1>2, <2>1
  <2>5. \A k \in Versions \ {n} : new.version[k] = written.version[k]
                                  /\ new.stored[k] = thing.stored[k]
    BY <1>1, <1>2, <2>1
  <2> QED
    BY <1>1, <2>1, <2>3, <2>4, <2>5 DEF Advanced
<1> QED
  BY <1>1, <1>3, <1>4 DEF Writes, written

\* The history of a thing stays sound whatever one commit makes of it.
LEMMA StepsSound ==
  ASSUME NEW thing, NEW room \in Nat, room < MaxVersions, Sound(thing, room),
         NEW new, Steps(thing, new, TRUE)
  PROVE  Sound(new, room + 1)
<1>1. CASE new = thing
  BY <1>1 DEF Sound, Linear, ThingType
<1>2. CASE new = Unknown
  BY <1>2, UnknownSound DEF Sound, Linear, Unknown
<1>3. ASSUME NEW seen, Fits(thing, seen), Writes(thing, seen, new)
      PROVE  Sound(new, room + 1)
  <2> DEFINE n == thing.current + 1
  <2>1. thing.current \in Nat /\ n \in Versions /\ Advanced(thing, seen, new)
    BY <1>3, WritesAdvance
  <2>2. /\ thing \in ThingType /\ new \in ThingType /\ thing.current <= room
        /\ new.current = n
        /\ OneStatus(seen)
    BY <1>3, <2>1 DEF Sound, Linear, Fits, Advanced
  <2>3. ASSUME NEW k \in Versions
        PROVE  /\ IF k <= n
                  THEN /\ new.version[k].writes = 1
                       /\ new.version[k].closes = IF k = n THEN 0 ELSE 1
                       /\ OneStatus(new.version[k])
                  ELSE new.version[k] = Absent /\ new.stored[k] = 0
    <3>1. k \in Nat /\ thing.version[k] \in VersionType
      <4>1. k \in Nat
        BY DEF Versions
      <4>2. thing.version[k] \in VersionType
        BY <2>2 DEF ThingType
      <4> QED
        BY <4>1, <4>2
    <3>2. IF k <= thing.current
          THEN /\ thing.version[k].writes = 1
               /\ thing.version[k].closes = IF k = thing.current THEN 0 ELSE 1
               /\ OneStatus(thing.version[k])
          ELSE thing.version[k] = Absent /\ thing.stored[k] = 0
      BY DEF Sound, Linear, LinearHistory
    <3>3. CASE k = n
      BY <2>1, <2>2, <3>3 DEF Advanced, OneStatus
    <3>4. CASE k = thing.current
      <4>1. new.version[k] = Closed(thing.version[k])
        BY <2>1, <3>4 DEF Advanced
      <4>2. new.version[k].writes = 1 /\ new.version[k].closes = 1
            /\ new.version[k].status = thing.version[k].status
        BY <3>1, <3>2, <3>4, <4>1 DEF Closed, VersionType
      <4> QED
        BY <2>1, <3>2, <3>4, <4>2 DEF OneStatus
    <3>5. CASE k # n /\ k # thing.current
      <4>1. new.version[k] = thing.version[k] /\ new.stored[k] = thing.stored[k]
        BY <2>1, <3>5 DEF Advanced
      <4> QED
        BY <2>1, <3>1, <3>2, <3>5, <4>1
    <3> QED
      BY <3>3, <3>4, <3>5
  <2>4. Exists(new) /\ CurrentVersion(new) = new.version[n]
    BY <2>1, <2>2 DEF Exists, CurrentVersion
  <2>5. Shown(new)
    BY <2>1, <2>4 DEF Advanced, Shown
  <2>6. LinearHistory(new)
    BY <2>2, <2>3 DEF LinearHistory
  <2>7. new.current <= room + 1
    BY <2>1, <2>2
  <2>8. \A k \in Versions : k <= new.current => OneStatus(new.version[k])
    BY <2>2, <2>3
  <2> QED
    BY <2>2, <2>5, <2>6, <2>7, <2>8 DEF Sound, Linear
<1> QED
  BY <1>1, <1>2, <1>3 DEF Steps

\* A commit that keeps a thing leaves its versions as they were, but for the end of the
\* current one.
LEMMA StepsKeep ==
  ASSUME NEW thing, NEW room \in Nat, room < MaxVersions, Sound(thing, room),
         NEW new, Steps(thing, new, TRUE), Exists(new)
  PROVE  /\ new.current >= thing.current
         /\ \A n \in 1..thing.current :
              /\ new.stored[n] = thing.stored[n]
              /\ \/ new.version[n] = thing.version[n]
                 \/ n = thing.current /\ new.version[n] = Closed(thing.version[n])
<1>1. thing.current \in Nat /\ thing.current <= MaxVersions
  BY Bounds DEF Sound, Linear, ThingType
<1>2. CASE new = thing
  BY <1>1, <1>2
<1>3. CASE new = Unknown
  BY <1>3 DEF Exists, Unknown
<1>4. ASSUME NEW seen, Fits(thing, seen), Writes(thing, seen, new)
      PROVE  /\ new.current >= thing.current
             /\ \A n \in 1..thing.current :
                  /\ new.stored[n] = thing.stored[n]
                  /\ \/ new.version[n] = thing.version[n]
                     \/ n = thing.current /\ new.version[n] = Closed(thing.version[n])
  <2>1. \A n \in 1..thing.current : n \in Versions \ {thing.current + 1}
    BY <1>1, Bounds DEF Versions
  <2>2. Advanced(thing, seen, new)
    BY <1>4, WritesAdvance
  <2>3. new.current >= thing.current
    BY <1>1, <2>2 DEF Advanced
  <2> QED
    BY <2>1, <2>2, <2>3 DEF Advanced
<1>5. \/ new = thing
      \/ new = Unknown
      \/ \E seen : Fits(thing, seen) /\ Writes(thing, seen, new)
  BY DEF Steps
<1> QED
  BY <1>2, <1>3, <1>4, <1>5

\* The status of the new current version follows one of the old, if the lifecycle is asked.
LEMMA StepsFollow ==
  ASSUME NEW thing, NEW room \in Nat, room < MaxVersions, Sound(thing, room),
         NEW new, Steps(thing, new, FALSE), Exists(thing), Exists(new)
  PROVE  \A next \in CurrentVersion(new).status :
           \E previous \in CurrentVersion(thing).status : LegalNextState(previous, next)
<1>1. CASE new = thing
  BY <1>1 DEF LegalNextState
<1>2. CASE new = Unknown
  BY <1>2 DEF Exists, Unknown
<1>3. ASSUME NEW seen, Fits(thing, seen), Follows(thing, seen, FALSE), Writes(thing, seen, new)
      PROVE  \A next \in CurrentVersion(new).status :
               \E previous \in CurrentVersion(thing).status : LegalNextState(previous, next)
  <2>1. new.current = thing.current + 1 /\ new.version[thing.current + 1].status = seen.status
    BY <1>3, WritesAdvance DEF Advanced
  <2>2. CurrentVersion(new).status = seen.status
    BY <2>1 DEF CurrentVersion
  <2> QED
    BY <1>3, <2>2 DEF Follows
<1> QED
  BY <1>1, <1>2, <1>3 DEF Steps

------------------------------------------------------------------------------
(* The invariant, and what a command has to do.                             *)

HistoryItems == Items \union {RegItem}

\* There is room for the versions of the commits that are left.
Room == commits + 1

\* What a thread's validation read and found is still so.
Abreast ==
  \A t \in Threads : job[t] # Idle =>
    /\ Valid(job[t].request)
    /\ \A x \in Reads(job[t].request) : job[t].seen[x] = GetCurrentVersion(store[x])

IInv ==
  /\ store = [x \in Things |-> store[x]]
  /\ job = [t \in Threads |-> job[t]]
  /\ \A t \in Threads : job[t].request \in Requests \union {Nothing}
  /\ commits \in 0..MaxCommits
  /\ \A x \in HistoryItems : Sound(store[x], Room)
  /\ Serial => Abreast

LEMMA RoomLeft ==
  ASSUME IInv, commits < MaxCommits
  PROVE  Room \in Nat /\ Room < MaxVersions /\ commits + 1 \in Nat
BY Bounds DEF IInv, Room

\* A request that may force a status, or an edit, does not ask the lifecycle.
Free(r) == r.force \/ r.op = "edit"

\* What a command makes of the store.
StepsAll(written, free) ==
  /\ written = [x \in Things |-> written[x]]
  /\ \A x \in HistoryItems : Steps(store[x], written[x], free)

\* What a step that commits does.
Executed(t) ==
  /\ job[t].request \in Requests \ {Nothing}
  /\ \E written : Commit(t, written) /\ StepsAll(written, Free(job[t].request))

\* An item that is there is given a version with its status or the one asked for.
LEMMA WithStatusFits ==
  ASSUME IInv, commits < MaxCommits, NEW x \in HistoryItems, Exists(store[x]),
         NEW status \in Statuses \union {"keep"}, NEW free \in BOOLEAN,
         free \/ status = "keep" \/ CanBecome(x, status)
  PROVE  LET seen == WithStatus(GetCurrentVersion(store[x]), status)
         IN  Fits(store[x], seen) /\ Follows(store[x], seen, free)
<1> DEFINE read == GetCurrentVersion(store[x])
           seen == WithStatus(read, status)
<1>1. Sound(store[x], Room) /\ Room \in Nat /\ Room <= MaxVersions
  <2>1. Sound(store[x], Room)
    BY DEF IInv
  <2>2. Room \in Nat /\ Room < MaxVersions
    BY RoomLeft
  <2> QED
    BY <2>1, <2>2, Bounds
<1>2. /\ read \in SeenType /\ OneStatus(CurrentVersion(store[x]))
      /\ read = [base   |-> store[x].current,
                 status |-> CurrentVersion(store[x]).status,
                 graphs |-> CurrentVersion(store[x]).graphs]
  BY <1>1, ReadCurrent
<1> SUFFICES Fits(store[x], seen) /\ Follows(store[x], seen, free)
  OBVIOUS
<1> HIDE DEF read
<1>3. CASE status = "keep"
  <2>1. seen = read
    BY <1>3 DEF WithStatus
  <2>2. Fits(store[x], seen)
    BY <1>2, <2>1 DEF Fits, OneStatus
  <2>3. \A next \in seen.status :
          \E previous \in CurrentVersion(store[x]).status : LegalNextState(previous, next)
    BY <1>2, <2>1 DEF LegalNextState
  <2>4. Follows(store[x], seen, free)
    BY <2>3 DEF Follows
  <2> QED
    BY <2>2, <2>4
<1>4. CASE status # "keep"
  <2>1. seen = [base   |-> store[x].current,
                status |-> {status},
                graphs |-> CurrentVersion(store[x]).graphs]
    BY <1>2, <1>4 DEF WithStatus
  <2>2. status \in Statuses
    BY <1>4
  <2> HIDE DEF seen
  <2>3. Fits(store[x], seen)
    BY <1>2, <2>1, <2>2 DEF Fits, OneStatus, SeenType
  <2>4. free \/ \A next \in seen.status :
                  \E previous \in CurrentVersion(store[x]).status : LegalNextState(previous, next)
    BY <1>4, <2>1 DEF CanBecome
  <2>5. Follows(store[x], seen, free)
    BY <2>4 DEF Follows
  <2> QED
    BY <2>3, <2>5
<1> QED
  BY <1>3, <1>4

LEMMA UpdatedSteps ==
  ASSUME IInv, commits < MaxCommits, NEW x \in HistoryItems, Exists(store[x]),
         NEW status \in Statuses \union {"keep"}, NEW free \in BOOLEAN,
         free \/ status = "keep" \/ CanBecome(x, status)
  PROVE  Steps(store[x], Updated(x, status), free)
BY WithStatusFits DEF Updated, Steps, Writes

LEMMA EntityUpdatesSteps ==
  ASSUME IInv, commits < MaxCommits, NEW x \in Items, Exists(store[x]),
         NEW status \in Statuses \union {"keep"}, NEW free \in BOOLEAN,
         free \/ status = "keep", NEW asGraph \in BOOLEAN,
         NEW new \in EntityUpdates(x, status, asGraph)
  PROVE  Steps(store[x], new, free)
<1> DEFINE seen == WithStatus(GetCurrentVersion(store[x]), status)
<1>1. Fits(store[x], seen) /\ Follows(store[x], seen, free)
  BY WithStatusFits DEF HistoryItems
<1>2. new \in UpdateEntity(store[x], seen, commits + 1, asGraph)
  BY DEF EntityUpdates
<1> HIDE DEF seen
<1> QED
  BY <1>1, <1>2, RoomLeft DEF Steps, Writes

\* A new item is given version 1.
LEMMA AdditionsSteps ==
  ASSUME IInv, commits < MaxCommits, NEW x \in Items, ~Exists(store[x]),
         NEW status \in Statuses \union {"keep"}, NEW free \in BOOLEAN,
         NEW asGraph \in BOOLEAN, NEW new \in Additions(x, status, asGraph)
  PROVE  Steps(store[x], new, free)
<1> DEFINE seen == [base   |-> 0,
                    status |-> {IF status = "keep" THEN "submitted" ELSE status},
                    graphs |-> {}]
<1>1. Fits(store[x], seen)
  <2>1. seen \in SeenType
    BY DEF SeenType, Statuses
  <2>2. OneStatus(seen)
    BY DEF OneStatus, Statuses
  <2>3. store[x].current = 0 /\ CurrentVersion(store[x]).graphs = {}
    BY DEF Exists, CurrentVersion, Absent
  <2> QED
    BY <2>1, <2>2, <2>3 DEF Fits
<1>2. Follows(store[x], seen, free)
  BY DEF Follows
<1>3. new \in UpdateEntity(store[x], seen, commits + 1, asGraph)
  BY DEF Additions
<1> HIDE DEF seen
<1> QED
  BY <1>1, <1>2, <1>3, RoomLeft DEF Steps, Writes

\* What the handler of a request finds in it.
RequestFits(r) ==
  /\ r.status \in Statuses \union {"keep"}
  /\ r.successor \in Items \union {Nothing}
  /\ r.force \in BOOLEAN
  /\ r.op \in {"register", "edit"} => r.on \subseteq Items
  /\ r.op \notin {"register", "edit"} => Target(r) \in r.on
  /\ r.op = "graph" => Target(r) \in Items
  /\ r.op \in {"update", "annotate"} => Target(r) \in HistoryItems
  /\ r.op \in {"status", "delete", "realDelete"} => Target(r) \in Things

LEMMA RequestIs ==
  ASSUME NEW r \in Requests
  PROVE  RequestFits(r)
<1>1. /\ r.status \in Statuses \union {"keep"}
      /\ r.successor \in Items \union {Nothing} /\ r.force \in BOOLEAN
      /\ r.op \in {"register", "edit"} => r.on \subseteq Items
      /\ r.op \in Operations
  BY RequestsAssumption DEF RequestsAssumption
<1>2. r.op = "graph" => \E x \in Items : r.on = {x}
  BY RequestsAssumption DEF RequestsAssumption
<1>3. r.op \in {"update", "annotate"} => \E x \in HistoryItems : r.on = {x}
  BY RequestsAssumption DEF RequestsAssumption, HistoryItems
<1>4. r.op \in {"status", "delete", "realDelete"} => \E x \in Things : r.on = {x}
  BY RequestsAssumption DEF RequestsAssumption
<1>5. r.op = "tag" => r.on = {Reg}
  BY RequestsAssumption DEF RequestsAssumption
<1>6. r.op \notin {"register", "edit"} => Target(r) \in r.on
  BY <1>1, <1>2, <1>3, <1>4, <1>5 DEF Target, Operations
<1> QED
  BY <1>1, <1>2, <1>3, <1>4, <1>6 DEF RequestFits

LEMMA ServedRequest ==
  ASSUME IInv, NEW t \in Threads, NEW op, Serves(t, op)
  PROVE  LET r == job[t].request IN
         r \in Requests \ {Nothing} /\ r.op = op /\ RequestFits(r)
BY RequestIs DEF IInv, Serves

LEMMA OverlayFunction ==
  ASSUME NEW changed
  PROVE  Overlay(changed) = [x \in Things |-> Overlay(changed)[x]]
BY DEF Overlay

LEMMA OverlaySteps ==
  ASSUME NEW changed, NEW free,
         \A x \in HistoryItems \intersect DOMAIN changed : Steps(store[x], changed[x], free)
  PROVE  StepsAll(Overlay(changed), free)
<1>1. ASSUME NEW x \in HistoryItems
      PROVE  Steps(store[x], Overlay(changed)[x], free)
  <2>1. Overlay(changed)[x] = IF x \in DOMAIN changed THEN changed[x] ELSE store[x]
    BY DEF Overlay, Things, HistoryItems
  <2> QED
    BY <2>1 DEF Steps
<1> QED
  BY <1>1, OverlayFunction DEF StepsAll

LEMMA WriteOneSteps ==
  ASSUME IInv, NEW x, NEW thing, NEW free,
         x \in HistoryItems => Steps(store[x], thing, free)
  PROVE  StepsAll([store EXCEPT ![x] = thing], free)
<1> DEFINE written == [store EXCEPT ![x] = thing]
<1>1. written = [y \in Things |-> written[y]]
  BY DEF IInv
<1>2. ASSUME NEW y \in HistoryItems
      PROVE  Steps(store[y], written[y], free)
  <2>1. written[y] = IF y = x THEN thing ELSE store[y]
    BY DEF IInv, HistoryItems, Things
  <2> QED
    BY <2>1 DEF Steps
<1> QED
  BY <1>1, <1>2 DEF StepsAll

LEMMA SelectionPicks ==
  ASSUME NEW sets, NEW f \in Selections(sets)
  PROVE  DOMAIN f = DOMAIN sets /\ \A x \in DOMAIN sets : f[x] \in sets[x]
BY DEF Selections

------------------------------------------------------------------------------
(* The commands.                                                            *)

LEMMA RegisterSteps ==
  ASSUME IInv, NEW t \in Threads, Register(t)
  PROVE  Executed(t)
<1> DEFINE r == job[t].request
           sets == [x \in r.on |-> Additions(x, r.status, FALSE)]
<1>1. PICK items \in Selections(sets) :
        \E register : Commit(t, [Overlay(items) EXCEPT ![Reg] = register])
  BY DEF Register
<1>2. /\ commits < MaxCommits /\ r.on \subseteq Items
      /\ r.status \in Statuses \union {"keep"} /\ r \in Requests \ {Nothing}
      /\ r.force \in BOOLEAN
      /\ \A x \in r.on : ~Exists(store[x])
  BY <1>1, ServedRequest DEF Commit, Register, RequestFits
<1>3. DOMAIN items = r.on /\ \A x \in r.on : items[x] \in Additions(x, r.status, FALSE)
  <2>1. DOMAIN sets = r.on /\ \A x \in r.on : sets[x] = Additions(x, r.status, FALSE)
    OBVIOUS
  <2>2. items \in Selections(sets)
    BY <1>1
  <2> HIDE DEF sets
  <2>3. DOMAIN items = DOMAIN sets /\ \A x \in DOMAIN sets : items[x] \in sets[x]
    BY <2>2, SelectionPicks
  <2> QED
    BY <2>1, <2>3
<1>4. PICK register : Commit(t, [Overlay(items) EXCEPT ![Reg] = register])
  BY <1>1
<1> DEFINE free == Free(r)
<1>5. free \in BOOLEAN
  BY <1>2 DEF Free
<1> HIDE DEF r, sets, free
<1>6. \A x \in r.on : Steps(store[x], items[x], free)
  BY <1>2, <1>3, <1>5, AdditionsSteps
<1>7. StepsAll(Overlay(items), free)
  BY <1>3, <1>6, OverlaySteps
<1>8. StepsAll([Overlay(items) EXCEPT ![Reg] = register], free)
  <2> DEFINE written == [Overlay(items) EXCEPT ![Reg] = register]
  <2>1. written = [x \in Things |-> written[x]]
    BY OverlayFunction
  <2>2. \A x \in HistoryItems : written[x] = Overlay(items)[x]
    BY OverlayFunction, Bounds DEF Things, HistoryItems
  <2> QED
    BY <1>7, <2>1, <2>2 DEF StepsAll
<1> QED
  BY <1>2, <1>4, <1>8 DEF Executed, r, free

LEMMA StatusUpdateSteps ==
  ASSUME IInv, Fresh, NEW t \in Threads, StatusUpdate(t)
  PROVE  Executed(t)
<1> DEFINE r == job[t].request
           x == Target(r)
           y == r.successor
           free == Free(r)
<1>1. /\ Serves(t, "status") /\ x \in HistoryItems /\ commits < MaxCommits
      /\ Exists(store[x]) /\ (r.force \/ CanBecome(x, r.status))
  BY DEF StatusUpdate, Commit, HistoryItems
<1>2. /\ r \in Requests \ {Nothing} /\ r.status \in Statuses \union {"keep"}
      /\ y \in Items \union {Nothing} /\ x \in r.on /\ r.force \in BOOLEAN
  BY <1>1, ServedRequest DEF RequestFits
<1>3. y # x /\ free \in BOOLEAN /\ (free \/ CanBecome(x, r.status))
  BY <1>1, <1>2 DEF Fresh, Free
<1>4. Steps(store[x], Updated(x, r.status), free)
  <2> HIDE DEF r, x, free
  <2> QED
    BY <1>1, <1>2, <1>3, UpdatedSteps
<1>5. CASE Commit(t, [store EXCEPT ![x] = Updated(x, r.status)])
  BY <1>2, <1>4, <1>5, WriteOneSteps DEF Executed
<1>6. CASE /\ y \in Members \ {x}
           /\ Commit(t, [store EXCEPT ![x] = Updated(x, r.status), ![y] = Updated(y, "keep")])
  <2> DEFINE written == [store EXCEPT ![x] = Updated(x, r.status), ![y] = Updated(y, "keep")]
  <2>1. written = [z \in Things |-> written[z]]
    BY DEF IInv
  <2>2. \A z \in HistoryItems :
          written[z] = IF z = x THEN Updated(x, r.status)
                       ELSE IF z = y THEN Updated(y, "keep") ELSE store[z]
    BY <1>3 DEF IInv, HistoryItems, Things
  <2>3. Commit(t, written)
    BY <1>6
  <2> HIDE DEF r, x, y, free, written
  <2>4. Steps(store[y], Updated(y, "keep"), free)
    BY <1>1, <1>3, <1>6, UpdatedSteps DEF Members, HistoryItems
  <2>5. \A z \in HistoryItems : Steps(store[z], written[z], free)
    BY <1>4, <2>2, <2>4 DEF Steps
  <2>6. StepsAll(written, free)
    BY <2>1, <2>5 DEF StepsAll
  <2> QED
    BY <1>2, <2>3, <2>6 DEF Executed, r, free
<1> QED
  BY <1>3, <1>5, <1>6 DEF StatusUpdate

LEMMA StatusUpdateAllSteps ==
  ASSUME IInv, NEW t \in Threads, StatusUpdateAll(t)
  PROVE  Executed(t)
<1> DEFINE r == job[t].request
           free == Free(r)
           changed == [x \in Members |-> Updated(x, r.status)]
<1>1. /\ Commit(t, Overlay(changed)) /\ commits < MaxCommits
      /\ \A x \in Members : r.force \/ CanBecome(x, r.status)
  BY DEF StatusUpdateAll, Commit
<1>2. r.status \in Statuses \union {"keep"} /\ r \in Requests \ {Nothing} /\ r.force \in BOOLEAN
  BY ServedRequest DEF StatusUpdateAll, RequestFits
<1>3. free \in BOOLEAN /\ \A x \in Members : free \/ CanBecome(x, r.status)
  BY <1>1, <1>2 DEF Free
<1>4. DOMAIN changed = Members /\ \A x \in Members : changed[x] = Updated(x, r.status)
  OBVIOUS
<1> HIDE DEF r, free, changed
<1>5. \A x \in Members : x \in HistoryItems /\ Exists(store[x])
  BY DEF Members, HistoryItems
<1>6. \A x \in Members : Steps(store[x], Updated(x, r.status), free)
  BY <1>1, <1>2, <1>3, <1>5, UpdatedSteps
<1> QED
  BY <1>1, <1>2, <1>4, <1>6, OverlaySteps DEF Executed, r, free

LEMMA DeleteSteps ==
  ASSUME IInv, NEW t \in Threads, Delete(t)
  PROVE  Executed(t)
<1> DEFINE r == job[t].request
           x == ItemOf(Target(r))
           free == Free(r)
           changed == [y \in WithMembers(x) |-> Deleted(y)]
<1>1. Commit(t, Overlay(changed)) /\ commits < MaxCommits /\ Exists(store[x])
  BY DEF Delete, Commit
<1>2. r \in Requests \ {Nothing} /\ r.force \in BOOLEAN
  BY ServedRequest DEF Delete, RequestFits
<1>3. free \in BOOLEAN
  BY <1>2 DEF Free
<1>4. DOMAIN changed = WithMembers(x) /\ \A y \in WithMembers(x) : changed[y] = Deleted(y)
  OBVIOUS
<1> HIDE DEF r, x, free, changed
<1>5. \A y \in WithMembers(x) : Exists(store[y])
  BY <1>1 DEF WithMembers, Members
<1>6. \A y \in HistoryItems \intersect WithMembers(x) : Steps(store[y], Deleted(y), free)
  <2> SUFFICES ASSUME NEW y \in HistoryItems \intersect WithMembers(x)
               PROVE  Steps(store[y], Deleted(y), free)
    OBVIOUS
  <2>1. CASE CanBecome(y, "invalid")
    BY <1>1, <1>3, <1>5, <2>1, UpdatedSteps DEF Deleted, Statuses
  <2>2. CASE ~CanBecome(y, "invalid")
    BY <1>1, <1>3, <1>5, <2>2, UpdatedSteps DEF Deleted
  <2> QED
    BY <2>1, <2>2
<1> QED
  BY <1>1, <1>2, <1>4, <1>6, OverlaySteps DEF Executed, r, free

LEMMA RealDeleteSteps ==
  ASSUME IInv, NEW t \in Threads, RealDelete(t)
  PROVE  Executed(t)
<1> DEFINE r == job[t].request
           x == ItemOf(Target(r))
           erased == WithMembers(x) \union (IF x = RegItem THEN {Reg} ELSE {})
           changed == [y \in erased |-> Unknown]
<1>1. r \in Requests \ {Nothing}
  BY ServedRequest DEF RealDelete, RequestFits
<1>2. CASE Commit(t, store)
  <2>1. StepsAll(store, Free(r))
    BY DEF StepsAll, Steps, IInv
  <2> QED
    BY <1>1, <1>2, <2>1 DEF Executed
<1>3. CASE Commit(t, Overlay(changed))
  <2>1. \A y \in HistoryItems \intersect DOMAIN changed : Steps(store[y], changed[y], Free(r))
    BY DEF Steps
  <2> HIDE DEF changed
  <2> QED
    BY <1>1, <1>3, <2>1, OverlaySteps DEF Executed
<1> QED
  BY <1>2, <1>3 DEF RealDelete

LEMMA TagSteps ==
  ASSUME IInv, NEW t \in Threads, Tag(t)
  PROVE  Executed(t)
<1>1. job[t].request \in Requests \ {Nothing}
  BY ServedRequest DEF Tag, RequestFits
<1> QED
  BY <1>1, WriteOneSteps, Bounds DEF Tag, HistoryItems, Executed

LEMMA EditSteps ==
  ASSUME IInv, NEW t \in Threads, Edit(t)
  PROVE  Executed(t)
<1> DEFINE r == job[t].request
<1>1. PICK alike \in SUBSET (r.on \intersect Members) :
        \E items \in Selections([x \in r.on \ alike |-> Edits(x, r)]) :
          Commit(t, Overlay(items))
  BY DEF Edit
<1> DEFINE sets == [x \in r.on \ alike |-> Edits(x, r)]
<1>2. PICK items \in Selections(sets) : Commit(t, Overlay(items))
  BY <1>1
<1>3. /\ commits < MaxCommits /\ r.on \subseteq Items
      /\ r.status \in Statuses \union {"keep"} /\ r \in Requests \ {Nothing}
      /\ Free(r) /\ Free(r) \in BOOLEAN
  BY <1>2, ServedRequest DEF Commit, Edit, Free, RequestFits
<1>4. DOMAIN items = r.on \ alike /\ \A x \in r.on \ alike : items[x] \in Edits(x, r)
  <2>1. DOMAIN sets = r.on \ alike /\ \A x \in r.on \ alike : sets[x] = Edits(x, r)
    OBVIOUS
  <2> HIDE DEF sets
  <2> QED
    BY <2>1, SelectionPicks
<1> DEFINE free == Free(r)
<1> HIDE DEF sets, r, free
<1>5. ASSUME NEW x \in r.on \ alike
      PROVE  Steps(store[x], items[x], free)
  <2>1. x \in Items /\ free /\ free \in BOOLEAN
    BY <1>3 DEF free
  <2>2. CASE x \in Members
    <3>1. items[x] \in EntityUpdates(x, r.status, FALSE) /\ Exists(store[x])
      BY <1>4, <2>2 DEF Edits, Members
    <3> QED
      BY <1>3, <2>1, <3>1, EntityUpdatesSteps
  <2>3. CASE x \notin Members
    <3>1. items[x] \in Additions(x, r.status, FALSE) /\ ~Exists(store[x])
      BY <1>4, <2>1, <2>3 DEF Edits, Members
    <3> QED
      BY <1>3, <2>1, <3>1, AdditionsSteps
  <2> QED
    BY <2>2, <2>3
<1> QED
  BY <1>2, <1>3, <1>4, <1>5, OverlaySteps DEF Executed, r, free

LEMMA GraphRegisterSteps ==
  ASSUME IInv, NEW t \in Threads, GraphRegister(t)
  PROVE  Executed(t)
<1> DEFINE r == job[t].request
           x == Target(r)
           free == Free(r)
<1>1. PICK item \in IF Exists(store[x]) THEN EntityUpdates(x, "keep", TRUE)
                                        ELSE Additions(x, "keep", TRUE) :
        Commit(t, [store EXCEPT ![x] = item])
  BY DEF GraphRegister
<1>2. x \in Items /\ commits < MaxCommits /\ r \in Requests \ {Nothing} /\ r.force \in BOOLEAN
  BY <1>1, ServedRequest DEF GraphRegister, Commit, RequestFits
<1>3. free \in BOOLEAN
  BY <1>2 DEF Free
<1> HIDE DEF r, x, free
<1>4. Steps(store[x], item, free)
  BY <1>1, <1>2, <1>3, EntityUpdatesSteps, AdditionsSteps
<1> QED
  BY <1>1, <1>2, <1>4, WriteOneSteps DEF Executed, r, free

LEMMA AnnotateSteps ==
  ASSUME IInv, NEW t \in Threads, Annotate(t)
  PROVE  Executed(t)
<1> DEFINE r == job[t].request
           x == Target(r)
           free == Free(r)
<1>1. /\ Commit(t, [store EXCEPT ![x] = Updated(x, "keep")]) /\ commits < MaxCommits
      /\ Exists(store[x])
  BY DEF Annotate, Commit
<1>2. x \in HistoryItems /\ r \in Requests \ {Nothing} /\ r.force \in BOOLEAN
  BY ServedRequest DEF Annotate, RequestFits
<1>3. free \in BOOLEAN
  BY <1>2 DEF Free
<1> HIDE DEF r, x, free
<1>4. Steps(store[x], Updated(x, "keep"), free)
  BY <1>1, <1>2, <1>3, UpdatedSteps
<1> QED
  BY <1>1, <1>2, <1>4, WriteOneSteps DEF Executed, r, free

\* There is one client, so what it read is what there is.
LEMMA UpdateSteps ==
  ASSUME IInv, Fresh, NEW t \in Threads, Update(t)
  PROVE  Executed(t)
<1> DEFINE r == job[t].request
           x == Target(r)
           free == Free(r)
           seen == WithStatus(GetCurrentVersion(store[x]), r.status)
<1>1. Serves(t, "update") /\ commits < MaxCommits
  BY DEF Update, Commit
<1>2. /\ r \in Requests \ {Nothing} /\ r.op = "update" /\ x \in HistoryItems /\ x \in r.on
      /\ r.status \in Statuses \union {"keep"} /\ r.force \in BOOLEAN
  BY <1>1, ServedRequest DEF RequestFits
<1>3. /\ Exists(store[x]) /\ (r.status = "keep" \/ r.force \/ CanBecome(x, r.status))
      /\ job[t].seen[x] = GetCurrentVersion(store[x])
  <2>1. Serial
    BY <1>2 DEF Fresh
  <2>2. job[t] # Idle
    BY <1>2 DEF Idle
  <2>3. Valid(r) /\ \A y \in Reads(r) : job[t].seen[y] = GetCurrentVersion(store[y])
    BY <2>1, <2>2 DEF IInv, Abreast
  <2>4. x \in Reads(r)
    BY <1>2 DEF Reads
  <2> QED
    BY <1>2, <2>3, <2>4 DEF Valid
<1>4. free \in BOOLEAN /\ (free \/ r.status = "keep" \/ CanBecome(x, r.status))
  BY <1>2, <1>3 DEF Free
<1>5. \/ Commit(t, [store EXCEPT ![x] = NextVersion(@, seen)])
      \/ /\ x \in Items
         /\ \E item \in UpdateEntity(store[x], seen, commits + 1, FALSE) :
              Commit(t, [store EXCEPT ![x] = item])
      \/ /\ x = RegItem
         /\ \E register : Commit(t, [store EXCEPT ![x] = NextVersion(@, seen),
                                                 ![Reg] = register])
  BY <1>3 DEF Update
<1> HIDE DEF r, x, free
<1>6. Fits(store[x], seen) /\ Follows(store[x], seen, free)
  BY <1>1, <1>2, <1>3, <1>4, WithStatusFits
<1> HIDE DEF seen
<1>7. Steps(store[x], NextVersion(store[x], seen), free)
  BY <1>6 DEF Steps, Writes
<1>8. CASE Commit(t, [store EXCEPT ![x] = NextVersion(@, seen)])
  <2>1. Commit(t, [store EXCEPT ![x] = NextVersion(store[x], seen)])
    BY <1>8
  <2> QED
    BY <1>2, <1>7, <2>1, WriteOneSteps DEF Executed, r, free
<1>9. ASSUME NEW item \in UpdateEntity(store[x], seen, commits + 1, FALSE),
             Commit(t, [store EXCEPT ![x] = item])
      PROVE  Executed(t)
  <2>1. Steps(store[x], item, free)
    BY <1>1, <1>6, <1>9, RoomLeft DEF Steps, Writes
  <2> QED
    BY <1>2, <1>9, <2>1, WriteOneSteps DEF Executed, r, free
<1>10. ASSUME NEW register, x = RegItem,
              Commit(t, [store EXCEPT ![x] = NextVersion(@, seen), ![Reg] = register])
       PROVE  Executed(t)
  <2> DEFINE written == [store EXCEPT ![x] = NextVersion(@, seen), ![Reg] = register]
  <2>1. written = [z \in Things |-> written[z]]
    BY DEF IInv
  <2>2. \A z \in HistoryItems :
          written[z] = IF z = x THEN NextVersion(store[x], seen) ELSE store[z]
    BY <1>10, Bounds DEF IInv, HistoryItems, Things
  <2>3. Commit(t, written)
    BY <1>10
  <2> HIDE DEF written
  <2>4. \A z \in HistoryItems : Steps(store[z], written[z], free)
    BY <1>7, <2>2 DEF Steps
  <2> QED
    BY <1>2, <2>1, <2>3, <2>4 DEF Executed, StepsAll, r, free
<1> QED
  BY <1>5, <1>8, <1>9, <1>10

LEMMA ExecuteSteps ==
  ASSUME IInv, Fresh, NEW t \in Threads, Execute(t)
  PROVE  Executed(t)
<1>1. CASE Register(t)
  BY <1>1, RegisterSteps
<1>2. CASE Update(t)
  BY <1>2, UpdateSteps
<1>3. CASE StatusUpdate(t)
  BY <1>3, StatusUpdateSteps
<1>4. CASE StatusUpdateAll(t)
  BY <1>4, StatusUpdateAllSteps
<1>5. CASE Delete(t)
  BY <1>5, DeleteSteps
<1>6. CASE RealDelete(t)
  BY <1>6, RealDeleteSteps
<1>7. CASE Tag(t)
  BY <1>7, TagSteps
<1>8. CASE Edit(t)
  BY <1>8, EditSteps
<1>9. CASE GraphRegister(t)
  BY <1>9, GraphRegisterSteps
<1>10. CASE Annotate(t)
  BY <1>10, AnnotateSteps
<1> QED
  BY <1>1, <1>2, <1>3, <1>4, <1>5, <1>6, <1>7, <1>8, <1>9, <1>10 DEF Execute

------------------------------------------------------------------------------
(* The invariant is one.                                                    *)

\* Nothing comes between the validation of one client's request and its execution.
LEMMA FreedAbreast ==
  ASSUME Serial, job = [u \in Threads |-> job[u]], NEW t \in Threads,
         job' = [job EXCEPT ![t] = Idle]
  PROVE  Abreast'
<1>1. \A u \in Threads : job'[u] = Idle
  BY DEF Serial
<1> QED
  BY <1>1 DEF Abreast, Idle

LEMMA ValidatedAbreast ==
  ASSUME Serial, job = [u \in Threads |-> job[u]], NEW t \in Threads, Validate(t)
  PROVE  Abreast'
<1>1. PICK r \in Requests :
        /\ Valid(r)
        /\ job' = [job EXCEPT ![t] =
                     [request |-> r,
                      seen    |-> [x \in Reads(r) |-> GetCurrentVersion(store[x])]]]
  BY DEF Validate
<1>2. store' = store
  BY DEF Validate
<1>3. \A u \in Threads : /\ job'[u].request = r
                         /\ job'[u].seen = [x \in Reads(r) |-> GetCurrentVersion(store[x])]
  BY <1>1 DEF Serial
<1>4. Valid(r)'
  BY <1>1, <1>2 DEF Valid, CanBecome
<1> QED
  BY <1>2, <1>3, <1>4 DEF Abreast

\* A commit that takes its steps keeps the invariant.
LEMMA ExecutedSound ==
  ASSUME IInv, NEW t \in Threads, Executed(t)
  PROVE  IInv'
<1> DEFINE free == Free(job[t].request)
<1>1. PICK written : Commit(t, written) /\ StepsAll(written, free)
  BY DEF Executed
<1>2. store' = written /\ commits' = commits + 1 /\ commits < MaxCommits
      /\ job' = [job EXCEPT ![t] = Idle]
  BY <1>1 DEF Commit
<1>3. commits' \in 0..MaxCommits /\ Room' = Room + 1
  BY <1>2, Bounds DEF IInv, Room
<1>4. job' = [u \in Threads |-> job'[u]]
      /\ \A u \in Threads : job'[u].request \in Requests \union {Nothing}
  BY <1>2 DEF IInv, Idle
<1>5. store' = [x \in Things |-> store'[x]]
  BY <1>1, <1>2 DEF StepsAll
<1>6. ASSUME NEW x \in HistoryItems
      PROVE  Sound(store'[x], Room + 1)
  <2>1. Sound(store[x], Room) /\ Steps(store[x], store'[x], free)
    BY <1>1, <1>2 DEF IInv, StepsAll
  <2>2. Room \in Nat /\ Room < MaxVersions
    BY <1>2, RoomLeft
  <2>3. Steps(store[x], store'[x], TRUE)
    BY <2>1 DEF Steps, Follows
  <2> HIDE DEF free
  <2> QED
    BY <2>1, <2>2, <2>3, StepsSound
<1>7. Serial => Abreast'
  BY <1>2, FreedAbreast DEF IInv
<1> QED
  BY <1>3, <1>4, <1>5, <1>6, <1>7 DEF IInv, HistoryItems

\* Threads take requests up and drop them without touching the store.
LEMMA JobSound ==
  ASSUME IInv, NEW t \in Threads, Validate(t) \/ Abort(t)
  PROVE  IInv' /\ store' = store
<1>1. store' = store /\ commits' = commits
  BY DEF Validate, Abort
<1>2. PICK new : job' = [job EXCEPT ![t] = new] /\ new.request \in Requests \union {Nothing}
  BY DEF Validate, Abort, Idle
<1>3. /\ job' = [u \in Threads |-> job'[u]]
      /\ \A u \in Threads : job'[u].request \in Requests \union {Nothing}
  BY <1>2 DEF IInv
<1>4. Serial => Abreast'
  BY FreedAbreast, ValidatedAbreast DEF IInv, Abort
<1> QED
  BY <1>1, <1>3, <1>4 DEF IInv, Room

\* The registry starts with the register and its item, each at version 1.
LEMMA InitSound == Init => IInv
<1> SUFFICES ASSUME Init PROVE IInv
  OBVIOUS
<1>1. /\ store = [x \in Things |-> store[x]]
      /\ job = [t \in Threads |-> job[t]]
      /\ \A t \in Threads : job[t].request \in Requests \union {Nothing}
      /\ commits \in 0..MaxCommits
  BY Bounds DEF Init, Idle
<1>2. Sound(Unknown, 1)
  BY UnknownSound DEF Sound, Linear, Unknown
<1>3. \A x \in Items : Sound(store[x], Room)
  BY <1>2, Bounds DEF Init, Things, Room
<1>4. Sound(store[RegItem], Room)
  <2> DEFINE seen == [GetCurrentVersion(Unknown) EXCEPT !.status = {"stable"}]
  <2>1. Fits(Unknown, seen)
    BY DEF Fits, SeenType, OneStatus, GetCurrentVersion, CurrentVersion, Unknown, Exists,
           Absent, Statuses
  <2>2. store[RegItem] = NextVersion(Unknown, seen)
    BY Bounds DEF Init, Things
  <2> HIDE DEF seen
  <2>3. 0 < MaxVersions
    BY Bounds
  <2>4. Steps(Unknown, store[RegItem], TRUE)
    BY <2>1, <2>2 DEF Steps, Follows, Writes
  <2>5. Sound(store[RegItem], 0 + 1)
    BY <2>3, <2>4, UnknownSound, StepsSound
  <2> QED
    BY <2>5 DEF Init, Room
<1>5. Abreast
  BY DEF Init, Abreast, Idle
<1> QED
  BY <1>1, <1>3, <1>4, <1>5 DEF IInv, HistoryItems

\* A step leaves the store alone or is a commit.
LEMMA NextSteps ==
  ASSUME IInv, Fresh, [Next]_vars
  PROVE  /\ IInv'
         /\ store' = store \/ \E t \in Threads : Executed(t)
<1>1. CASE UNCHANGED vars
  <2>1. Serial => Abreast'
    BY <1>1 DEF IInv, Abreast, Valid, CanBecome, vars
  <2> QED
    BY <1>1, <2>1 DEF IInv, Room, vars
<1>2. ASSUME NEW t \in Threads, Validate(t) \/ Abort(t)
      PROVE  IInv' /\ store' = store
  BY <1>2, JobSound
<1>3. ASSUME NEW t \in Threads, Execute(t)
      PROVE  IInv' /\ Executed(t)
  BY <1>3, ExecuteSteps, ExecutedSound
<1> QED
  BY <1>1, <1>2, <1>3 DEF Next

\* What a commit makes of one thing.
LEMMA ItemSteps ==
  ASSUME IInv, NEW t \in Threads, Executed(t), NEW x \in HistoryItems
  PROVE  /\ Room \in Nat /\ Room < MaxVersions
         /\ Sound(store[x], Room)
         /\ Steps(store[x], store'[x], Free(job[t].request))
         /\ job[t] # Idle /\ job'[t] = Idle
<1>1. PICK written : Commit(t, written) /\ StepsAll(written, Free(job[t].request))
  BY DEF Executed
<1>2. store' = written /\ job' = [job EXCEPT ![t] = Idle] /\ commits < MaxCommits
  BY <1>1 DEF Commit
<1>3. job[t] # Idle /\ job'[t] = Idle
  BY <1>2 DEF Executed, Idle, IInv
<1>4. Sound(store[x], Room) /\ Steps(store[x], store'[x], Free(job[t].request))
  BY <1>1, <1>2 DEF IInv, StepsAll
<1> QED
  BY <1>2, <1>3, <1>4, RoomLeft

------------------------------------------------------------------------------
(* The theorems.                                                            *)

\* The history of every item is linear, however many threads serve requests that read the
\* items in the transaction that writes them, and with one client whatever the requests
\* (VersionUtil.nextVersion, doUpdateItem).
THEOREM FreshHistoriesLinear == Fresh /\ Spec => []ItemHistoriesLinear
<1> SUFFICES ASSUME Fresh PROVE Spec => []ItemHistoriesLinear
  OBVIOUS
<1>1. IInv => ItemHistoriesLinear
  BY DEF IInv, ItemHistoriesLinear, HistoryItems, Sound, Linear
<1>2. IInv /\ [Next]_vars => IInv'
  BY NextSteps
<1> QED
  BY <1>1, <1>2, InitSound, PTL DEF Spec

\* Under the same conditions the default graph holds of an item the entity of its current
\* version and no other, and nothing of an item that was erased (doUpdateItem, delete).
THEOREM FreshEntitiesShown == Fresh /\ Spec => []NoStaleEntity
<1> SUFFICES ASSUME Fresh PROVE Spec => []NoStaleEntity
  OBVIOUS
<1>1. IInv => NoStaleEntity
  BY DEF IInv, NoStaleEntity, HistoryItems, Sound, Shown
<1>2. IInv /\ [Next]_vars => IInv'
  BY NextSteps
<1> QED
  BY <1>1, <1>2, InitSound, PTL DEF Spec

\* Under the same conditions a version once written stays as it is, but for its end.
THEOREM FreshVersionsKept == Fresh /\ Spec => VersionsKept
<1> SUFFICES ASSUME Fresh PROVE Spec => VersionsKept
  OBVIOUS
<1> DEFINE Kept(x) ==
      LET old == store[x]
          new == store'[x]
      IN Exists(old) /\ Exists(new) =>
           /\ new.current >= old.current
           /\ \A n \in 1..old.current :
                /\ new.stored[n] = old.stored[n]
                /\ \/ new.version[n] = old.version[n]
                   \/ /\ n = old.current
                      /\ new.version[n] = [old.version[n] EXCEPT !.closes = @ + 1]
<1>1. IInv /\ [Next]_vars => IInv'
  BY NextSteps
<1>2. IInv /\ [Next]_vars => [\A x \in Items \union {RegItem} : Kept(x)]_vars
  <2> SUFFICES ASSUME IInv, [Next]_vars, NEW x \in HistoryItems
               PROVE  Kept(x)
    BY DEF HistoryItems
  <2>1. CASE store' = store
    <3>1. store[x].current \in Nat
      BY DEF IInv, Sound, Linear, ThingType
    <3> QED
      BY <2>1, <3>1
  <2>2. ASSUME NEW t \in Threads, Executed(t)
        PROVE  Kept(x)
    <3>1. /\ Room \in Nat /\ Room < MaxVersions
          /\ Sound(store[x], Room)
          /\ Steps(store[x], store'[x], TRUE)
      BY <2>2, ItemSteps DEF Steps, Follows
    <3> DEFINE old == store[x]
               new == store'[x]
    <3>2. Sound(old, Room) /\ Steps(old, new, TRUE)
      BY <3>1
    <3> HIDE DEF old, new
    <3>3. Exists(new) =>
            /\ new.current >= old.current
            /\ \A n \in 1..old.current :
                 /\ new.stored[n] = old.stored[n]
                 /\ \/ new.version[n] = old.version[n]
                    \/ n = old.current /\ new.version[n] = Closed(old.version[n])
      BY <3>1, <3>2, StepsKeep
    <3> QED
      BY <3>3 DEF Closed, old, new
  <2> QED
    BY <2>1, <2>2, NextSteps
<1> QED
  BY <1>1, <1>2, InitSound, PTL DEF Spec, VersionsKept

\* Under the same conditions the lifecycle is kept to (setStatus, Status.legalNextState).
THEOREM FreshLegalLifecycle == Fresh /\ Spec => LegalLifecycle
<1> SUFFICES ASSUME Fresh PROVE Spec => LegalLifecycle
  OBVIOUS
<1> DEFINE Legal(x) ==
      Exists(store[x]) /\ Exists(store'[x]) =>
        \A next \in CurrentVersion(store'[x]).status :
          \/ \E previous \in CurrentVersion(store[x]).status :
               next = previous \/ next \in Successors[previous]
          \/ \E t \in Threads :
               /\ job[t] # Idle /\ job'[t] = Idle
               /\ job[t].request.force \/ job[t].request.op = "edit"
<1>1. IInv /\ [Next]_vars => IInv'
  BY NextSteps
<1>2. IInv /\ [Next]_vars => [\A x \in Items : Legal(x)]_vars
  <2> SUFFICES ASSUME IInv, [Next]_vars, NEW x \in Items
               PROVE  Legal(x)
    OBVIOUS
  <2>1. CASE store' = store
    BY <2>1
  <2>2. ASSUME NEW t \in Threads, Executed(t)
        PROVE  Legal(x)
    <3>1. /\ Room \in Nat /\ Room < MaxVersions
          /\ Sound(store[x], Room)
          /\ Steps(store[x], store'[x], Free(job[t].request))
          /\ job[t] # Idle /\ job'[t] = Idle
      BY <2>2, ItemSteps DEF HistoryItems
    <3>2. CASE Free(job[t].request)
      BY <3>1, <3>2 DEF Free
    <3>3. CASE ~Free(job[t].request)
      <4>1. Steps(store[x], store'[x], FALSE)
        BY <3>1, <3>3 DEF Steps, Follows
      <4> QED
        BY <3>1, <4>1, StepsFollow DEF LegalNextState
    <3> QED
      BY <3>2, <3>3
  <2> QED
    BY <2>1, <2>2, NextSteps
<1> QED
  BY <1>1, <1>2, InitSound, PTL DEF Spec, LegalLifecycle

------------------------------------------------------------------------------
(* The refinement.                                                          *)

Log(thing) == [n \in 1..thing.current |-> thing.version[n].status]

LEMMA LogLength ==
  ASSUME NEW thing, thing.current \in Nat
  PROVE  /\ Len(Log(thing)) = thing.current
         /\ \A n \in 1..thing.current : Log(thing)[n] = thing.version[n].status
         /\ thing.current = 0 => Log(thing) = << >>
<1>1. Log(thing) \in [1..thing.current -> {thing.version[n].status : n \in 1..thing.current}]
  BY DEF Log
<1>2. Log(thing) \in Seq({thing.version[n].status : n \in 1..thing.current})
  BY <1>1
<1> QED
  BY <1>1, <1>2 DEF Log

\* A commit adds to the log of a thing, or empties it.
LEMMA StepsLog ==
  ASSUME NEW thing, NEW room \in Nat, room < MaxVersions, Sound(thing, room),
         NEW new, Steps(thing, new, TRUE)
  PROVE  /\ Log(new) = << >> \/ History!Extended(Log(thing), Log(new))
         /\ \A n \in 1..Len(Log(new)) : Log(new)[n] \in History!Entry
<1>1. /\ thing.current \in Nat /\ thing.current <= room
      /\ thing.version \in [Versions -> VersionType]
  BY DEF Sound, Linear, ThingType
<1>2. Sound(new, room + 1)
  BY StepsSound
<1>3. new.current \in Nat /\ new.current <= room + 1
  BY <1>2 DEF Sound, Linear, ThingType
<1>4. ASSUME NEW n \in 1..Len(Log(new))
      PROVE  Log(new)[n] \in History!Entry
  <2>1. n \in 1..new.current
    BY <1>3, LogLength
  <2>2. n \in Versions /\ n <= new.current
    BY <1>3, <2>1, Bounds DEF Versions
  <2>3. OneStatus(new.version[n])
    BY <1>2, <2>2 DEF Sound
  <2>4. Log(new)[n] = new.version[n].status
    BY <1>3, <2>1, LogLength
  <2> QED
    BY <2>3, <2>4 DEF OneStatus, History!Entry, Statuses, History!Statuses
<1>5. CASE ~Exists(new)
  BY <1>3, <1>4, <1>5, LogLength DEF Exists
<1>6. CASE Exists(new)
  <2>1. /\ new.current >= thing.current
        /\ \A n \in 1..thing.current :
             \/ new.version[n] = thing.version[n]
             \/ n = thing.current /\ new.version[n] = Closed(thing.version[n])
    BY <1>6, StepsKeep
  <2>2. ASSUME NEW n \in 1..thing.current
        PROVE  Log(new)[n] = Log(thing)[n]
    <3>1. n \in Versions
      BY <1>1, Bounds DEF Versions
    <3>2. thing.version[n] \in VersionType
      BY <1>1, <3>1
    <3>3. new.version[n].status = thing.version[n].status
      BY <2>1, <3>2 DEF Closed, VersionType
    <3>4. n \in 1..new.current
      BY <1>1, <1>3, <2>1
    <3> QED
      BY <1>1, <1>3, <3>3, <3>4, LogLength
  <2>3. Len(Log(thing)) = thing.current /\ Len(Log(new)) = new.current
    BY <1>1, <1>3, LogLength
  <2> QED
    BY <1>1, <1>3, <1>4, <2>1, <2>2, <2>3 DEF History!Extended
<1> QED
  BY <1>5, <1>6

\* Under the same conditions the registry keeps of each item a log of statuses, one for a
\* version, to which versions are only added and that is erased as a whole.
THEOREM FreshLogsGrow == Fresh /\ Spec => AppendOnly
<1> SUFFICES ASSUME Fresh PROVE Spec => AppendOnly
  OBVIOUS
<1> DEFINE log == [x \in Items |-> [n \in 1..store[x].current |-> store[x].version[n].status]]
<1>1. IInv /\ [Next]_vars => IInv'
  BY NextSteps
<1>2. Init => log = [x \in Items |-> << >>]
  <2> SUFFICES ASSUME Init PROVE log = [x \in Items |-> << >>]
    OBVIOUS
  <2>1. \A x \in Items : store[x].current = 0
    BY Bounds DEF Init, Things, Unknown
  <2>2. \A x \in Items : [n \in 1..store[x].current |-> store[x].version[n].status] = << >>
    BY <2>1, LogLength DEF Log
  <2> QED
    BY <2>2
<1>3. IInv /\ [Next]_vars => [History!Next]_log
  <2> SUFFICES ASSUME IInv, [Next]_vars PROVE [History!Next]_log
    OBVIOUS
  <2>1. CASE store' = store
    BY <2>1
  <2>2. ASSUME NEW t \in Threads, Executed(t)
        PROVE  History!Next
    <3>1. ASSUME NEW x \in Items
          PROVE  /\ log[x] = Log(store[x]) /\ log'[x] = Log(store'[x])
                 /\ Log(store'[x]) = << >> \/ History!Extended(Log(store[x]), Log(store'[x]))
                 /\ \A n \in 1..Len(Log(store'[x])) : Log(store'[x])[n] \in History!Entry
      <4>1. /\ Room \in Nat /\ Room < MaxVersions
            /\ Sound(store[x], Room) /\ Steps(store[x], store'[x], TRUE)
        BY <2>2, ItemSteps DEF Steps, Follows, HistoryItems
      <4>2. log[x] = Log(store[x]) /\ log'[x] = Log(store'[x])
        BY DEF Log
      <4> HIDE DEF log
      <4> QED
        BY <4>1, <4>2, StepsLog
    <3>2. DOMAIN log' = Items
      OBVIOUS
    <3> HIDE DEF log
    <3> QED
      BY <3>1, <3>2 DEF History!Next, log
  <2> QED
    BY <2>1, <2>2, NextSteps
<1>4. Init => History!Init
  BY <1>2 DEF History!Init
<1> HIDE DEF log
<1> QED
  BY <1>1, <1>3, <1>4, InitSound, PTL DEF Spec, AppendOnly, History!Spec, log
==============================================================================
