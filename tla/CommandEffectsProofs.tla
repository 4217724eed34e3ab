-------------------------- MODULE CommandEffectsProofs -------------------------
(***************************************************************************)
(* What the monitor hears, for any number of requests and threads.         *)
(*                                                                         *)
(* The messages given to the monitor and those that wait for the worker    *)
(* form one line.  The invariant says that the line has no repetitions,    *)
(* that a request was not over when one before it in the line began, and   *)
(* that, for an item of which subscribers have not heard the latest, there *)
(* is a message on the way.  That one is left on the way when another is   *)
(* handled follows from what the invariant says of the author of what is   *)
(* in the store: any other request that was announced was over before the  *)
(* author's began, unless both messages name an entity.                    *)
(***************************************************************************)
EXTENDS CommandEffects, TLAPS

Requests ==
  [op : Operations, item : Items, pc : {"execute", "notify", "log", "done"},
   outcome : {"open", "committed", "refused", "failed", "lost"}, announced : BOOLEAN,
   stamp : Nat, whole : BOOLEAN, after : SUBSET Ids]

FileNames == {"graph", "realDelete", "register", "statusUpdate", "update"}

Typed ==
  /\ store \in [Items -> 0..MaxRequests] /\ told \in [Items -> 0..MaxRequests]
  /\ request \in Seq(Requests) /\ Len(request) <= MaxRequests
  /\ queue \in Seq(Made) /\ handled \in Seq(Made)
  /\ instant \in Nat /\ DOMAIN log \subseteq Nat \X FileNames
  /\ \A f \in DOMAIN log : f[1] <= instant /\ log[f] \in Made

Outcomes == \A n \in Made : request[n].outcome = "open" <=> request[n].pc = "execute"

\* What was over when a request began still is.
Past == \A n \in Made : \A m \in request[n].after : m \in Made /\ request[m].pc = "done"

\* m may come before n in the line.
Before(m, n) == m # n /\ n \notin request[m].after

Lined ==
  /\ \A i \in DOMAIN queue : /\ request[queue[i]].outcome = "committed"
                             /\ request[queue[i]].pc \in {"log", "done"}
  /\ \A i \in DOMAIN handled : /\ request[handled[i]].outcome \in {"committed", "lost"}
                               /\ request[handled[i]].pc \in {"log", "done"}
  /\ \A i, j \in DOMAIN queue : i < j => Before(queue[i], queue[j])
  /\ \A i, j \in DOMAIN handled : i < j => Before(handled[i], handled[j])
  /\ \A i \in DOMAIN handled, j \in DOMAIN queue : Before(handled[i], queue[j])

\* What is announced waits to be, or is in the line.
Sent ==
  \A n \in Made :
    /\ request[n].announced => \/ request[n].pc = "notify" \/ request[n].outcome = "lost"
                               \/ n \in Range(queue) \/ n \in Range(handled)
    /\ request[n].pc = "notify" \/ n \in Range(queue) => request[n].announced
    /\ request[n].pc = "execute" => ~request[n].announced

\* The items that SubscribersCatchUp is about.
Plain(x) ==
  \A n \in On(x) : /\ request[n].op # "graph" /\ request[n].outcome # "lost"
                   /\ WithEntity(request[n].op) \/ \A m \in On(x) : ~Overlap(m, n)

OnTheWay(x) == \E n \in On(x) : request[n].pc = "notify" \/ n \in Range(queue)

AnnouncedOn(x) == {n \in On(x) : request[n].announced}

\* The request that wrote what is in the store of an item.
Author(x) ==
  \/ store[x] = Absent /\ AnnouncedOn(x) = {}
  \/ \E w \in AnnouncedOn(x) :
       /\ store[x] = Outcome(request[w].op, w)
       /\ \A n \in AnnouncedOn(x) \ {w} :
            \/ n \in request[w].after
            \/ WithEntity(request[n].op) /\ WithEntity(request[w].op)

CatchingUp ==
  \A x \in Items : Plain(x) => Author(x) /\ (told[x] = store[x] \/ OnTheWay(x))

Committed == \A n \in Made : request[n].pc = "notify" => request[n].outcome = "committed"

IInv == Typed /\ Outcomes /\ Committed /\ Past /\ Lined /\ Sent /\ CatchingUp

------------------------------------------------------------------------------
(* Sequences.                                                               *)

LEMMA Elements ==
  ASSUME NEW S, NEW s \in Seq(S)
  PROVE  Len(s) \in Nat /\ DOMAIN s = 1..Len(s) /\ \A i \in DOMAIN s : s[i] \in S
  OBVIOUS

LEMMA Appended ==
  ASSUME NEW S, NEW s \in Seq(S), NEW x \in S
  PROVE  /\ Append(s, x) \in Seq(S) /\ Len(Append(s, x)) = Len(s) + 1
         /\ DOMAIN Append(s, x) = 1..(Len(s) + 1) /\ Append(s, x)[Len(s) + 1] = x
         /\ \A i \in DOMAIN s : Append(s, x)[i] = s[i]
<1>1. DOMAIN s = 1..Len(s) /\ Len(s) \in Nat
  OBVIOUS
<1> QED
  BY <1>1

\* What is left when the first is taken off.
Rest(s) == SubSeq(s, 1, 0) \o SubSeq(s, 2, Len(s))

LEMMA Taken ==
  ASSUME NEW S, NEW s \in Seq(S), s # <<>>
  PROVE  /\ Rest(s) \in Seq(S) /\ 1 \in DOMAIN s /\ DOMAIN Rest(s) = 1..(Len(s) - 1)
         /\ \A i \in DOMAIN Rest(s) : Rest(s)[i] = s[i + 1] /\ i + 1 \in DOMAIN s
<1>1. DOMAIN s = 1..Len(s) /\ Len(s) \in Nat \ {0}
  OBVIOUS
<1>2. SubSeq(s, 1, 0) = <<>>
  BY <1>1
<1>3. /\ SubSeq(s, 2, Len(s)) \in Seq(S) /\ Len(SubSeq(s, 2, Len(s))) = Len(s) - 1
      /\ \A i \in 1..(Len(s) - 1) : SubSeq(s, 2, Len(s))[i] = s[i + 1]
  BY <1>1
<1>4. Rest(s) = SubSeq(s, 2, Len(s))
  BY <1>2, <1>3 DEF Rest
<1> QED
  BY <1>1, <1>3, <1>4

LEMMA SeqWider ==
  ASSUME NEW S, NEW T, S \subseteq T, NEW s \in Seq(S)
  PROVE  s \in Seq(T)
  OBVIOUS

------------------------------------------------------------------------------
(* The invariant.                                                           *)

LEMMA Bounds == MaxRequests \in Nat /\ Ids = 1..MaxRequests
  BY EffectsAssumption DEF Ids

LEMMA MadeIs == ASSUME Typed PROVE Made = 1..Len(request) /\ Len(request) \in Nat /\ Made \subseteq Ids
  BY Bounds, Elements DEF Typed, Made

LEMMA RequestType ==
  ASSUME Typed, NEW n \in Made
  PROVE  /\ request[n] \in Requests /\ request[n].item \in Items /\ n \in 1..MaxRequests
<1>1. n \in DOMAIN request /\ request \in Seq(Requests)
  BY DEF Typed, Made
<1>2. request[n] \in Requests
  BY <1>1, Elements
<1> QED
  BY <1>2, MadeIs, Bounds DEF Requests

LEMMA PastKept ==
  ASSUME Past, Made' = Made,
         \A n \in Made : request'[n].after = request[n].after,
         \A n \in Made : request[n].pc = "done" => request'[n].pc = "done"
  PROVE  Past'
<1> SUFFICES ASSUME NEW n \in Made, NEW m \in request'[n].after
             PROVE  m \in Made /\ request'[m].pc = "done"
  BY DEF Past
<1> QED
  BY DEF Past

\* The line stays as it is when the requests in it do.
LEMMA LinedKept ==
  ASSUME Typed, Lined, Made' = Made, UNCHANGED <<queue, handled>>,
         \A n \in Made : request'[n].after = request[n].after,
         \A n \in Made : request[n].pc \in {"log", "done"} =>
           request'[n].pc \in {"log", "done"} /\ request'[n].outcome = request[n].outcome
  PROVE  Lined'
<1>1. \A i \in DOMAIN queue : queue[i] \in Made
  BY Elements DEF Typed
<1>2. \A i \in DOMAIN handled : handled[i] \in Made
  BY Elements DEF Typed
<1>3. \A i \in DOMAIN queue : /\ request'[queue[i]].outcome = "committed"
                              /\ request'[queue[i]].pc \in {"log", "done"}
  BY <1>1 DEF Lined
<1>4. \A i \in DOMAIN handled : /\ request'[handled[i]].outcome \in {"committed", "lost"}
                                /\ request'[handled[i]].pc \in {"log", "done"}
  BY <1>2 DEF Lined
<1>5. /\ \A i, j \in DOMAIN queue : i < j => Before(queue[i], queue[j])'
      /\ \A i, j \in DOMAIN handled : i < j => Before(handled[i], handled[j])'
      /\ \A i \in DOMAIN handled, j \in DOMAIN queue : Before(handled[i], queue[j])'
  BY <1>1, <1>2 DEF Lined, Before
<1> QED
  BY <1>3, <1>4, <1>5 DEF Lined, Before

LEMMA NameType == ASSUME NEW op \in Operations PROVE Name(op) \in FileNames
BY DEF Operations, Name, FileNames

\* Requests that go on as they were.
GoOn ==
  /\ Made' = Made
  /\ \A n \in Made : /\ request'[n].op = request[n].op /\ request'[n].item = request[n].item
                     /\ request'[n].after = request[n].after

LEMMA OnKept ==
  ASSUME GoOn, NEW x
  PROVE  /\ On(x)' = On(x) /\ On(x) \subseteq Made
         /\ \A m, n \in On(x) : Overlap(m, n)' <=> Overlap(m, n)
BY DEF GoOn, On, Overlap

\* Nothing is announced or written, and what is on the way stays there.
LEMMA CatchingKept ==
  ASSUME CatchingUp, GoOn, UNCHANGED <<store, told>>,
         \A n \in Made : /\ request'[n].announced = request[n].announced
                         /\ request[n].outcome = "lost" => request'[n].outcome = "lost",
         \A x \in Items : Plain(x)' /\ OnTheWay(x) => OnTheWay(x)'
  PROVE  CatchingUp'
<1> SUFFICES ASSUME NEW x \in Items, Plain(x)'
             PROVE  Author(x)' /\ (told'[x] = store'[x] \/ OnTheWay(x)')
  BY DEF CatchingUp
<1>1. /\ On(x)' = On(x) /\ On(x) \subseteq Made
      /\ \A m, n \in On(x) : Overlap(m, n)' <=> Overlap(m, n)
      /\ \A n \in On(x) : /\ request'[n].op = request[n].op
                          /\ request'[n].after = request[n].after
                          /\ request'[n].announced = request[n].announced
                          /\ request[n].outcome = "lost" => request'[n].outcome = "lost"
  BY OnKept DEF GoOn
<1>2. Plain(x)
  BY <1>1 DEF Plain
<1>3. Author(x) /\ (told[x] = store[x] \/ OnTheWay(x))
  BY <1>2 DEF CatchingUp
<1>4. AnnouncedOn(x)' = AnnouncedOn(x) /\ AnnouncedOn(x) \subseteq On(x)
  BY <1>1 DEF AnnouncedOn
<1>5. Author(x)'
  BY <1>1, <1>3, <1>4 DEF Author
<1> QED
  BY <1>3, <1>5

LEMMA InitInv == Init => IInv
<1> SUFFICES ASSUME Init PROVE IInv
  OBVIOUS
<1>1. request = <<>> /\ queue = <<>> /\ handled = <<>> /\ Made = {} /\ told = store
      /\ DOMAIN queue = {} /\ DOMAIN handled = {}
  BY DEF Init, Made
<1>2. Typed
  <2>1. store \in [Items -> 0..MaxRequests]
    BY Bounds DEF Init, Absent
  <2>2. DOMAIN log = {} /\ instant \in Nat
    BY DEF Init
  <2>3. request \in Seq(Requests) /\ Len(request) <= MaxRequests
    BY <1>1, Bounds
  <2>4. queue \in Seq(Made) /\ handled \in Seq(Made)
    BY <1>1
  <2> QED
    BY <1>1, <2>1, <2>2, <2>3, <2>4 DEF Typed
<1>3. Outcomes /\ Committed /\ Past /\ Lined /\ Sent
  BY <1>1 DEF Outcomes, Committed, Past, Lined, Sent
<1>4. CatchingUp
  BY <1>1 DEF CatchingUp, Author, AnnouncedOn, On, Init
<1> QED
  BY <1>2, <1>3, <1>4 DEF IInv

\* One request goes on.
LEMMA GoesOn ==
  ASSUME Typed, NEW n \in Made, NEW r \in Requests, request' = [request EXCEPT ![n] = r]
  PROVE  /\ request' \in Seq(Requests) /\ Len(request') <= MaxRequests /\ Made' = Made
         /\ request'[n] = r /\ \A m \in Made \ {n} : request'[m] = request[m]
<1>1. Made = 1..Len(request) /\ Len(request) \in Nat /\ request \in Seq(Requests)
      /\ Len(request) <= MaxRequests
  BY MadeIs DEF Typed
<1>2. request' \in Seq(Requests) /\ Len(request') = Len(request)
  BY <1>1
<1>3. Made' = 1..Len(request')
  BY <1>2, Elements DEF Made
<1> QED
  BY <1>1, <1>2, <1>3

LEMMA ExecuteInv == ASSUME NEW n \in Made PROVE IInv /\ Execute(n) => IInv'
<1> SUFFICES ASSUME IInv, Execute(n) PROVE IInv'
  OBVIOUS
<1> DEFINE r == request[n]
<1>1. r \in Requests /\ r.pc = "execute" /\ r.item \in Items /\ n \in 1..MaxRequests
      /\ UNCHANGED <<queue, handled, told, log, instant>>
  BY RequestType DEF IInv, Execute
<1>2. PICK o \in {"committed", "refused", "failed"}, a \in BOOLEAN :
        /\ Ends(n, o, a)
        /\ \/ /\ o = "committed" /\ store' = [store EXCEPT ![r.item] = Outcome(r.op, n)]
              /\ a = ~Silent(r.op, store[r.item])
           \/ o # "committed" /\ a = FALSE /\ store' = store
  BY DEF Execute
<1> DEFINE q == IF a THEN "notify" ELSE "log"
           new == [r EXCEPT !.outcome = o, !.announced = a, !.pc = q]
<1>3. /\ new \in Requests /\ request' = [request EXCEPT ![n] = new]
      /\ new.op = r.op /\ new.item = r.item /\ new.after = r.after /\ new.pc = q /\ new.outcome = o
      /\ new.announced = a /\ q \in {"notify", "log"} /\ (q = "notify" <=> a)
  BY <1>1, <1>2 DEF Ends, Requests
<1>4. /\ request' \in Seq(Requests) /\ Len(request') <= MaxRequests /\ Made' = Made
      /\ request'[n] = new /\ \A m \in Made \ {n} : request'[m] = request[m]
  BY <1>3, GoesOn DEF IInv
<1> HIDE DEF new, q
<1>5. /\ \A m \in Made : request'[m].op = request[m].op /\ request'[m].item = request[m].item
                        /\ request'[m].after = request[m].after
      /\ request'[n].pc = q /\ request'[n].outcome = o /\ request'[n].announced = a
      /\ \A m \in Made : request[m].pc # "execute" =>
            request'[m].pc = request[m].pc /\ request'[m].outcome = request[m].outcome
  BY <1>1, <1>3, <1>4
<1>6. Typed'
  <2>1. store' \in [Items -> 0..MaxRequests]
    <3>1. Outcome(r.op, n) \in 0..MaxRequests
      BY <1>1, Bounds DEF Outcome, Absent
    <3> QED
      BY <1>1, <1>2, <3>1 DEF IInv, Typed
  <2> QED
    BY <1>1, <1>4, <2>1 DEF IInv, Typed
<1>7. Outcomes' /\ Committed'
  BY <1>1, <1>2, <1>3, <1>4, <1>5 DEF IInv, Outcomes, Committed
<1>8. Past'
  BY <1>1, <1>4, <1>5, PastKept DEF IInv
<1>9. Lined'
  BY <1>1, <1>4, <1>5, LinedKept DEF IInv
<1>10. Sent'
  <2>1. ~r.announced /\ n \notin Range(queue)
    BY <1>1 DEF IInv, Sent
  <2> QED
    BY <1>1, <1>3, <1>4, <1>5, <2>1 DEF IInv, Sent
<1>11. CatchingUp'
  <2> SUFFICES ASSUME NEW x \in Items, Plain(x)'
               PROVE  Author(x)' /\ (told'[x] = store'[x] \/ OnTheWay(x)')
    BY <1>4 DEF CatchingUp
  <2>1. /\ On(x)' = On(x) /\ On(x) \subseteq Made
        /\ \A k, m \in On(x) : Overlap(k, m)' <=> Overlap(k, m)
    BY <1>4, <1>5, OnKept DEF GoOn
  <2>2. Plain(x)
    <3>1. r.outcome # "lost"
      BY <1>1 DEF IInv, Outcomes
    <3> QED
      BY <1>4, <1>5, <2>1, <3>1 DEF Plain
  <2>3. OnTheWay(x) => OnTheWay(x)'
    BY <1>1, <1>4, <1>5, <2>1 DEF OnTheWay
  <2>4. Author(x) /\ (told[x] = store[x] \/ OnTheWay(x)) /\ ~r.announced
    BY <1>1, <2>2 DEF IInv, CatchingUp, Sent
  <2>5. CASE a /\ r.item = x
    <3>1. n \in On(x) /\ store'[x] = Outcome(request'[n].op, n)
      BY <1>1, <1>2, <1>5, <2>5 DEF On, IInv, Typed
    <3>2. OnTheWay(x)'
      BY <1>3, <1>5, <2>1, <2>5, <3>1 DEF OnTheWay
    <3>3. AnnouncedOn(x)' = AnnouncedOn(x) \union {n}
      BY <1>4, <1>5, <2>1, <2>5, <3>1 DEF AnnouncedOn
    <3>4. ASSUME NEW m \in AnnouncedOn(x), m # n
          PROVE  \/ m \in request'[n].after
                 \/ WithEntity(request'[m].op) /\ WithEntity(request'[n].op)
      <4>1. m \in On(x) /\ m \in Made
        BY <2>1 DEF AnnouncedOn
      <4>2. CASE WithEntity(request'[m].op) /\ WithEntity(request'[n].op)
        BY <4>2
      <4>3. CASE ~(WithEntity(request'[m].op) /\ WithEntity(request'[n].op))
        <5>1. ~Overlap(m, n)' \/ ~Overlap(n, m)'
          BY <2>1, <3>1, <4>1, <4>3 DEF Plain
        <5>2. n \notin request'[m].after
          BY <1>1, <1>5, <4>1 DEF IInv, Past
        <5> QED
          BY <3>4, <5>1, <5>2 DEF Overlap
      <4> QED
        BY <4>2, <4>3
    <3> QED
      BY <3>1, <3>2, <3>3, <3>4 DEF Author
  <2>6. CASE ~(a /\ r.item = x)
    <3>1. store'[x] = store[x]
      <4>1. CASE r.item = x /\ o = "committed"
        <5>1. r.op # "graph"
          BY <2>2, <4>1 DEF Plain, On
        <5>2. r.op = "realDelete" /\ store[x] = Absent
          BY <1>2, <2>6, <4>1, <5>1 DEF Silent
        <5> QED
          BY <1>1, <1>2, <4>1, <5>2 DEF Outcome, IInv, Typed
      <4>2. CASE ~(r.item = x /\ o = "committed")
        BY <1>1, <1>2, <4>2 DEF IInv, Typed
      <4> QED
        BY <4>1, <4>2
    <3>2. AnnouncedOn(x)' = AnnouncedOn(x) /\ AnnouncedOn(x) \subseteq On(x)
      BY <1>4, <1>5, <2>1, <2>4, <2>6 DEF AnnouncedOn, On
    <3>3. Author(x)'
      BY <1>5, <2>1, <2>4, <3>1, <3>2 DEF Author
    <3> QED
      BY <1>1, <2>3, <2>4, <3>1, <3>3
  <2> QED
    BY <2>5, <2>6
<1> QED
  BY <1>6, <1>7, <1>8, <1>9, <1>10, <1>11 DEF IInv

LEMMA NotifyInv == ASSUME NEW n \in Made PROVE IInv /\ Notify(n) => IInv'
<1> SUFFICES ASSUME IInv, Notify(n) PROVE IInv'
  OBVIOUS
<1> DEFINE r == request[n]
           new == [r EXCEPT !.pc = "log"]
<1>1. r \in Requests /\ r.pc = "notify" /\ UNCHANGED <<store, handled, told, log, instant>>
      /\ queue' = Append(queue, n)
  BY RequestType DEF IInv, Notify
<1>2. /\ new \in Requests /\ request' = [request EXCEPT ![n] = new]
      /\ new.op = r.op /\ new.item = r.item /\ new.after = r.after /\ new.pc = "log"
      /\ new.outcome = r.outcome /\ new.announced = r.announced
  BY <1>1 DEF Notify, Requests
<1>3. /\ request' \in Seq(Requests) /\ Len(request') <= MaxRequests /\ Made' = Made
      /\ request'[n] = new /\ \A m \in Made \ {n} : request'[m] = request[m]
  BY <1>2, GoesOn DEF IInv
<1> HIDE DEF new
<1>4. \A m \in Made : /\ request'[m].op = request[m].op /\ request'[m].item = request[m].item
                      /\ request'[m].after = request[m].after
                      /\ request'[m].outcome = request[m].outcome
                      /\ request'[m].announced = request[m].announced
                      /\ m # n => request'[m].pc = request[m].pc
  BY <1>2, <1>3
<1>5. request'[n].pc = "log"
  BY <1>2, <1>3
<1>6. /\ queue' \in Seq(Made) /\ DOMAIN queue = 1..Len(queue) /\ Len(queue) \in Nat
      /\ DOMAIN queue' = 1..(Len(queue) + 1) /\ queue'[Len(queue) + 1] = n
      /\ \A i \in DOMAIN queue : queue'[i] = queue[i] /\ queue[i] \in Made
      /\ \A i \in DOMAIN handled : handled[i] \in Made
  BY <1>1, Appended, Elements DEF IInv, Typed
<1>7. \A i \in DOMAIN queue' : i \in DOMAIN queue \/ i = Len(queue) + 1
  BY <1>6
<1>8. Typed'
  BY <1>1, <1>3, <1>6 DEF IInv, Typed
<1>9. Outcomes' /\ Committed'
  BY <1>1, <1>3, <1>4, <1>5 DEF IInv, Outcomes, Committed
<1>10. Past'
  BY <1>1, <1>3, <1>4, PastKept DEF IInv
\* It was not over, so no request began after it was.
<1>11. \A m \in Made : n \notin request[m].after
  BY <1>1 DEF IInv, Past
<1>12. Lined'
  <2>1. \A i \in DOMAIN queue : request[queue[i]].pc \in {"log", "done"} /\ queue[i] # n
    BY <1>1 DEF IInv, Lined
  <2>2. \A i \in DOMAIN handled : request[handled[i]].pc \in {"log", "done"} /\ handled[i] # n
    BY <1>1 DEF IInv, Lined
  <2>3. \A k, m \in Made : Before(k, m)' <=> Before(k, m)
    BY <1>4 DEF Before
  <2>4. \A i \in DOMAIN queue' : /\ request'[queue'[i]].outcome = "committed"
                                 /\ request'[queue'[i]].pc \in {"log", "done"}
    <3>1. r.outcome = "committed"
      BY <1>1 DEF IInv, Committed
    <3> QED
      BY <1>4, <1>5, <1>6, <1>7, <2>1, <3>1 DEF IInv, Lined
  <2>5. \A i \in DOMAIN handled : /\ request'[handled[i]].outcome \in {"committed", "lost"}
                                  /\ request'[handled[i]].pc \in {"log", "done"}
    BY <1>4, <1>6, <2>2 DEF IInv, Lined
  <2>6. ASSUME NEW i \in DOMAIN queue', NEW j \in DOMAIN queue', i < j
        PROVE  Before(queue[i], queue[j])'
    <3>1. i \in DOMAIN queue
      BY <1>6, <2>6
    <3>2. CASE j \in DOMAIN queue
      BY <1>4, <1>6, <2>6, <3>1, <3>2 DEF IInv, Lined, Before
    <3>3. CASE j = Len(queue) + 1
      BY <1>4, <1>6, <1>11, <2>1, <3>1, <3>3 DEF Before
    <3> QED
      BY <1>7, <3>2, <3>3
  <2>7. \A i, j \in DOMAIN handled : i < j => Before(handled[i], handled[j])'
    BY <1>1, <1>4, <1>6 DEF IInv, Lined, Before
  <2>8. ASSUME NEW i \in DOMAIN handled, NEW j \in DOMAIN queue'
        PROVE  Before(handled[i], queue[j])'
    <3>1. CASE j \in DOMAIN queue
      BY <1>1, <1>4, <1>6, <3>1 DEF IInv, Lined, Before
    <3>2. CASE j = Len(queue) + 1
      BY <1>1, <1>4, <1>6, <1>11, <2>2, <3>2 DEF Before
    <3> QED
      BY <1>7, <3>1, <3>2
  <2> QED
    BY <1>1, <2>4, <2>5, <2>6, <2>7, <2>8 DEF Lined, Before
<1>13. Range(queue) \subseteq Range(queue)' /\ n \in Range(queue)'
       /\ Range(queue)' \subseteq Range(queue) \union {n}
  <2>1. n \in Range(queue)'
    <3>1. Len(queue) + 1 \in DOMAIN queue'
      BY <1>6
    <3> QED
      BY <1>6, <3>1 DEF Range
  <2>2. \A i \in DOMAIN queue : i \in DOMAIN queue' /\ queue'[i] = queue[i]
    BY <1>6
  <2>3. Range(queue)' \subseteq Range(queue) \union {n}
    BY <1>6, <1>7 DEF Range
  <2> QED
    BY <2>1, <2>2, <2>3 DEF Range
<1>14. Sent'
  BY <1>1, <1>3, <1>4, <1>5, <1>13 DEF IInv, Sent
<1>15. CatchingUp'
  <2>1. GoOn
    BY <1>3, <1>4 DEF GoOn
  <2>2. ASSUME NEW x \in Items, OnTheWay(x) PROVE OnTheWay(x)'
    <3>1. On(x)' = On(x) /\ On(x) \subseteq Made
      BY <2>1, OnKept
    <3>2. PICK m \in On(x) : request[m].pc = "notify" \/ m \in Range(queue)
      BY <2>2 DEF OnTheWay
    <3>3. m \in Range(queue)' \/ request'[m].pc = "notify"
      BY <1>4, <1>13, <3>1, <3>2
    <3> QED
      BY <3>1, <3>3 DEF OnTheWay
  <2> QED
    BY <1>1, <1>4, <2>1, <2>2, CatchingKept DEF IInv
<1> QED
  BY <1>8, <1>9, <1>10, <1>12, <1>14, <1>15 DEF IInv

\* A request ends, whatever it leaves in the log.
LEMMA FinishedInv ==
  ASSUME IInv, NEW n \in Made, NEW stamp \in Nat, NEW whole \in BOOLEAN, request[n].pc = "log",
         Finished(n, stamp, whole),
         instant' \in Nat, DOMAIN log' \subseteq Nat \X FileNames,
         \A f \in DOMAIN log' : f[1] <= instant' /\ log'[f] \in Made
  PROVE  IInv'
<1> DEFINE r == request[n]
           new == [r EXCEPT !.pc = "done", !.stamp = stamp, !.whole = whole]
<1>1. r \in Requests /\ r.pc = "log" /\ UNCHANGED <<store, queue, handled, told>>
  BY RequestType DEF IInv, Finished
<1>2. /\ new \in Requests /\ request' = [request EXCEPT ![n] = new]
      /\ new.op = r.op /\ new.item = r.item /\ new.after = r.after /\ new.pc = "done"
      /\ new.outcome = r.outcome /\ new.announced = r.announced
  BY <1>1 DEF Finished, Requests
<1>3. /\ request' \in Seq(Requests) /\ Len(request') <= MaxRequests /\ Made' = Made
      /\ request'[n] = new /\ \A m \in Made \ {n} : request'[m] = request[m]
  BY <1>2, GoesOn DEF IInv
<1> HIDE DEF new
<1>4. \A m \in Made : /\ request'[m].op = request[m].op /\ request'[m].item = request[m].item
                      /\ request'[m].after = request[m].after
                      /\ request'[m].outcome = request[m].outcome
                      /\ request'[m].announced = request[m].announced
                      /\ m # n => request'[m].pc = request[m].pc
  BY <1>2, <1>3
<1>5. request'[n].pc = "done"
  BY <1>2, <1>3
<1>6. Typed'
  BY <1>1, <1>3 DEF IInv, Typed
<1>7. Outcomes' /\ Committed'
  BY <1>1, <1>3, <1>4, <1>5 DEF IInv, Outcomes, Committed
<1>8. Past'
  BY <1>3, <1>4, <1>5, PastKept DEF IInv
<1>9. Lined'
  BY <1>1, <1>3, <1>4, <1>5, LinedKept DEF IInv
<1>10. Sent'
  BY <1>1, <1>3, <1>4, <1>5 DEF IInv, Sent
<1>11. CatchingUp'
  <2>1. GoOn
    BY <1>3, <1>4 DEF GoOn
  <2>2. ASSUME NEW x \in Items, OnTheWay(x) PROVE OnTheWay(x)'
    <3>1. On(x)' = On(x) /\ On(x) \subseteq Made
      BY <2>1, OnKept
    <3> QED
      BY <1>1, <1>3, <1>4, <2>2, <3>1 DEF OnTheWay
  <2> QED
    BY <1>1, <1>4, <2>1, <2>2, CatchingKept DEF IInv
<1> QED
  BY <1>6, <1>7, <1>8, <1>9, <1>10, <1>11 DEF IInv

\* A file is made, or written over.
LEMMA FiledInv ==
  ASSUME IInv, NEW n \in Made, request[n].pc = "log", NEW now \in {instant, instant + 1},
         NEW whole \in BOOLEAN, instant' = now, log' = Filed(<<now, Name(request[n].op)>>, n),
         Finished(n, now, whole)
  PROVE  IInv'
<1> DEFINE file == <<now, Name(request[n].op)>>
<1>2. now \in Nat /\ instant <= now /\ instant \in Nat
  BY DEF IInv, Typed
<1>3. file \in Nat \X FileNames /\ file[1] = now
  BY <1>2, RequestType, NameType DEF IInv, Requests
<1>4. /\ DOMAIN log' = DOMAIN log \union {file}
      /\ \A f \in DOMAIN log' : log'[f] = n \/ (f \in DOMAIN log /\ log'[f] = log[f])
  BY DEF Filed
<1>5. \A f \in DOMAIN log : f[1] \in Nat /\ f[1] <= instant /\ log[f] \in Made
  BY DEF IInv, Typed
<1> HIDE DEF file
<1>6. /\ DOMAIN log' \subseteq Nat \X FileNames
      /\ \A f \in DOMAIN log' : log'[f] \in Made
  BY <1>3, <1>4, <1>5 DEF IInv, Typed
<1>7. \A f \in DOMAIN log' : f[1] <= instant'
  BY <1>2, <1>3, <1>4, <1>5
<1> QED
  BY <1>2, <1>6, <1>7, FinishedInv

LEMMA IntactType == ASSUME NEW op PROVE Intact(op) \in BOOLEAN
BY DEF Intact

LEMMA WriteLogInv == ASSUME NEW n \in Made PROVE IInv /\ WriteLog(n) => IInv'
<1> SUFFICES ASSUME IInv, WriteLog(n) PROVE IInv'
  OBVIOUS
<1>1. PICK now \in {instant, instant + 1} :
        /\ instant' = now /\ log' = Filed(<<now, Name(request[n].op)>>, n)
        /\ Finished(n, now, Intact(request[n].op))
  BY DEF WriteLog
<1>2. PICK whole \in BOOLEAN : whole = Intact(request[n].op)
  BY IntactType
<1> QED
  BY <1>1, <1>2, FiledInv DEF WriteLog

LEMMA WriteLogFailsInv == ASSUME NEW n \in Made PROVE IInv /\ WriteLogFails(n) => IInv'
<1> SUFFICES ASSUME IInv, WriteLogFails(n) PROVE IInv'
  OBVIOUS
<1>1. CASE Finished(n, Unlogged, FALSE) /\ UNCHANGED <<log, instant>>
  <2>1. Unlogged \in Nat
    BY DEF Unlogged
  <2> QED
    BY <1>1, <2>1, FinishedInv DEF WriteLogFails, IInv, Typed
<1>2. CASE \E now \in {instant, instant + 1} :
             /\ instant' = now /\ log' = Filed(<<now, Name(request[n].op)>>, n)
             /\ Finished(n, now, FALSE)
  BY <1>2, FiledInv DEF WriteLogFails
<1> QED
  BY <1>1, <1>2 DEF WriteLogFails

LEMMA BeginInv == IInv /\ Begin => IInv'
<1> SUFFICES ASSUME IInv, Begin PROVE IInv'
  OBVIOUS
<1>1. PICK op \in Operations, x \in Items : request' = Append(request, RequestOf(op, x))
  BY DEF Begin
<1>2. UNCHANGED <<store, queue, handled, told, log, instant>> /\ Len(request) < MaxRequests
  BY DEF Begin
<1> DEFINE new == RequestOf(op, x)
           n == Len(request) + 1
<1>3. /\ new \in Requests /\ new.pc = "execute" /\ new.outcome = "open" /\ new.item = x
      /\ new.op = op /\ new.after = Made \ Running /\ new.announced = FALSE
  <2>1. Made \ Running \in SUBSET Ids
    BY MadeIs DEF IInv
  <2> QED
    BY <2>1 DEF RequestOf, Requests, Unlogged
<1> HIDE DEF new
<1>4. /\ request \in Seq(Requests) /\ Made = 1..Len(request) /\ Len(request) \in Nat
      /\ DOMAIN request = 1..Len(request)
  BY MadeIs DEF IInv, Typed, Made
<1>5. /\ request' \in Seq(Requests) /\ Len(request') = n /\ Made' = Made \union {n} /\ n \notin Made
      /\ request'[n] = new /\ \A m \in Made : request'[m] = request[m]
  <2>1. request' = Append(request, new)
    BY <1>1 DEF new
  <2>2. /\ request' \in Seq(Requests) /\ Len(request') = n /\ DOMAIN request' = 1..n
        /\ request'[n] = new /\ \A m \in Made : request'[m] = request[m]
    BY <1>3, <1>4, <2>1, Appended
  <2>3. Made' = 1..n
    BY <2>2 DEF Made
  <2> QED
    BY <1>4, <2>2, <2>3
<1>6. Typed'
  <2>1. queue' \in Seq(Made)' /\ handled' \in Seq(Made)'
    <3>1. queue \in Seq(Made) /\ handled \in Seq(Made) /\ Made \subseteq Made'
      BY <1>5 DEF IInv, Typed
    <3>2. queue \in Seq(Made') /\ handled \in Seq(Made')
      BY <3>1, SeqWider
    <3> QED
      BY <1>2, <3>2
  <2>2. Len(request') <= MaxRequests
    BY <1>2, <1>4, <1>5, Bounds
  <2>3. \A f \in DOMAIN log' : f[1] <= instant' /\ log'[f] \in Made'
    BY <1>2, <1>5 DEF IInv, Typed
  <2> QED
    BY <1>2, <1>5, <2>1, <2>2, <2>3 DEF IInv, Typed
<1>7. Outcomes' /\ Committed'
  BY <1>3, <1>5 DEF IInv, Outcomes, Committed
<1>8. Past'
  <2> SUFFICES ASSUME NEW k \in Made', NEW m \in request'[k].after
               PROVE  m \in Made' /\ request'[m].pc = "done"
    BY DEF Past
  <2>1. CASE k = n
    BY <1>3, <1>5, <2>1 DEF Running
  <2>2. CASE k \in Made
    BY <1>5, <2>2 DEF IInv, Past
  <2> QED
    BY <1>5, <2>1, <2>2
<1>9. Lined'
  <2>1. \A i \in DOMAIN queue : queue[i] \in Made
    BY Elements DEF IInv, Typed
  <2>2. \A i \in DOMAIN handled : handled[i] \in Made
    BY Elements DEF IInv, Typed
  <2>3. \A i \in DOMAIN queue : /\ request'[queue[i]].outcome = "committed"
                                /\ request'[queue[i]].pc \in {"log", "done"}
    BY <1>5, <2>1 DEF IInv, Lined
  <2>4. \A i \in DOMAIN handled : /\ request'[handled[i]].outcome \in {"committed", "lost"}
                                  /\ request'[handled[i]].pc \in {"log", "done"}
    BY <1>5, <2>2 DEF IInv, Lined
  <2>5. /\ \A i, j \in DOMAIN queue : i < j => Before(queue[i], queue[j])'
        /\ \A i, j \in DOMAIN handled : i < j => Before(handled[i], handled[j])'
        /\ \A i \in DOMAIN handled, j \in DOMAIN queue : Before(handled[i], queue[j])'
    BY <1>2, <1>5, <2>1, <2>2 DEF IInv, Lined, Before
  <2> QED
    BY <1>2, <2>3, <2>4, <2>5 DEF Lined, Before
<1>10. Sent'
  <2>1. n \notin Range(queue)
    BY <1>5, Elements DEF IInv, Typed, Range
  <2> QED
    BY <1>2, <1>3, <1>5, <2>1 DEF IInv, Sent
<1>11. CatchingUp'
  <2> SUFFICES ASSUME NEW y \in Items, Plain(y)'
               PROVE  Author(y)' /\ (told'[y] = store'[y] \/ OnTheWay(y)')
    BY DEF CatchingUp
  <2>1. /\ On(y) \subseteq On(y)' /\ On(y)' \subseteq On(y) \union {n}
        /\ On(y) \subseteq Made /\ \A m \in On(y) : request'[m] = request[m]
    BY <1>5 DEF On
  <2>2. Plain(y)
    BY <2>1 DEF Plain, Overlap
  <2>3. Author(y) /\ (told[y] = store[y] \/ OnTheWay(y))
    BY <2>2 DEF IInv, CatchingUp
  <2>4. OnTheWay(y) => OnTheWay(y)'
    BY <1>2, <2>1 DEF OnTheWay
  <2>5. AnnouncedOn(y)' = AnnouncedOn(y)
    BY <1>3, <1>5, <2>1 DEF AnnouncedOn
  <2>6. Author(y)'
    BY <1>2, <2>1, <2>3, <2>5 DEF Author, AnnouncedOn
  <2> QED
    BY <1>2, <2>3, <2>4, <2>6
<1> QED
  BY <1>6, <1>7, <1>8, <1>9, <1>10, <1>11 DEF IInv

LEMMA ProcessInv == IInv /\ Process => IInv'
<1> SUFFICES ASSUME IInv, Process PROVE IInv'
  OBVIOUS
<1> DEFINE n == queue[1]
           x == request[n].item
<1>1. /\ UNCHANGED <<store, request, log, instant>> /\ Made' = Made
      /\ handled' = Append(handled, n) /\ queue' = Rest(queue)
      /\ told' = [told EXCEPT ![x] = Content(n)]
  BY DEF Process, Handle, Made, Rest
<1>2. queue \in Seq(Made) /\ handled \in Seq(Made) /\ queue # <<>>
  BY DEF IInv, Typed, Process
<1>3. /\ queue' \in Seq(Made) /\ 1 \in DOMAIN queue /\ DOMAIN queue' = 1..(Len(queue) - 1)
      /\ \A i \in DOMAIN queue' : queue'[i] = queue[i + 1] /\ i + 1 \in DOMAIN queue
      /\ DOMAIN queue = 1..Len(queue) /\ Len(queue) \in Nat /\ n \in Made
  BY <1>1, <1>2, Taken, Elements
<1>4. /\ handled' \in Seq(Made) /\ DOMAIN handled' = 1..(Len(handled) + 1)
      /\ handled'[Len(handled) + 1] = n /\ Len(handled) \in Nat /\ DOMAIN handled = 1..Len(handled)
      /\ \A i \in DOMAIN handled : handled'[i] = handled[i]
  BY <1>1, <1>2, <1>3, Appended, Elements
<1>5. \A i \in DOMAIN handled' : i \in DOMAIN handled \/ i = Len(handled) + 1
  BY <1>4
<1>6. request[n].outcome = "committed" /\ request[n].pc \in {"log", "done"}
  BY <1>3 DEF IInv, Lined
<1>7. n \in 1..MaxRequests /\ x \in Items
  BY <1>3, RequestType DEF IInv
<1>8. Typed'
  <2>1. Content(n) \in 0..MaxRequests
    BY <1>7, Bounds DEF Content, Outcome, Absent, IInv, Typed
  <2>2. told' \in [Items -> 0..MaxRequests]
    BY <1>1, <1>7, <2>1 DEF IInv, Typed
  <2> QED
    BY <1>1, <1>3, <1>4, <2>2 DEF IInv, Typed
<1>9. Outcomes' /\ Committed' /\ Past'
  BY <1>1 DEF IInv, Outcomes, Committed, Past
<1>10. Lined'
  <2>1. \A i \in DOMAIN queue' : /\ request'[queue'[i]].outcome = "committed"
                                 /\ request'[queue'[i]].pc \in {"log", "done"}
    BY <1>1, <1>3 DEF IInv, Lined
  <2>2. \A i \in DOMAIN handled' : /\ request'[handled'[i]].outcome \in {"committed", "lost"}
                                   /\ request'[handled'[i]].pc \in {"log", "done"}
    BY <1>1, <1>4, <1>5, <1>6 DEF IInv, Lined
  <2>3. ASSUME NEW i \in DOMAIN queue', NEW j \in DOMAIN queue', i < j
        PROVE  Before(queue[i], queue[j])'
    <3>1. i + 1 < j + 1
      BY <1>3, <2>3
    <3>2. Before(queue[i + 1], queue[j + 1])
      BY <1>3, <3>1 DEF IInv, Lined
    <3> QED
      BY <1>1, <1>3, <3>2 DEF Before
  <2>4. ASSUME NEW i \in DOMAIN handled', NEW j \in DOMAIN handled', i < j
        PROVE  Before(handled[i], handled[j])'
    <3>1. i \in DOMAIN handled
      BY <1>4, <2>4
    <3>2. CASE j \in DOMAIN handled
      BY <1>1, <1>4, <2>4, <3>1, <3>2 DEF IInv, Lined, Before
    <3>3. CASE j = Len(handled) + 1
      <4>1. Before(handled[i], queue[1])
        BY <1>3, <3>1 DEF IInv, Lined
      <4> QED
        BY <1>1, <1>4, <3>1, <3>3, <4>1 DEF Before
    <3> QED
      BY <1>5, <3>2, <3>3
  <2>5. ASSUME NEW i \in DOMAIN handled', NEW j \in DOMAIN queue'
        PROVE  Before(handled[i], queue[j])'
    <3>1. CASE i \in DOMAIN handled
      BY <1>1, <1>3, <1>4, <3>1 DEF IInv, Lined, Before
    <3>2. CASE i = Len(handled) + 1
      <4>1. 1 < j + 1
        BY <1>3
      <4>2. Before(queue[1], queue[j + 1])
        BY <1>3, <4>1 DEF IInv, Lined
      <4> QED
        BY <1>1, <1>3, <1>4, <3>2, <4>2 DEF Before
    <3> QED
      BY <1>5, <3>1, <3>2
  <2> QED
    BY <2>1, <2>2, <2>3, <2>4, <2>5 DEF Lined, Before
<1>11. /\ \A m \in Range(queue) : m = n \/ m \in Range(queue)'
       /\ Range(queue)' \subseteq Range(queue)
       /\ Range(handled)' = Range(handled) \union {n} /\ n \in Range(queue)
  <2>1. ASSUME NEW m \in Range(queue), m # n PROVE m \in Range(queue)'
    <3>1. PICK i \in DOMAIN queue : queue[i] = m
      BY DEF Range
    <3>2. i # 1 /\ i \in 1..Len(queue)
      BY <1>3, <2>1, <3>1
    <3>3. i - 1 \in DOMAIN queue' /\ (i - 1) + 1 = i
      BY <1>3, <3>2
    <3>4. queue'[i - 1] = m
      BY <1>3, <3>1, <3>3
    <3> QED
      BY <3>3, <3>4 DEF Range
  <2>2. Range(queue)' \subseteq Range(queue) /\ n \in Range(queue)
    BY <1>3 DEF Range
  <2>3. Range(handled)' = Range(handled) \union {n}
    <3>1. \A i \in DOMAIN handled : i \in DOMAIN handled'
      BY <1>4
    <3>2. Len(handled) + 1 \in DOMAIN handled'
      BY <1>4
    <3>3. Range(handled)' \subseteq Range(handled) \union {n}
      BY <1>4, <1>5 DEF Range
    <3>4. Range(handled) \subseteq Range(handled)' /\ n \in Range(handled)'
      BY <1>4, <3>1, <3>2 DEF Range
    <3> QED
      BY <3>3, <3>4
  <2> QED
    BY <2>1, <2>2, <2>3
<1>12. Sent'
  BY <1>1, <1>11 DEF IInv, Sent
<1>13. CatchingUp'
  <2> SUFFICES ASSUME NEW y \in Items, Plain(y)'
               PROVE  Author(y)' /\ (told'[y] = store'[y] \/ OnTheWay(y)')
    BY <1>1 DEF CatchingUp
  <2>1. Plain(y) /\ On(y)' = On(y)
    BY <1>1 DEF Plain, On, Overlap
  <2>2. Author(y) /\ (told[y] = store[y] \/ OnTheWay(y))
    BY <2>1 DEF IInv, CatchingUp
  <2>3. Author(y)'
    BY <1>1, <2>1, <2>2 DEF Author, AnnouncedOn
  <2>4. CASE y = x
    <3>1. n \in AnnouncedOn(y)
      BY <1>3, <1>11, <2>4 DEF AnnouncedOn, On, IInv, Sent
    <3>2. PICK w \in AnnouncedOn(y) :
            /\ store[y] = Outcome(request[w].op, w)
            /\ \A m \in AnnouncedOn(y) \ {w} :
                 \/ m \in request[w].after
                 \/ WithEntity(request[m].op) /\ WithEntity(request[w].op)
      BY <2>2, <3>1 DEF Author
    <3>3. told'[y] = Content(n)
      BY <1>1, <1>7, <2>4 DEF IInv, Typed
    <3>4. CASE n = w
      BY <1>1, <2>3, <2>4, <3>2, <3>3, <3>4 DEF Content
    <3>5. CASE n # w /\ WithEntity(request[n].op) /\ WithEntity(request[w].op)
      <4>1. w \in Nat /\ w # Absent
        BY MadeIs DEF AnnouncedOn, On, IInv, Absent
      <4>2. store[y] # Absent
        BY <3>2, <3>5, <4>1 DEF Outcome, WithEntity
      <4> QED
        BY <1>1, <2>3, <2>4, <3>3, <3>5, <4>2 DEF Content
    <3>6. CASE n # w /\ n \in request[w].after
      <4>1. w \in Made /\ w \in On(y) /\ request[w].announced /\ request[w].outcome # "lost"
        BY <2>1 DEF AnnouncedOn, On, Plain
      <4>2. w \notin Range(handled)
        BY <1>3, <3>6 DEF IInv, Lined, Before, Range
      <4>3. request[w].pc = "notify" \/ w \in Range(queue)
        BY <4>1, <4>2 DEF IInv, Sent
      <4>4. OnTheWay(y)'
        BY <1>1, <1>11, <2>1, <3>6, <4>1, <4>3 DEF OnTheWay
      <4> QED
        BY <2>3, <4>4
    <3> QED
      BY <3>1, <3>2, <3>4, <3>5, <3>6
  <2>5. CASE y # x
    <3>1. told'[y] = told[y] /\ store'[y] = store[y]
      BY <1>1, <2>5 DEF IInv, Typed
    <3>2. n \notin On(y)
      BY <2>5 DEF On
    <3>3. OnTheWay(y) => OnTheWay(y)'
      BY <1>1, <1>11, <2>1, <3>2 DEF OnTheWay
    <3> QED
      BY <2>2, <2>3, <3>1, <3>3
  <2> QED
    BY <2>4, <2>5
<1> QED
  BY <1>8, <1>9, <1>10, <1>12, <1>13 DEF IInv

LEMMA CrashInv == IInv /\ Crash => IInv'
<1> SUFFICES ASSUME IInv, Crash PROVE IInv'
  OBVIOUS
<1>1. UNCHANGED <<store, handled, told, log, instant>> /\ queue' = <<>> /\ DOMAIN queue' = {}
  <2>1. UNCHANGED <<store, handled, told, log, instant>> /\ queue' = <<>>
    BY DEF Crash
  <2>2. DOMAIN queue' = {}
    BY <2>1
  <2> QED
    BY <2>1, <2>2
<1>2. /\ Made = 1..Len(request) /\ Len(request) \in Nat /\ request \in Seq(Requests)
      /\ Len(request) <= MaxRequests
  BY MadeIs DEF IInv, Typed
<1> DEFINE Hit == Running \union Range(queue)
<1>3. request' = [n \in 1..Len(request) |->
                    IF n \in Hit THEN [request[n] EXCEPT !.outcome = "lost", !.pc = "done"]
                    ELSE request[n]]
  BY <1>2 DEF Crash
<1>4. ASSUME NEW n \in Made
      PROVE  /\ request'[n] \in Requests
             /\ request'[n].op = request[n].op /\ request'[n].item = request[n].item
             /\ request'[n].after = request[n].after /\ request'[n].pc = "done"
             /\ request'[n].announced = request[n].announced
             /\ n \in Hit => request'[n].outcome = "lost"
             /\ n \notin Hit => request'[n].outcome = request[n].outcome
  <2>1. request[n] \in Requests
    BY RequestType DEF IInv
  <2>2. n \notin Hit => request[n].pc = "done"
    BY DEF Running
  <2> HIDE DEF Hit
  <2>3. CASE n \in Hit
    <3>1. request'[n] = [request[n] EXCEPT !.outcome = "lost", !.pc = "done"]
      BY <1>2, <1>3, <2>3
    <3> QED
      BY <2>1, <2>3, <3>1 DEF Requests
  <2>4. CASE n \notin Hit
    BY <1>2, <1>3, <2>1, <2>2, <2>4
  <2> QED
    BY <2>3, <2>4
<1>5. request' \in Seq(Requests) /\ Len(request') = Len(request) /\ Made' = Made
  <2>1. request' \in [1..Len(request) -> Requests]
    BY <1>2, <1>3, <1>4
  <2>2. request' \in Seq(Requests) /\ Len(request') = Len(request)
    BY <1>2, <2>1
  <2>3. Made' = 1..Len(request')
    BY <2>2, Elements DEF Made
  <2> QED
    BY <1>2, <2>2, <2>3
<1>6. Typed'
  <2>1. queue' \in Seq(Made)
    BY <1>1
  <2> QED
    BY <1>1, <1>2, <1>5, <2>1 DEF IInv, Typed
<1>7. Outcomes' /\ Committed'
  <2>1. \A n \in Made : request'[n].outcome # "open"
    BY <1>4 DEF IInv, Outcomes, Running
  <2> QED
    BY <1>4, <1>5, <2>1 DEF Outcomes, Committed
<1>8. Past'
  BY <1>4, <1>5, PastKept DEF IInv
<1>9. Lined'
  <2>1. \A i \in DOMAIN handled : handled[i] \in Made
    BY Elements DEF IInv, Typed
  <2>2. \A i \in DOMAIN handled : /\ request'[handled[i]].outcome \in {"committed", "lost"}
                                  /\ request'[handled[i]].pc \in {"log", "done"}
    BY <1>4, <2>1 DEF IInv, Lined
  <2>3. \A i, j \in DOMAIN handled : i < j => Before(handled[i], handled[j])'
    BY <1>1, <1>4, <2>1 DEF IInv, Lined, Before
  <2> QED
    BY <1>1, <2>2, <2>3 DEF Lined, Before
<1>10. Sent'
  <2>1. \A n \in Made : request[n].pc = "notify" \/ n \in Range(queue) => n \in Hit
    BY DEF Running
  <2>2. \A n \in Made : n \notin Range(queue)'
    BY <1>1 DEF Range
  <2> HIDE DEF Hit
  <2>3. \A n \in Made : n \notin Hit => request'[n].outcome = request[n].outcome
    BY <1>4
  <2>4. ASSUME NEW n \in Made, request'[n].announced
        PROVE  request'[n].outcome = "lost" \/ n \in Range(handled)'
    <3>1. CASE n \in Hit
      BY <1>4, <3>1
    <3>2. CASE n \notin Hit
      BY <1>1, <1>4, <2>1, <2>4, <3>2 DEF IInv, Sent
    <3> QED
      BY <3>1, <3>2
  <2> QED
    BY <1>4, <1>5, <2>2, <2>4 DEF Sent
<1>11. CatchingUp'
  <2>1. GoOn
    BY <1>4, <1>5 DEF GoOn
  <2>2. ASSUME NEW x \in Items, Plain(x)', OnTheWay(x) PROVE OnTheWay(x)'
    <3>1. On(x)' = On(x) /\ On(x) \subseteq Made
      BY <2>1, OnKept
    <3>2. \A n \in On(x) : n \notin Hit
      BY <1>4, <2>2, <3>1 DEF Plain
    <3> QED
      BY <2>2, <3>1, <3>2 DEF OnTheWay, Running
  <2>3. \A n \in Made : /\ request'[n].announced = request[n].announced
                        /\ request[n].outcome = "lost" => request'[n].outcome = "lost"
    <3> HIDE DEF Hit
    <3> QED
      BY <1>4
  <2> QED
    BY <1>1, <2>1, <2>2, <2>3, CatchingKept DEF IInv
<1> QED
  BY <1>6, <1>7, <1>8, <1>9, <1>10, <1>11 DEF IInv

LEMMA StepInv == IInv /\ [Next]_vars => IInv'
<1> SUFFICES ASSUME IInv, [Next]_vars PROVE IInv'
  OBVIOUS
<1>1. CASE UNCHANGED vars
  <2>1. Made' = Made /\ request' = request /\ queue' = queue /\ handled' = handled
    BY <1>1 DEF vars, Made
  <2>2. Typed'
    BY <1>1, <2>1 DEF IInv, Typed, vars
  <2>3. Outcomes' /\ Committed' /\ Past'
    BY <2>1 DEF IInv, Outcomes, Committed, Past
  <2>4. Lined'
    BY <2>1 DEF IInv, Lined, Before
  <2>5. Sent'
    BY <2>1 DEF IInv, Sent
  <2>6. CatchingUp'
    BY <1>1, <2>1 DEF IInv, CatchingUp, Plain, Author, AnnouncedOn, On, Overlap, OnTheWay, vars
  <2> QED
    BY <2>2, <2>3, <2>4, <2>5, <2>6 DEF IInv
<1>2. CASE Begin
  BY <1>2, BeginInv
<1>3. ASSUME NEW n \in Ids, Continue(n) PROVE IInv'
  BY <1>3, ExecuteInv, NotifyInv, WriteLogInv, WriteLogFailsInv DEF Continue
<1>4. CASE Process \/ Crash
  BY <1>4, ProcessInv, CrashInv
<1> QED
  BY <1>1, <1>2, <1>3, <1>4 DEF Next

LEMMA Inductive == Spec => []IInv
  BY InitInv, StepInv, PTL DEF Spec

------------------------------------------------------------------------------
\* Requests, messages and log keep their types, and only commits are announced
\* (Command.performExecute).
THEOREM TypeCorrect == Spec => []TypeOK
<1>1. IInv => TypeOK
  <2> SUFFICES ASSUME IInv PROVE TypeOK
    OBVIOUS
  <2>1. \A n \in Made : /\ request[n].op \in Operations /\ request[n].item \in Items
                        /\ request[n].pc \in {"execute", "notify", "log", "done"}
                        /\ request[n].outcome \in {"open", "committed", "refused", "failed", "lost"}
                        /\ request[n].outcome = "open" <=> request[n].pc = "execute"
    BY RequestType DEF IInv, Outcomes, Requests
  <2>2. \A n \in Range(queue) : n \in Made /\ request[n].outcome = "committed"
    BY Elements DEF IInv, Typed, Lined, Range
  <2> QED
    BY <2>1, <2>2 DEF IInv, Typed, TypeOK
<1> QED
  BY <1>1, Inductive, PTL

\* The monitor hears of a commit once at most, and of one that was over before another
\* began first (Command.notify, LocalMessagingService).
THEOREM InOrder == Spec => []HeardInOrder
<1>1. IInv => HeardInOrder
  BY DEF IInv, Lined, Before, HeardInOrder
<1> QED
  BY <1>1, Inductive, PTL

\* When all is quiet subscribers have heard what is in the store, with the exceptions the
\* property names (RegistryMonitor.getModel).
THEOREM CaughtUp == Spec => []SubscribersCatchUp
<1>1. IInv => SubscribersCatchUp
  <2>1. SUFFICES ASSUME IInv, Running = {}, queue = <<>>, NEW x \in Items, Plain(x)
                 PROVE  told[x] = store[x]
    BY DEF SubscribersCatchUp, Plain
  <2>3. ~OnTheWay(x)
    BY <2>1 DEF OnTheWay, Running, Range, On
  <2> QED
    BY <2>1, <2>3 DEF IInv, CatchingUp
<1> QED
  BY <1>1, Inductive, PTL
==============================================================================
