----------------------------- MODULE ReplayProofs -----------------------------
(***************************************************************************)
(* Replaying the request log, of any length, reconstructs the registry.    *)
(*                                                                         *)
(* An item whose requests did not overlap was written by them one after    *)
(* the other, in the order of their numbers (Settled).  Their files have   *)
(* the same order (Stamps, Files), and so the replay, by induction on the  *)
(* instants, is at each instant where the item was after the requests      *)
(* logged up to then.                                                      *)
(***************************************************************************)
EXTENDS CommandEffectsProofs, WellFoundedInduction

\* Induction on the natural numbers, for a set of them.
LEMMA NaturalsInSet ==
  ASSUME NEW S, 0 \in S, \A n \in Nat : n \in S => n + 1 \in S
  PROVE  Nat \subseteq S
<1> DEFINE T == Nat \ S
<1> SUFFICES ASSUME T # {} PROVE FALSE
  OBVIOUS
<1>1. PICK n \in T : \A m \in T : ~(<<m, n>> \in OpToRel(<, Nat))
  <2>1. T \subseteq Nat
    OBVIOUS
  <2> HIDE DEF T
  <2> QED
    BY <2>1, WFMin, NatLessThanWellFounded
<1>2. \A m \in T : ~(m < n)
  BY <1>1 DEF OpToRel
<1>3. n # 0 /\ n - 1 \in Nat /\ n - 1 < n
  OBVIOUS
<1>4. n - 1 \in S
  BY <1>2, <1>3
<1> QED
  BY <1>3, <1>4

------------------------------------------------------------------------------
(* The invariant.                                                           *)

Effect(n) == Outcome(request[n].op, n)

\* What some requests on an item leave of it, carried out in the order of their numbers.
Results(value, ids) ==
  \/ ids = {} /\ value = Absent
  \/ \E n \in ids : (\A m \in ids : m <= n) /\ value = Effect(n)

Order == \A n \in Made : \A m \in request[n].after : m < n

Stamps ==
  /\ instant # 0
  /\ \A n \in Made : request[n].stamp # Unlogged =>
       /\ request[n].stamp <= instant /\ request[n].pc = "done" /\ FileOf(n) \in DOMAIN log
       /\ \A m \in request[n].after : request[m].stamp <= request[n].stamp

Files == \A f \in DOMAIN log : f[1] # Unlogged /\ FileOf(log[f]) = f

\* The items that ReplayReconstructs is about, but for their files.
Orderly(x) ==
  \A m \in On(x) : /\ request[m].outcome \notin {"failed", "lost"}
                   /\ \A n \in On(x) : ~Overlap(m, n)

CommittedOn(x) == {n \in On(x) : request[n].outcome = "committed"}

Earlier(x, n) == {m \in CommittedOn(x) : m < n}

\* A request was accepted, and carried out or refused, as fits what there was of the item.
Fits(n, value) ==
  /\ Accepts(request[n].op, value)
  /\ request[n].outcome = "committed" => Allows(request[n].op, value)
  /\ request[n].outcome = "refused" => ~Allows(request[n].op, value)

Settled(x) ==
  Orderly(x) =>
    /\ \A n \in On(x) : request[n].outcome = "open" => \A m \in On(x) : m <= n
    /\ Results(store[x], CommittedOn(x))
    /\ \A n \in On(x) : \E value : Results(value, Earlier(x, n)) /\ Fits(n, value)

RInv == Order /\ Stamps /\ Files /\ \A x \in Items : Settled(x)

------------------------------------------------------------------------------
(* Steps.                                                                   *)

LEMMA OneResult ==
  ASSUME NEW ids \in SUBSET Nat, NEW v, NEW w, Results(v, ids), Results(w, ids)
  PROVE  v = w
<1>1. CASE ids = {}
  BY <1>1 DEF Results
<1>2. CASE ids # {}
  <2>1. PICK m \in ids : (\A k \in ids : k <= m) /\ v = Effect(m)
    BY <1>2 DEF Results
  <2>2. PICK n \in ids : (\A k \in ids : k <= n) /\ w = Effect(n)
    BY <1>2 DEF Results
  <2>3. m = n
    BY <2>1, <2>2
  <2> QED
    BY <2>1, <2>2, <2>3
<1> QED
  BY <1>1, <1>2

LEMMA OnNumbers == ASSUME Typed, NEW x PROVE On(x) \subseteq Made /\ On(x) \subseteq Nat
  BY MadeIs DEF On

\* An item whose requests are left alone stays settled.
LEMMA SettledKept ==
  ASSUME NEW x \in Items, Settled(x), store'[x] = store[x], On(x)' = On(x),
         \A n \in On(x) : /\ request'[n].op = request[n].op
                          /\ request'[n].after = request[n].after,
         Orderly(x)' => \A n \in On(x) : request'[n].outcome = request[n].outcome
  PROVE  Settled(x)'
<1> SUFFICES ASSUME Orderly(x)'
             PROVE  /\ \A n \in On(x) : request'[n].outcome = "open" => \A m \in On(x) : m <= n
                    /\ Results(store[x], CommittedOn(x))'
                    /\ \A n \in On(x) : \E value : Results(value, Earlier(x, n))' /\ Fits(n, value)'
  BY DEF Settled
<1>1. \A n \in On(x) : request'[n].outcome = request[n].outcome
  OBVIOUS
<1>2. Orderly(x)
  BY <1>1 DEF Orderly, Overlap
<1>3. CommittedOn(x)' = CommittedOn(x)
  BY <1>1 DEF CommittedOn
<1>4. \A n : Earlier(x, n)' = Earlier(x, n)
  BY <1>3 DEF Earlier
<1>5. \A v, ids : ids \subseteq On(x) /\ Results(v, ids) => Results(v, ids)'
  BY DEF Results, Effect
<1>6. CommittedOn(x) \subseteq On(x) /\ \A n : Earlier(x, n) \subseteq On(x)
  BY DEF CommittedOn, Earlier
<1>7. PICK content, ids : content = store[x] /\ ids = CommittedOn(x)
  OBVIOUS
<1>8. Results(content, ids)' /\ store'[x] = content /\ CommittedOn(x)' = ids
  BY <1>2, <1>3, <1>5, <1>6, <1>7 DEF Settled
<1>9. ASSUME NEW n \in On(x)
      PROVE  \E value : Results(value, Earlier(x, n))' /\ Fits(n, value)'
  <2>1. PICK value : Results(value, Earlier(x, n)) /\ Fits(n, value)
    BY <1>2 DEF Settled
  <2>2. PICK old : old = Earlier(x, n)
    OBVIOUS
  <2>3. Results(value, old)' /\ Earlier(x, n)' = old
    BY <1>4, <1>5, <1>6, <2>1, <2>2
  <2>4. Fits(n, value)'
    BY <1>1, <2>1 DEF Fits
  <2> QED
    BY <2>3, <2>4
<1> QED
  BY <1>1, <1>2, <1>8, <1>9 DEF Settled

\* So do the numbers and the files when no file is written.
LEMMA LogKept ==
  ASSUME Order, Stamps, Files, Past, Typed, UNCHANGED <<log, instant>>, Made' = Made,
         \A n \in Made : /\ request'[n].op = request[n].op
                         /\ request'[n].after = request[n].after
                         /\ request'[n].stamp = request[n].stamp
                         /\ request[n].pc = "done" => request'[n].pc = "done"
  PROVE  Order' /\ Stamps' /\ Files'
<1>1. Order'
  BY DEF Order
<1>2. \A n \in Made : FileOf(n)' = FileOf(n)
  BY DEF FileOf
<1>3. Stamps'
  BY <1>2 DEF Stamps, Past
<1>4. Files'
  BY <1>2 DEF Files, Typed
<1> QED
  BY <1>1, <1>3, <1>4

LEMMA RSettledKept ==
  ASSUME Typed, GoOn, NEW x \in Items, Settled(x), store'[x] = store[x],
         Orderly(x)' => \A n \in On(x) : request'[n].outcome = request[n].outcome
  PROVE  Settled(x)'
BY OnKept, SettledKept DEF GoOn

LEMMA ExecuteReplay ==
  ASSUME IInv, RInv, NEW n \in Made, Execute(n)
  PROVE  RInv'
<1> DEFINE r == request[n]
<1>1. /\ r \in Requests /\ r.pc = "execute" /\ r.item \in Items /\ n \in 1..MaxRequests
      /\ r.outcome = "open" /\ Typed /\ UNCHANGED <<log, instant>>
  BY RequestType DEF IInv, Execute, Outcomes
<1>2. PICK o \in {"committed", "refused", "failed"}, a \in BOOLEAN :
        /\ Ends(n, o, a)
        /\ \/ /\ o = "committed" /\ Allows(r.op, store[r.item])
              /\ store' = [store EXCEPT ![r.item] = Outcome(r.op, n)]
           \/ o = "refused" /\ ~Allows(r.op, store[r.item]) /\ store' = store
           \/ o = "failed" /\ store' = store
  <2>1. CASE /\ Allows(r.op, store[r.item])
             /\ store' = [store EXCEPT ![r.item] = Outcome(r.op, n)]
             /\ Ends(n, "committed", ~Silent(r.op, store[r.item]))
    <3>1. PICK a \in BOOLEAN : a = ~Silent(r.op, store[r.item])
      BY DEF Silent
    <3> QED
      BY <2>1, <3>1
  <2>2. CASE ~Allows(r.op, store[r.item]) /\ Ends(n, "refused", FALSE) /\ UNCHANGED store
    BY <2>2
  <2>3. CASE Ends(n, "failed", FALSE) /\ UNCHANGED store
    BY <2>3
  <2> QED
    BY <2>1, <2>2, <2>3 DEF Execute
<1> DEFINE new == [r EXCEPT !.outcome = o, !.announced = a,
                            !.pc = IF a THEN "notify" ELSE "log"]
<1>3. /\ new \in Requests /\ request' = [request EXCEPT ![n] = new]
      /\ new.op = r.op /\ new.item = r.item /\ new.after = r.after /\ new.stamp = r.stamp
      /\ new.outcome = o
  BY <1>1, <1>2 DEF Ends, Requests
<1>4. /\ Made' = Made /\ request'[n] = new
      /\ \A m \in Made \ {n} : request'[m] = request[m]
  BY <1>3, GoesOn DEF IInv
<1> HIDE DEF new
<1>5. GoOn /\ \A m \in Made : /\ request'[m].stamp = request[m].stamp
                              /\ request[m].pc = "done" => request'[m].pc = "done"
  BY <1>1, <1>3, <1>4 DEF GoOn
<1>6. Order' /\ Stamps' /\ Files'
  <2>1. Order /\ Stamps /\ Files /\ Past /\ Typed /\ UNCHANGED <<log, instant>>
    BY <1>1 DEF RInv, IInv
  <2>2. Made' = Made
        /\ \A m \in Made : /\ request'[m].op = request[m].op
                           /\ request'[m].after = request[m].after
                           /\ request'[m].stamp = request[m].stamp
                           /\ request[m].pc = "done" => request'[m].pc = "done"
    BY <1>5 DEF GoOn
  <2> QED
    BY <2>1, <2>2, LogKept
<1>7. ASSUME NEW x \in Items, x # r.item PROVE Settled(x)'
  <2>1. store'[x] = store[x]
    BY <1>1, <1>2, <1>7 DEF Typed
  <2>2. \A m \in On(x) : request'[m].outcome = request[m].outcome
    BY <1>4, <1>7 DEF On
  <2> QED
    BY <1>1, <1>5, <2>1, <2>2, RSettledKept DEF RInv
<1>8. ASSUME NEW x \in Items, x = r.item PROVE Settled(x)'
  <2>1. SUFFICES ASSUME Orderly(x)'
                 PROVE  /\ \A m \in On(x) : request'[m].outcome = "open" => \A k \in On(x) : k <= m
                        /\ Results(store[x], CommittedOn(x))'
                        /\ \A m \in On(x) : \E value : /\ Results(value, Earlier(x, m))'
                                                       /\ Fits(m, value)'
    BY <1>1, <1>5, OnKept DEF Settled
  <2>2. On(x)' = On(x) /\ On(x) \subseteq Made /\ n \in On(x)
    BY <1>1, <1>5, <1>8, OnKept DEF On
  <2>3. Orderly(x) /\ o # "failed"
    <3>1. \A m \in On(x) : request'[m].outcome \notin {"failed", "lost"}
                        /\ \A k \in On(x) : ~Overlap(m, k)'
      BY <2>1, <2>2 DEF Orderly
    <3>2. \A m, k \in On(x) : Overlap(m, k)' <=> Overlap(m, k)
      BY <1>5, <2>2 DEF GoOn, Overlap
    <3>3. \A m \in On(x) : request[m].outcome \notin {"failed", "lost"}
      BY <1>1, <1>4, <2>2, <3>1
    <3> QED
      BY <1>3, <1>4, <2>2, <3>1, <3>2, <3>3 DEF Orderly
  <2>4. /\ \A m \in On(x) : request[m].outcome = "open" => \A k \in On(x) : k <= m
        /\ Results(store[x], CommittedOn(x))
        /\ \A m \in On(x) : \E value : Results(value, Earlier(x, m)) /\ Fits(m, value)
    BY <2>3 DEF RInv, Settled
  <2>5. \A m \in On(x) : m \in Nat /\ m <= n
    BY <1>1, <2>2, <2>4, OnNumbers
  <2>6. \A m \in On(x) : m # n => request[m].outcome # "open" /\ m < n
    <3> SUFFICES ASSUME NEW m \in On(x), m # n
                 PROVE  request[m].outcome # "open" /\ m < n
      OBVIOUS
    <3>1. m <= n /\ m \in Nat /\ n \in Nat
      BY <1>1, <2>5
    <3>2. ~(n <= m)
      BY <3>1
    <3> QED
      BY <2>2, <2>4, <3>1, <3>2
  <2>7. CommittedOn(x) = Earlier(x, n)
    <3>1. \A m \in CommittedOn(x) : m \in On(x) /\ m # n
      BY <1>1 DEF CommittedOn
    <3> QED
      BY <2>6, <3>1 DEF Earlier
  <2>8. \A m \in On(x) : Earlier(x, m)' = Earlier(x, m) /\ Earlier(x, m) \subseteq On(x)
    <3> SUFFICES ASSUME NEW m \in On(x)
                 PROVE  Earlier(x, m)' = Earlier(x, m) /\ Earlier(x, m) \subseteq On(x)
      OBVIOUS
    <3>1. m \in Nat /\ n \in Nat /\ ~(n < m)
      BY <1>1, <2>5
    <3>2. \A k \in On(x) : k # n => request'[k] = request[k]
      BY <1>4, <2>2
    <3> QED
      BY <2>2, <3>1, <3>2 DEF Earlier, CommittedOn
  <2>9. \A m \in On(x) : Effect(m)' = Effect(m)
    BY <1>5, <2>2 DEF GoOn, Effect
  <2>10. \A v, ids : ids \subseteq On(x) /\ Results(v, ids) => Results(v, ids)'
    BY <2>9 DEF Results
  <2>11. PICK content, old : content = store[x] /\ old = CommittedOn(x)
    OBVIOUS
  <2>12. old \subseteq On(x) /\ Results(content, old)'
    BY <2>4, <2>10, <2>11 DEF CommittedOn
  <2>13. Results(store[x], CommittedOn(x))'
    <3>1. CASE o = "committed"
      <4>1. store'[x] = Effect(n)
        BY <1>1, <1>2, <1>8, <3>1 DEF Typed, Effect
      <4>2. n \in CommittedOn(x)' /\ CommittedOn(x)' \subseteq On(x)
        BY <1>3, <1>4, <2>2, <3>1 DEF CommittedOn
      <4> QED
        BY <2>2, <2>5, <2>9, <4>1, <4>2 DEF Results
    <3>2. CASE o = "refused"
      <4>1. store'[x] = content
        BY <1>2, <2>11, <3>2
      <4>2. CommittedOn(x)' = old
        BY <1>1, <1>3, <1>4, <2>2, <2>11, <3>2 DEF CommittedOn
      <4> QED
        BY <2>12, <4>1, <4>2
    <3> QED
      BY <2>3, <3>1, <3>2
  <2>14. ASSUME NEW m \in On(x)
         PROVE  \E value : Results(value, Earlier(x, m))' /\ Fits(m, value)'
    <3>1. CASE m = n
      <4>1. PICK value : Results(value, Earlier(x, n)) /\ Fits(n, value)
        BY <2>2, <2>4
      <4>2. Earlier(x, n) \in SUBSET Nat
        BY <2>5, <2>8, <2>2
      <4>3. value = store[x]
        BY <2>4, <2>7, <4>1, <4>2, OneResult
      <4>4. Fits(n, value)'
        <5>1. request'[n].op = r.op /\ request'[n].outcome = o
          BY <1>3, <1>4
        <5>2. Accepts(r.op, value)
          BY <4>1 DEF Fits
        <5>3. (o = "committed" => Allows(r.op, value)) /\ (o = "refused" => ~Allows(r.op, value))
          BY <1>2, <1>8, <4>3
        <5> QED
          BY <5>1, <5>2, <5>3 DEF Fits
      <4>5. Earlier(x, n)' = old
        BY <2>2, <2>7, <2>8, <2>11
      <4> QED
        BY <2>11, <2>12, <3>1, <4>3, <4>4, <4>5
    <3>2. CASE m # n
      <4>1. PICK value : Results(value, Earlier(x, m)) /\ Fits(m, value)
        BY <2>4
      <4>2. PICK before : before = Earlier(x, m)
        OBVIOUS
      <4>3. Results(value, before)' /\ Earlier(x, m)' = before
        BY <2>8, <2>10, <4>1, <4>2
      <4>4. Fits(m, value)'
        BY <1>4, <2>2, <3>2, <4>1 DEF Fits
      <4> QED
        BY <4>3, <4>4
    <3> QED
      BY <3>1, <3>2
  <2>15. \A m \in On(x) : request'[m].outcome = "open" => \A k \in On(x) : k <= m
    BY <1>3, <1>4, <2>2, <2>6
  <2> QED
    BY <2>13, <2>14, <2>15
<1> QED
  BY <1>6, <1>7, <1>8 DEF RInv

\* A step that changes no outcome, nor what is stored.
LEMMA OutcomesKept ==
  ASSUME IInv, RInv, GoOn, store' = store,
         \A x \in Items : Orderly(x)' =>
           \A n \in On(x) : request'[n].outcome = request[n].outcome
  PROVE  \A x \in Items : Settled(x)'
BY RSettledKept DEF IInv, RInv

LEMMA NotifyReplay ==
  ASSUME IInv, RInv, NEW n \in Made, Notify(n)
  PROVE  RInv'
<1> DEFINE new == [request[n] EXCEPT !.pc = "log"]
<1>1. /\ request[n] \in Requests /\ request[n].pc = "notify"
      /\ UNCHANGED <<store, log, instant>>
  BY RequestType DEF IInv, Notify
<1>2. request' = [request EXCEPT ![n] = new]
  BY <1>1 DEF Notify
<1>3. /\ new \in Requests /\ new.op = request[n].op /\ new.item = request[n].item
      /\ new.after = request[n].after /\ new.stamp = request[n].stamp
      /\ new.outcome = request[n].outcome
  BY <1>1 DEF Requests
<1>4. /\ Made' = Made /\ request'[n] = new
      /\ \A m \in Made \ {n} : request'[m] = request[m]
  BY <1>2, <1>3, GoesOn DEF IInv
<1> HIDE DEF new
<1>5. GoOn /\ \A m \in Made : /\ request'[m].stamp = request[m].stamp
                              /\ request'[m].outcome = request[m].outcome
                              /\ request[m].pc = "done" => request'[m].pc = "done"
  BY <1>1, <1>3, <1>4 DEF GoOn
<1>6. Order' /\ Stamps' /\ Files'
  <2>1. Order /\ Stamps /\ Files /\ Past /\ Typed /\ UNCHANGED <<log, instant>>
    BY <1>1 DEF RInv, IInv
  <2>2. Made' = Made
        /\ \A m \in Made : /\ request'[m].op = request[m].op
                           /\ request'[m].after = request[m].after
                           /\ request'[m].stamp = request[m].stamp
                           /\ request[m].pc = "done" => request'[m].pc = "done"
    BY <1>5 DEF GoOn
  <2> QED
    BY <2>1, <2>2, LogKept
<1>7. \A x \in Items : Settled(x)'
  BY <1>1, <1>5, OutcomesKept, OnNumbers DEF IInv
<1> QED
  BY <1>6, <1>7 DEF RInv

\* A request is over, its file written or not.
LEMMA FinishedReplay ==
  ASSUME IInv, RInv, NEW n \in Made, request[n].pc = "log", NEW stamp \in Nat,
         NEW whole \in BOOLEAN, Finished(n, stamp, whole), instant' \in Nat, instant <= instant', instant' # 0,
         stamp # Unlogged =>
           /\ stamp = instant'
           /\ log' = Filed(<<stamp, Name(request[n].op)>>, n),
         stamp = Unlogged => log' = log
  PROVE  RInv'
<1> DEFINE r == request[n]
           new == [r EXCEPT !.pc = "done", !.stamp = stamp, !.whole = whole]
           file == <<stamp, Name(r.op)>>
<1>1. r \in Requests /\ r.pc = "log" /\ store' = store /\ Typed /\ Past /\ instant \in Nat
  BY RequestType DEF IInv, Finished, Typed
<1>2. /\ new \in Requests /\ request' = [request EXCEPT ![n] = new]
      /\ new.op = r.op /\ new.item = r.item /\ new.after = r.after /\ new.pc = "done"
      /\ new.stamp = stamp /\ new.outcome = r.outcome
  BY <1>1 DEF Finished, Requests
<1>3. /\ Made' = Made /\ request'[n] = new /\ \A m \in Made \ {n} : request'[m] = request[m]
  BY <1>2, GoesOn DEF IInv
<1> HIDE DEF new
<1>4. GoOn /\ \A m \in Made : request'[m].outcome = request[m].outcome
  BY <1>2, <1>3 DEF GoOn
<1>5. \A x \in Items : Settled(x)'
  BY <1>1, <1>4, OutcomesKept, OnNumbers
<1>6. Order'
  BY <1>4 DEF GoOn, Order, RInv
<1>7. r.stamp = Unlogged
  BY <1>1 DEF RInv, Stamps
<1>8. FileOf(n)' = file /\ \A m \in Made \ {n} : FileOf(m)' = FileOf(m)
  BY <1>2, <1>3 DEF FileOf
<1>9. /\ DOMAIN log' = IF stamp = Unlogged THEN DOMAIN log ELSE DOMAIN log \union {file}
      /\ \A f \in DOMAIN log' : \/ f = file /\ log'[f] = n /\ stamp # Unlogged
                                \/ f \in DOMAIN log /\ log'[f] = log[f]
  BY DEF Filed
<1>10. Files'
  <2> SUFFICES ASSUME NEW f \in DOMAIN log'
               PROVE  f[1] # Unlogged /\ FileOf(log[f])' = f
    BY DEF Files
  <2>1. CASE f = file /\ log'[f] = n /\ stamp # Unlogged
    BY <1>8, <2>1 DEF FileOf
  <2>2. CASE f \in DOMAIN log /\ log'[f] = log[f]
    <3>1. f[1] # Unlogged /\ FileOf(log[f]) = f /\ log[f] \in Made
      BY <1>1, <2>2 DEF RInv, Files, Typed
    <3>2. log[f] # n
      BY <1>7, <3>1 DEF FileOf
    <3>3. FileOf(log[f])' = FileOf(log[f])
      BY <1>3, <2>2, <3>1, <3>2 DEF FileOf
    <3> QED
      BY <3>1, <3>3
  <2> QED
    BY <1>9, <2>1, <2>2
<1>11. Stamps'
  <2> SUFFICES ASSUME NEW m \in Made, request'[m].stamp # Unlogged
               PROVE  /\ request'[m].stamp <= instant' /\ request'[m].pc = "done"
                      /\ FileOf(m)' \in DOMAIN log'
                      /\ \A k \in request'[m].after : request'[k].stamp <= request'[m].stamp
    BY <1>3 DEF Stamps
  <2>1. \A k \in Made : k # n => /\ request[k].stamp \in Nat
                                 /\ request[k].stamp # Unlogged => request[k].stamp <= instant
    BY RequestType, <1>1 DEF RInv, Stamps, Requests
  <2>2. \A k \in request[m].after : k \in Made /\ k # n /\ request'[k].stamp = request[k].stamp
    BY <1>1, <1>3 DEF Past
  <2>3. CASE m = n
    <3>1. request'[m].stamp = stamp /\ request'[m].pc = "done" /\ request'[m].after = r.after
      BY <1>2, <1>3, <2>3
    <3>2. stamp = instant' /\ file \in DOMAIN log'
      BY <1>9, <2>3, <3>1
    <3>3. \A k \in r.after : request'[k].stamp <= instant'
      BY <1>1, <2>1, <2>2, <2>3 DEF Unlogged
    <3> QED
      BY <1>8, <2>3, <3>1, <3>2, <3>3
  <2>4. CASE m # n
    <3>1. request'[m] = request[m] /\ request[m].stamp \in Nat
      BY <1>3, <2>1, <2>4
    <3>2. /\ request[m].stamp <= instant /\ request[m].pc = "done" /\ FileOf(m) \in DOMAIN log
          /\ \A k \in request[m].after : request[k].stamp <= request[m].stamp
      BY <3>1 DEF RInv, Stamps
    <3>3. request[m].stamp <= instant'
      BY <1>1, <3>1, <3>2
    <3> QED
      BY <1>8, <1>9, <2>2, <2>4, <3>1, <3>2, <3>3
  <2> QED
    BY <2>3, <2>4
<1> QED
  BY <1>5, <1>6, <1>10, <1>11 DEF RInv

LEMMA LogReplay ==
  ASSUME IInv, RInv, NEW n \in Made, WriteLog(n) \/ WriteLogFails(n)
  PROVE  RInv'
<1>1. instant \in Nat /\ instant # 0 /\ request[n].pc = "log"
  BY DEF IInv, Typed, RInv, Stamps, WriteLog, WriteLogFails
<1>2. ASSUME NEW now \in {instant, instant + 1}, NEW whole \in BOOLEAN, instant' = now,
             log' = Filed(<<now, Name(request[n].op)>>, n), Finished(n, now, whole)
      PROVE  RInv'
  <2>1. now \in Nat /\ instant <= now /\ now # 0 /\ now # Unlogged
    BY <1>1 DEF Unlogged
  <2> QED
    BY <1>1, <1>2, <2>1, FinishedReplay
<1>3. ASSUME instant' = instant, log' = log, Finished(n, Unlogged, FALSE) PROVE RInv'
  <2>1. Unlogged \in Nat /\ instant' \in Nat /\ instant <= instant' /\ instant' # 0
    BY <1>1, <1>3 DEF Unlogged
  <2> QED
    BY <1>1, <1>3, <2>1, FinishedReplay
<1>4. CASE WriteLog(n)
  <2>1. PICK whole \in BOOLEAN : whole = Intact(request[n].op)
    BY IntactType
  <2> QED
    BY <1>2, <1>4, <2>1 DEF WriteLog
<1>5. CASE WriteLogFails(n)
  BY <1>2, <1>3, <1>5 DEF WriteLogFails
<1> QED
  BY <1>4, <1>5

LEMMA BeginReplay ==
  ASSUME IInv, RInv, Begin
  PROVE  RInv'
<1>1. PICK op \in Operations, y \in Items :
        Accepts(op, store[y]) /\ request' = Append(request, RequestOf(op, y))
  BY DEF Begin
<1>2. UNCHANGED <<store, log, instant>> /\ Typed /\ Past /\ Outcomes
  BY DEF Begin, IInv
<1> DEFINE new == RequestOf(op, y)
<1>3. /\ new \in Requests /\ new.outcome = "open" /\ new.item = y /\ new.op = op
      /\ new.after = Made \ Running /\ new.stamp = Unlogged
  <2>1. Made \ Running \in SUBSET Ids
    BY <1>2, MadeIs
  <2> QED
    BY <2>1 DEF RequestOf, Requests, Unlogged
<1> HIDE DEF new
<1>4. /\ request \in Seq(Requests) /\ Made = 1..Len(request) /\ Len(request) \in Nat
      /\ DOMAIN request = 1..Len(request)
  BY <1>2, MadeIs DEF Typed, Made
<1>n. PICK n : n = Len(request) + 1
  OBVIOUS
<1>5. /\ Made' = Made \union {n} /\ request'[n] = new
      /\ \A m \in Made : request'[m] = request[m] /\ m < n
  <2>1. /\ request' = Append(request, new) /\ DOMAIN request' = 1..n
        /\ request'[n] = new /\ \A m \in DOMAIN request : request'[m] = request[m]
    BY <1>1, <1>3, <1>4, <1>n, Appended DEF new
  <2> QED
    BY <1>4, <1>n, <2>1 DEF Made
<1>6. n \in Nat /\ n \notin Made
  BY <1>4, <1>n
<1>7. Order' /\ Stamps' /\ Files'
  <2>1. \A m \in Made : m \in Nat
    BY <1>4
  <2>2. Order'
    BY <1>3, <1>5 DEF Order, RInv
  <2>3. \A m \in Made : FileOf(m)' = FileOf(m)
    BY <1>5 DEF FileOf
  <2>4. Stamps'
    BY <1>2, <1>3, <1>5, <2>3 DEF Stamps, RInv, Past
  <2>5. Files'
    BY <1>2, <2>3 DEF Files, RInv, Typed
  <2> QED
    BY <2>2, <2>4, <2>5
<1>8. ASSUME NEW x \in Items, x # y PROVE Settled(x)'
  <2>1. On(x)' = On(x) /\ On(x) \subseteq Made
    BY <1>3, <1>5, <1>8 DEF On
  <2> QED
    BY <1>2, <1>5, <2>1, SettledKept DEF RInv
<1>9. ASSUME NEW x \in Items, x = y PROVE Settled(x)'
  <2>1. SUFFICES ASSUME Orderly(x)'
                 PROVE  /\ \A m \in On(x)' : request'[m].outcome = "open" =>
                             \A k \in On(x)' : k <= m
                        /\ Results(store[x], CommittedOn(x))'
                        /\ \A m \in On(x)' : \E value : /\ Results(value, Earlier(x, m))'
                                                        /\ Fits(m, value)'
    BY DEF Settled
  <2>2. /\ On(x)' = On(x) \union {n} /\ On(x) \subseteq Made
        /\ \A m \in On(x) : request'[m] = request[m] /\ m \in Nat /\ m < n
    BY <1>3, <1>4, <1>5, <1>9 DEF On
  <2>3. \A m \in On(x) : m \in Made \ Running
    <3> SUFFICES ASSUME NEW m \in On(x) PROVE m \in Made \ Running
      OBVIOUS
    <3>1. m # n /\ n \notin request[m].after /\ request'[m].after = request[m].after
      BY <1>2, <1>6, <2>2 DEF Past
    <3>2. ~Overlap(m, n)'
      BY <2>1, <2>2 DEF Orderly
    <3>3. m \in request'[n].after
      BY <3>1, <3>2 DEF Overlap
    <3> QED
      BY <1>3, <1>5, <3>3
  <2>4. Orderly(x)
    <3>1. \A m \in On(x) : /\ request'[m].outcome \notin {"failed", "lost"}
                           /\ \A k \in On(x) : ~Overlap(m, k)'
      BY <2>1, <2>2 DEF Orderly
    <3> QED
      BY <2>2, <3>1 DEF Orderly, Overlap
  <2>5. /\ Results(store[x], CommittedOn(x))
        /\ \A m \in On(x) : \E value : Results(value, Earlier(x, m)) /\ Fits(m, value)
    BY <2>4 DEF RInv, Settled
  <2>6. \A m \in On(x) : request[m].outcome # "open"
    BY <1>2, <2>2, <2>3 DEF Outcomes, Running
  <2>7. CommittedOn(x)' = CommittedOn(x) /\ CommittedOn(x) \subseteq On(x)
    BY <1>3, <1>5, <2>2 DEF CommittedOn
  <2>8. /\ Earlier(x, n)' = CommittedOn(x)
        /\ \A m : Earlier(x, m)' = Earlier(x, m) /\ Earlier(x, m) \subseteq On(x)
    BY <2>2, <2>7 DEF Earlier
  <2>9. \A v, ids : ids \subseteq On(x) /\ Results(v, ids) => Results(v, ids)'
    BY <2>2 DEF Results, Effect
  <2>10. PICK old, content : old = CommittedOn(x) /\ content = store[x]
    OBVIOUS
  <2>11. store'[x] = content /\ CommittedOn(x)' = old /\ Earlier(x, n)' = old
    BY <1>2, <2>7, <2>8, <2>10
  <2>12. Results(content, old)'
    BY <2>5, <2>7, <2>9, <2>10
  <2>13. ASSUME NEW m \in On(x)'
         PROVE  \E value : Results(value, Earlier(x, m))' /\ Fits(m, value)'
    <3>1. CASE m = n
      <4>1. Fits(n, content)'
        BY <1>1, <1>3, <1>5, <1>9, <2>10 DEF Fits
      <4> QED
        BY <2>11, <2>12, <3>1, <4>1
    <3>2. CASE m \in On(x)
      <4>1. PICK value : Results(value, Earlier(x, m)) /\ Fits(m, value)
        BY <2>5, <3>2
      <4>2. PICK before : before = Earlier(x, m)
        OBVIOUS
      <4>3. Results(value, before)' /\ Earlier(x, m)' = before
        BY <2>8, <2>9, <4>1, <4>2
      <4>4. Fits(m, value)'
        BY <2>2, <3>2, <4>1 DEF Fits
      <4> QED
        BY <4>3, <4>4
    <3> QED
      BY <2>2, <3>1, <3>2
  <2>14. \A m \in On(x)' : request'[m].outcome = "open" => \A k \in On(x)' : k <= m
    BY <1>5, <1>6, <2>2, <2>6
  <2> QED
    BY <2>11, <2>12, <2>13, <2>14
<1> QED
  BY <1>7, <1>8, <1>9 DEF RInv

LEMMA ProcessReplay ==
  ASSUME IInv, RInv, UNCHANGED <<store, request, log, instant>>
  PROVE  RInv'
<1>1. GoOn /\ \A x : On(x)' = On(x)
  BY DEF GoOn, Made, On
<1>2. Order' /\ Stamps' /\ Files'
  BY <1>1 DEF GoOn, Order, Stamps, Files, FileOf, RInv
<1>3. \A x \in Items : Settled(x)'
  BY <1>1, OutcomesKept
<1> QED
  BY <1>2, <1>3 DEF RInv

LEMMA CrashReplay ==
  ASSUME IInv, RInv, Crash
  PROVE  RInv'
<1>1. UNCHANGED <<store, log, instant>> /\ Typed /\ Past
  BY DEF Crash, IInv
<1>2. /\ Made = 1..Len(request) /\ Len(request) \in Nat /\ request \in Seq(Requests)
  BY <1>1, MadeIs DEF Typed
<1> DEFINE Hit == Running \union Range(queue)
<1>3. request' = [n \in Made |->
                    IF n \in Hit THEN [request[n] EXCEPT !.outcome = "lost", !.pc = "done"]
                    ELSE request[n]]
  BY DEF Crash
<1>4. ASSUME NEW n \in Made
      PROVE  /\ request'[n].op = request[n].op /\ request'[n].item = request[n].item
             /\ request'[n].after = request[n].after /\ request'[n].stamp = request[n].stamp
             /\ request'[n].pc = "done"
             /\ request'[n].outcome # "lost" => request'[n].outcome = request[n].outcome
  <2>1. request[n] \in Requests
    BY <1>1, RequestType
  <2>2. n \notin Hit => request[n].pc = "done"
    BY DEF Running
  <2> HIDE DEF Hit
  <2>3. CASE n \in Hit
    <3>1. request'[n] = [request[n] EXCEPT !.outcome = "lost", !.pc = "done"]
      BY <1>3, <2>3
    <3> QED
      BY <2>1, <2>3, <3>1 DEF Requests
  <2>4. CASE n \notin Hit
    BY <1>3, <2>1, <2>2, <2>4
  <2> QED
    BY <2>3, <2>4
<1>5. Made' = Made
  BY <1>3 DEF Made
<1> HIDE DEF Hit
<1>6. GoOn
  BY <1>4, <1>5 DEF GoOn
<1>7. Order' /\ Stamps' /\ Files'
  <2>1. Order /\ Stamps /\ Files /\ Past /\ Typed /\ UNCHANGED <<log, instant>>
    BY <1>1 DEF RInv
  <2> QED
    BY <1>4, <1>5, <2>1, LogKept
<1>8. \A x \in Items : Settled(x)'
  <2>1. ASSUME NEW x \in Items, Orderly(x)'
        PROVE  \A n \in On(x) : request'[n].outcome = request[n].outcome
    BY <1>1, <1>4, <1>6, <2>1, OnKept DEF Orderly
  <2> QED
    BY <1>1, <1>6, <2>1, OutcomesKept
<1> QED
  BY <1>7, <1>8 DEF RInv

LEMMA InitReplay == Init => RInv
<1> SUFFICES ASSUME Init PROVE RInv
  OBVIOUS
<1>1. /\ Made = {} /\ DOMAIN log = {} /\ instant = 1
      /\ \A x \in Items : store[x] = Absent
  BY DEF Init, Made
<1>2. \A x : On(x) = {} /\ CommittedOn(x) = {}
  BY <1>1 DEF On, CommittedOn
<1> QED
  BY <1>1, <1>2 DEF RInv, Order, Stamps, Files, Settled, Results

LEMMA StepReplay == IInv /\ RInv /\ [Next]_vars => RInv'
<1> SUFFICES ASSUME IInv, RInv, [Next]_vars PROVE RInv'
  OBVIOUS
<1>1. CASE UNCHANGED vars
  BY <1>1, ProcessReplay DEF vars
<1>2. CASE Begin
  BY <1>2, BeginReplay
<1>3. ASSUME NEW n \in Ids, Continue(n) PROVE RInv'
  BY <1>3, ExecuteReplay, NotifyReplay, LogReplay DEF Continue
<1>4. CASE Process
  BY <1>4, ProcessReplay DEF Process, Handle
<1>5. CASE Crash
  BY <1>5, CrashReplay
<1> QED
  BY <1>1, <1>2, <1>3, <1>4, <1>5 DEF Next

LEMMA ReplayInductive == Spec => [](IInv /\ RInv)
<1>1. Init => IInv /\ RInv
  BY InitInv, InitReplay
<1>2. (IInv /\ RInv) /\ [Next]_vars => (IInv /\ RInv)'
  BY StepInv, StepReplay
<1> QED
  BY <1>1, <1>2, PTL DEF Spec

------------------------------------------------------------------------------
(* Replay.                                                                  *)

State == [Items -> 0..MaxRequests]

\* The file is there, and of a request on the item.
Meets(name, x) == name \in DOMAIN log /\ log[name] \in On(x)

\* What the file of a request makes of what there is of the item.
Step(n, value) ==
  IF request[n].whole /\ Accepts(request[n].op, value) /\ Allows(request[n].op, value)
  THEN Effect(n) ELSE value

LEMMA FileReplayed ==
  ASSUME Typed, NEW state \in State, NEW name
  PROVE  /\ ReplayFile(state, name) \in State
         /\ \A x \in Items :
              ReplayFile(state, name)[x] =
                IF Meets(name, x) THEN Step(log[name], state[x]) ELSE state[x]
<1>1. CASE name \notin DOMAIN log
  BY <1>1 DEF ReplayFile, Meets
<1>2. CASE name \in DOMAIN log
  <2>1. PICK n \in Made : n = log[name]
    BY <1>2 DEF Typed
  <2>2. request[n].item \in Items /\ n \in 1..MaxRequests
    BY <2>1, RequestType
  <2>3. Outcome(request[n].op, n) \in 0..MaxRequests
    BY <2>2, Bounds DEF Outcome, Absent
  <2>4. \A x \in Items : Meets(name, x) <=> request[n].item = x
    BY <1>2, <2>1 DEF Meets, On
  <2>5. ReplayFile(state, name) =
          IF /\ request[n].whole /\ Accepts(request[n].op, state[request[n].item])
             /\ Allows(request[n].op, state[request[n].item])
          THEN [state EXCEPT ![request[n].item] = Outcome(request[n].op, n)] ELSE state
    BY <1>2, <2>1 DEF ReplayFile, Replayed
  <2> QED
    BY <2>1, <2>2, <2>3, <2>4, <2>5 DEF State, Effect, Step
<1> QED
  BY <1>1, <1>2

\* Of the files of one instant, at most one of them of a request on the item.
LEMMA InstantReplayed ==
  ASSUME Typed, NEW state \in State, NEW at, NEW x \in Items
  PROVE  /\ ReplayInstant(state, at) \in State
         /\ (\A name \in FileNames : ~Meets(<<at, name>>, x)) =>
              ReplayInstant(state, at)[x] = state[x]
         /\ \A name \in FileNames :
              /\ Meets(<<at, name>>, x)
              /\ \A other \in FileNames \ {name} : ~Meets(<<at, other>>, x)
              => ReplayInstant(state, at)[x] = Step(log[<<at, name>>], state[x])
<1> DEFINE After(value, name) ==
             IF Meets(<<at, name>>, x) THEN Step(log[<<at, name>>], value) ELSE value
           s1 == ReplayFile(state, <<at, "graph">>)
           s2 == ReplayFile(s1, <<at, "realDelete">>)
           s3 == ReplayFile(s2, <<at, "register">>)
           s4 == ReplayFile(s3, <<at, "statusUpdate">>)
           s5 == ReplayFile(s4, <<at, "update">>)
<1>1. s1 \in State /\ s1[x] = After(state[x], "graph")
  BY FileReplayed
<1>2. s2 \in State /\ s2[x] = After(s1[x], "realDelete")
  BY <1>1, FileReplayed
<1>3. s3 \in State /\ s3[x] = After(s2[x], "register")
  BY <1>2, FileReplayed
<1>4. s4 \in State /\ s4[x] = After(s3[x], "statusUpdate")
  BY <1>3, FileReplayed
<1>5. s5 \in State /\ s5[x] = After(s4[x], "update")
  BY <1>4, FileReplayed
<1>6. ReplayInstant(state, at) = s5
  BY DEF ReplayInstant
<1> HIDE DEF s1, s2, s3, s4, s5, After
<1>7. /\ \A name \in FileNames : \A value : ~Meets(<<at, name>>, x) => After(value, name) = value
      /\ \A name \in FileNames : \A value :
           Meets(<<at, name>>, x) => After(value, name) = Step(log[<<at, name>>], value)
  BY DEF After
<1>8. (\A name \in FileNames : ~Meets(<<at, name>>, x)) => s5[x] = state[x]
  BY <1>1, <1>2, <1>3, <1>4, <1>5, <1>7 DEF FileNames
<1>9. ASSUME NEW name \in FileNames, Meets(<<at, name>>, x),
             \A other \in FileNames \ {name} : ~Meets(<<at, other>>, x)
      PROVE  s5[x] = Step(log[<<at, name>>], state[x])
  <2>1. CASE name = "graph"
    BY <1>1, <1>2, <1>3, <1>4, <1>5, <1>7, <1>9, <2>1 DEF FileNames
  <2>2. CASE name = "realDelete"
    BY <1>1, <1>2, <1>3, <1>4, <1>5, <1>7, <1>9, <2>2 DEF FileNames
  <2>3. CASE name = "register"
    BY <1>1, <1>2, <1>3, <1>4, <1>5, <1>7, <1>9, <2>3 DEF FileNames
  <2>4. CASE name = "statusUpdate"
    BY <1>1, <1>2, <1>3, <1>4, <1>5, <1>7, <1>9, <2>4 DEF FileNames
  <2>5. CASE name = "update"
    BY <1>1, <1>2, <1>3, <1>4, <1>5, <1>7, <1>9, <2>5 DEF FileNames
  <2> QED
    BY <2>1, <2>2, <2>3, <2>4, <2>5 DEF FileNames
<1> QED
  BY <1>5, <1>6, <1>8, <1>9

\* The recursion over the instants is well defined.
LEMMA UpTo ==
  ASSUME Typed
  PROVE  /\ ReplayedUpTo[0] = [x \in Items |-> Absent]
         /\ \A k \in Nat : k + 1 <= instant =>
              ReplayedUpTo[k + 1] = ReplayInstant(ReplayedUpTo[k], k + 1)
<1> DEFINE Body(g, at) ==
             IF at = 0 THEN [x \in Items |-> Absent] ELSE ReplayInstant(g[at - 1], at)
           S == {k \in Nat : \E g : g = [at \in 0..k |-> Body(g, at)]}
<1>1. 0 \in S
  <2>1. PICK g : g = [at \in 0..0 |-> [x \in Items |-> Absent]]
    OBVIOUS
  <2>2. g = [at \in 0..0 |-> Body(g, at)]
    BY <2>1
  <2> QED
    BY <2>2
<1>2. ASSUME NEW k \in S PROVE k + 1 \in S
  <2>1. PICK g : g = [at \in 0..k |-> Body(g, at)]
    OBVIOUS
  <2>2. PICK h : h = [at \in 0..(k + 1) |->
                        IF at = k + 1 THEN ReplayInstant(g[k], k + 1) ELSE g[at]]
    OBVIOUS
  <2>3. ASSUME NEW at \in 0..(k + 1) PROVE h[at] = Body(h, at)
    <3>1. CASE at = k + 1
      BY <2>2, <3>1
    <3>2. CASE at # k + 1
      BY <2>1, <2>2, <3>2
    <3> QED
      BY <3>1, <3>2
  <2>4. h = [at \in 0..(k + 1) |-> Body(h, at)]
    BY <2>2, <2>3
  <2> QED
    BY <2>4
<1>3. instant \in S
  <2>1. Nat \subseteq S
    <3> HIDE DEF S
    <3> QED
      BY <1>1, <1>2, NaturalsInSet
  <2> QED
    BY <2>1 DEF Typed
<1>4. \E g : g = [at \in 0..instant |-> Body(g, at)]
  BY <1>3
<1>5. ReplayedUpTo = CHOOSE g : g = [at \in 0..instant |-> Body(g, at)]
  BY DEF ReplayedUpTo
<1>6. ReplayedUpTo = [at \in 0..instant |-> Body(ReplayedUpTo, at)]
  <2> DEFINE P(g) == g = [at \in 0..instant |-> Body(g, at)]
  <2>1. (\E g : P(g)) /\ ReplayedUpTo = CHOOSE g : P(g)
    BY <1>4, <1>5
  <2> HIDE DEF P
  <2>2. P(ReplayedUpTo)
    BY <2>1
  <2> QED
    BY <2>2 DEF P
<1>7. instant \in Nat
  BY DEF Typed
<1> QED
  BY <1>6, <1>7

Logged(x, k) == {n \in CommittedOn(x) : request[n].stamp <= k}

\* Only the requests that ReplayReconstructs is about.
Replayable(x) ==
  \A m \in On(x) : /\ request[m].outcome \notin {"failed", "lost"}
                   /\ request[m].stamp # Unlogged
                   /\ request[m].outcome = "committed" => request[m].whole
                   /\ \A n \in On(x) : ~Overlap(m, n)
                   /\ \A n \in On(x) \ {m} : request[n].stamp # request[m].stamp
                   /\ \A n \in Made \ {m} : FileOf(n) # FileOf(m)

\* The files of the requests on an item have the order of their numbers.
LEMMA InStep ==
  ASSUME IInv, RInv, NEW x, Replayable(x), NEW m \in On(x), NEW n \in On(x)
  PROVE  m < n <=> request[m].stamp < request[n].stamp
<1>1. /\ m \in Nat /\ n \in Nat /\ m \in Made /\ n \in Made
      /\ request[m].stamp \in Nat /\ request[n].stamp \in Nat
  BY OnNumbers, RequestType DEF IInv, Requests
<1>2. m # n => m \in request[n].after \/ n \in request[m].after
  BY DEF Replayable, Overlap
<1>3. /\ m \in request[n].after => m < n /\ request[m].stamp <= request[n].stamp
      /\ n \in request[m].after => n < m /\ request[n].stamp <= request[m].stamp
  BY <1>1 DEF RInv, Order, Stamps, Replayable
<1>4. m # n => request[m].stamp # request[n].stamp
  BY DEF Replayable
<1> QED
  BY <1>1, <1>2, <1>3, <1>4

\* At each instant the replay is where the item was after the requests logged by then.
LEMMA ReplayFollows ==
  ASSUME IInv, RInv, NEW x \in Items, Replayable(x), NEW k \in Nat, k + 1 <= instant,
         ReplayedUpTo[k] \in State, Results(ReplayedUpTo[k][x], Logged(x, k))
  PROVE  /\ ReplayedUpTo[k + 1] \in State
         /\ Results(ReplayedUpTo[k + 1][x], Logged(x, k + 1))
<1> DEFINE state == ReplayedUpTo[k]
<1>1. Typed /\ ReplayedUpTo[k + 1] = ReplayInstant(state, k + 1)
  BY UpTo DEF IInv
<1>2. ReplayedUpTo[k + 1] \in State
  BY <1>1, InstantReplayed
<1>3. \A n \in On(x) : n \in Made /\ n \in Nat /\ request[n].stamp \in Nat
                       /\ request[n].op \in Operations
  BY <1>1, OnNumbers, RequestType DEF Requests
\* A file of the instant is of a request with that stamp.
<1>4. ASSUME NEW name, Meets(<<k + 1, name>>, x)
      PROVE  \E m \in On(x) : m = log[<<k + 1, name>>] /\ FileOf(m) = <<k + 1, name>>
                              /\ request[m].stamp = k + 1 /\ Name(request[m].op) = name
  BY <1>4 DEF Meets, RInv, Files, FileOf
<1>5. CASE \A n \in On(x) : request[n].stamp # k + 1
  <2>1. Logged(x, k + 1) = Logged(x, k)
    BY <1>3, <1>5 DEF Logged, CommittedOn
  <2>2. \A name \in FileNames : ~Meets(<<k + 1, name>>, x)
    BY <1>4, <1>5
  <2> QED
    BY <1>1, <1>2, <2>1, <2>2, InstantReplayed
<1>6. ASSUME NEW n \in On(x), request[n].stamp = k + 1
      PROVE  Results(ReplayedUpTo[k + 1][x], Logged(x, k + 1))
  <2> DEFINE name == Name(request[n].op)
  <2>1. \A m \in On(x) : request[m].stamp = k + 1 => m = n
    BY <1>6 DEF Replayable
  <2>2. \A m \in On(x) : request[m].stamp <= k <=> m < n
    BY <1>3, <1>6, InStep
  <2>3. Logged(x, k) = Earlier(x, n)
    BY <2>2 DEF Logged, Earlier, CommittedOn
  <2>4. Orderly(x)
    BY DEF Replayable, Orderly
  <2>5. PICK value : Results(value, Earlier(x, n)) /\ Fits(n, value)
    BY <2>4 DEF RInv, Settled
  <2>6. Earlier(x, n) \in SUBSET Nat
    BY <1>3 DEF Earlier, CommittedOn
  <2>7. Fits(n, state[x])
    BY <2>3, <2>5, <2>6, OneResult
  <2>8. FileOf(n) = <<k + 1, name>> /\ FileOf(n) \in DOMAIN log /\ request[n].pc = "done"
    BY <1>3, <1>6 DEF FileOf, RInv, Stamps, Unlogged
  <2>9. log[FileOf(n)] = n
    <3>1. log[FileOf(n)] \in Made /\ FileOf(log[FileOf(n)]) = FileOf(n)
      BY <1>1, <2>8 DEF Typed, RInv, Files
    <3> QED
      BY <3>1 DEF Replayable
  <2>10. Meets(<<k + 1, name>>, x) /\ name \in FileNames
    BY <1>3, <2>8, <2>9, NameType DEF Meets
  <2>11. \A other \in FileNames \ {name} : ~Meets(<<k + 1, other>>, x)
    BY <1>4, <2>1
  <2>12. log[<<k + 1, name>>] = n
    BY <2>8, <2>9
  <2> HIDE DEF name
  <2>13. ReplayedUpTo[k + 1][x] = Step(n, state[x])
    BY <1>1, <2>10, <2>11, <2>12, InstantReplayed
  <2>14. CASE request[n].outcome = "committed"
    <3>1. Logged(x, k + 1) = Earlier(x, n) \union {n}
      BY <1>3, <1>6, <2>1, <2>2, <2>14 DEF Logged, Earlier, CommittedOn
    <3>2. ReplayedUpTo[k + 1][x] = Effect(n)
      BY <2>7, <2>13, <2>14 DEF Fits, Step, Replayable
    <3> QED
      BY <1>3, <3>1, <3>2 DEF Results, Earlier, CommittedOn
  <2>15. CASE request[n].outcome = "refused"
    <3>1. Logged(x, k + 1) = Logged(x, k)
      BY <1>3, <2>1, <2>15 DEF Logged, CommittedOn
    <3>2. ReplayedUpTo[k + 1][x] = state[x]
      BY <2>7, <2>13, <2>15 DEF Fits, Step
    <3> QED
      BY <3>1, <3>2
  <2> QED
    <3>1. request[n].outcome \in {"open", "committed", "refused", "failed", "lost"}
      BY <1>1, <1>3, RequestType DEF Requests
    <3>2. request[n].outcome \notin {"open", "failed", "lost"}
      BY <1>3, <2>8 DEF IInv, Outcomes, Replayable
    <3> QED
      BY <2>14, <2>15, <3>1, <3>2
<1> QED
  BY <1>2, <1>5, <1>6

LEMMA ReplayIs ==
  ASSUME IInv, RInv, NEW x \in Items, Replayable(x)
  PROVE  Results(Replay[x], Logged(x, instant))
<1> DEFINE S == {k \in Nat : k <= instant => /\ ReplayedUpTo[k] \in State
                                             /\ Results(ReplayedUpTo[k][x], Logged(x, k))}
<1>1. Typed /\ instant \in Nat
  BY DEF IInv, Typed
<1>2. 0 \in S
  <2>1. ReplayedUpTo[0] \in State /\ ReplayedUpTo[0][x] = Absent
    BY <1>1, UpTo, Bounds DEF State, Absent
  <2>2. Logged(x, 0) = {}
    <3>1. \A n \in On(x) : request[n].stamp \in Nat /\ request[n].stamp # 0
      BY <1>1, OnNumbers, RequestType DEF Requests, Replayable, Unlogged
    <3> QED
      BY <3>1 DEF Logged, CommittedOn
  <2> QED
    BY <2>1, <2>2 DEF Results
<1>3. ASSUME NEW k \in Nat, k \in S PROVE k + 1 \in S
  BY <1>1, <1>3, ReplayFollows
<1>4. instant \in S
  <2> HIDE DEF S
  <2> QED
    BY <1>1, <1>2, <1>3, NaturalsInSet
<1> QED
  BY <1>1, <1>4 DEF Replay

\* The order of the log's files is enough to reconstruct an item whose requests did not
\* overlap, whatever else is in the log, and however many requests, files and crashes there
\* were (Replication, GenericRequestLogger).
THEOREM Reconstructs == Spec => []ReplayReconstructs
<1>1. IInv /\ RInv => ReplayReconstructs
  <2> SUFFICES ASSUME IInv, RInv, Running = {}, NEW x \in Items, Replayable(x)
               PROVE  Replay[x] = store[x]
    BY DEF ReplayReconstructs, Replayable
  <2>1. \A n \in On(x) : n \in Made /\ n \in Nat /\ request[n].stamp \in Nat
    BY OnNumbers, RequestType DEF IInv, Requests
  <2>2. Orderly(x)
    BY DEF Replayable, Orderly
  <2>3. Results(store[x], CommittedOn(x))
    BY <2>2 DEF RInv, Settled
  <2>4. Logged(x, instant) = CommittedOn(x)
    BY <2>1 DEF Logged, CommittedOn, RInv, Stamps, Replayable
  <2>5. CommittedOn(x) \in SUBSET Nat
    BY <2>1 DEF CommittedOn
  <2> QED
    BY <2>3, <2>4, <2>5, ReplayIs, OneResult
<1> QED
  BY <1>1, ReplayInductive, PTL
==============================================================================
