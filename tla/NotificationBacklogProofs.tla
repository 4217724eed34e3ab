---------------------- MODULE NotificationBacklogProofs -----------------------
(***************************************************************************)
(* The agent with a backlog keeps the promise of an outbox, whatever the   *)
(* number of topics, the limit and the bounds.                             *)
(*                                                                         *)
(* The invariant says how the queue, the files and the worker fit: what is *)
(* in files is older than what is in hand, no two files hold the same      *)
(* notification, the topics the worker has passed were given what it       *)
(* publishes, and as long as the disk behaves the queue names files that   *)
(* can be read, the oldest first, and the one in hand is published only    *)
(* when there are none.                                                    *)
(***************************************************************************)
EXTENDS NotificationBacklog, TLAPS

Ordered ==
  /\ \A i \in DOMAIN queue : queue[i] \in DOMAIN files /\ files[queue[i]] # Broken
  /\ \A i, j \in DOMAIN queue : i < j => files[queue[i]] < files[queue[j]]

Fit ==
  /\ \A f, g \in DOMAIN files : files[f] = files[g] /\ files[f] # Broken => f = g
  /\ phase = "publish" /\ head => queue # <<>> /\ Readable
  /\ phase # "idle" => ~sent /\ sends > 0 /\ \A f \in DOMAIN files : files[f] < sends
  /\ phase = "publish" => \A t \in 1..Topics : t < topic => Publishing \in Range(received[t])
  /\ ~disturbed => Ordered /\ (phase = "publish" /\ ~head => queue = <<>>)

IInv == TypeOK /\ NoOrphanFiles /\ SuccessDrains /\ Fit

------------------------------------------------------------------------------
(* Sequences.                                                               *)

LEMMA RangeAppend ==
  ASSUME NEW S, NEW s \in Seq(S), NEW x \in S
  PROVE  /\ Append(s, x) \in Seq(S) /\ Range(Append(s, x)) = Range(s) \union {x}
         /\ DOMAIN Append(s, x) = 1..(Len(s) + 1) /\ Append(s, x)[Len(s) + 1] = x
         /\ \A i \in DOMAIN s : Append(s, x)[i] = s[i]
<1>1. /\ Append(s, x) \in Seq(S) /\ DOMAIN Append(s, x) = 1..(Len(s) + 1) /\ DOMAIN s = 1..Len(s)
      /\ Len(s) \in Nat
      /\ \A i \in 1..Len(s) : Append(s, x)[i] = s[i]
      /\ Append(s, x)[Len(s) + 1] = x
  OBVIOUS
<1>2. Range(Append(s, x)) \subseteq Range(s) \union {x}
  BY <1>1 DEF Range
<1>3. x \in Range(Append(s, x))
  <2>1. Len(s) + 1 \in DOMAIN Append(s, x)
    BY <1>1
  <2> QED
    BY <1>1, <2>1 DEF Range
<1>4. Range(s) \subseteq Range(Append(s, x))
  <2>1. ASSUME NEW i \in DOMAIN s PROVE s[i] \in Range(Append(s, x))
    BY <1>1 DEF Range
  <2> QED
    BY <2>1 DEF Range
<1> QED
  BY <1>1, <1>2, <1>3, <1>4

LEMMA SeqElements ==
  ASSUME NEW S, NEW s \in Seq(S)
  PROVE  Len(s) \in Nat /\ DOMAIN s = 1..Len(s) /\ \A i \in DOMAIN s : s[i] \in S
  OBVIOUS

LEMMA RangeTail ==
  ASSUME NEW S, NEW s \in Seq(S), s # <<>>
  PROVE  /\ Tail(s) \in Seq(S) /\ Head(s) = s[1] /\ Head(s) \in Range(s)
         /\ DOMAIN s = 1..Len(s) /\ Len(s) \in Nat \ {0}
         /\ DOMAIN Tail(s) = 1..(Len(s) - 1) /\ Len(Tail(s)) = Len(s) - 1
         /\ \A i \in 1..(Len(s) - 1) : Tail(s)[i] = s[i + 1]
         /\ Range(Tail(s)) \subseteq Range(s)
         /\ Range(s) \subseteq Range(Tail(s)) \union {Head(s)}
<1>1. /\ Tail(s) \in Seq(S) /\ Head(s) = s[1]
      /\ DOMAIN s = 1..Len(s) /\ Len(s) \in Nat \ {0}
      /\ DOMAIN Tail(s) = 1..(Len(s) - 1) /\ Len(Tail(s)) = Len(s) - 1
      /\ \A i \in 1..(Len(s) - 1) : Tail(s)[i] = s[i + 1]
  OBVIOUS
<1>2. Head(s) \in Range(s)
  BY <1>1 DEF Range
<1>3. Range(Tail(s)) \subseteq Range(s)
  BY <1>1 DEF Range
<1>4. ASSUME NEW i \in DOMAIN s PROVE s[i] \in Range(Tail(s)) \union {Head(s)}
  <2>1. CASE i = 1
    BY <1>1, <2>1
  <2>2. CASE i # 1
    <3>1. i - 1 \in DOMAIN Tail(s) /\ Tail(s)[i - 1] = s[i]
      BY <1>1, <2>2
    <3> QED
      BY <3>1 DEF Range
  <2> QED
    BY <2>1, <2>2
<1> QED
  BY <1>1, <1>2, <1>3, <1>4 DEF Range

LEMMA Restricted ==
  ASSUME NEW f, NEW S
  PROVE  DOMAIN Restrict(f, S) = S /\ \A x \in S : Restrict(f, S)[x] = f[x]
BY DEF Restrict

LEMMA SeqWider ==
  ASSUME NEW S, NEW T, S \subseteq T, NEW s \in Seq(S)
  PROVE  s \in Seq(T)
<1>1. Len(s) \in Nat /\ s \in [1..Len(s) -> T]
  OBVIOUS
<1> QED
  BY <1>1
------------------------------------------------------------------------------
(* The invariant.                                                           *)

Names(i) == (1..i) \X Targets

LEMMA Bounds == Topics \in Nat /\ Limit \in Nat /\ MaxSends \in Nat
BY BacklogAssumption DEF BacklogAssumption

LEMMA NamesWider ==
  ASSUME NEW i \in Nat, NEW j \in Nat, i <= j
  PROVE  Names(i) \subseteq Names(j) /\ Seq(Names(i)) \subseteq Seq(Names(j))
<1>1. Names(i) \subseteq Names(j)
  BY DEF Names
<1> QED
  BY <1>1, SeqWider

LEMMA Nothing ==
  /\ DOMAIN [f \in {} |-> 0] = {} /\ Range(<<>>) = {} /\ DOMAIN <<>> = {} /\ Len(<<>>) = 0
  /\ \A S : <<>> \in Seq(S)
BY DEF Range

LEMMA InitInv == Init => IInv
<1> SUFFICES ASSUME Init PROVE IInv
  OBVIOUS
<1>1. TypeOK
  <2>1. DOMAIN files = {} /\ queue \in Seq((1..instant) \X Targets) /\ Len(queue) = 0
        /\ left \subseteq DOMAIN files
    BY Nothing DEF Init
  <2>2. received \in [1..Topics -> Seq(1..sends)]
    BY Nothing DEF Init
  <2>3. sends = 0 /\ topic = 1 /\ instant = 1 /\ 1 \in 1..(Topics + 1) /\ 0 \in 0..MaxSends
    BY Bounds DEF Init
  <2> QED
    <3>1. sends \in 0..MaxSends /\ target \in Targets /\ topic \in 1..(Topics + 1) /\ instant \in Nat \ {0}
      BY <2>3 DEF Init
    <3>2. phase \in {"idle", "clear", "publish"} /\ head \in BOOLEAN /\ sent \in BOOLEAN /\ disturbed \in BOOLEAN
      BY DEF Init
    <3>3. Len(queue) <= Limit
      BY <2>1, Bounds
    <3> QED
      BY <2>1, <2>2, <3>1, <3>2, <3>3 DEF TypeOK
<1>2. NoOrphanFiles /\ SuccessDrains
  BY Nothing DEF Init, NoOrphanFiles, SuccessDrains
<1>3. Fit
  BY Nothing DEF Init, Fit, Ordered
<1> QED
  BY <1>1, <1>2, <1>3 DEF IInv

LEMMA SendInv == IInv /\ Send => IInv'
<1> SUFFICES ASSUME IInv, Send PROVE IInv'
  OBVIOUS
<1> USE Bounds
<1>1. TypeOK'
  <2>1. sends' \in Nat /\ sends \in Nat /\ sends' = sends + 1 /\ sends' \in 0..MaxSends
        /\ 1..sends \subseteq 1..sends' /\ 0..sends \subseteq 0..sends'
    BY DEF IInv, TypeOK, Send
  <2>2. received' = received /\ received \in [1..Topics -> Seq(1..sends)]
    BY DEF IInv, TypeOK, Send
  <2>3. received' \in [1..Topics -> Seq(1..sends')]
    BY <2>1, <2>2, SeqWider
  <2>4. \A f \in DOMAIN files' : files'[f] \in 0..sends'
    BY <2>1 DEF IInv, TypeOK, Send, backlog
  <2> QED
    BY <2>1, <2>3, <2>4 DEF IInv, TypeOK, Send, backlog
<1>2. NoOrphanFiles' /\ SuccessDrains'
  BY DEF IInv, NoOrphanFiles, SuccessDrains, Send, backlog
<1>3. Fit'
  BY DEF IInv, TypeOK, Fit, Ordered, Send, backlog, Publishing, Readable
<1> QED
  BY <1>1, <1>2, <1>3 DEF IInv

LEMMA ReadHeadInv == IInv /\ ReadHead => IInv'
BY Bounds DEF IInv, TypeOK, NoOrphanFiles, SuccessDrains, Fit, Ordered, ReadHead, StartOn, backlog,
   faults, Publishing, Readable

LEMMA UnreadableInv == IInv /\ Unreadable => IInv'
<1> SUFFICES ASSUME IInv, Unreadable PROVE IInv'
  OBVIOUS
<1> USE Bounds
<1>1. TypeOK'
  <2>1. phase' = "publish" /\ head' = FALSE /\ topic' = 1 /\ topic' \in 1..(Topics + 1)
        /\ disturbed' \in BOOLEAN /\ disturbed \in BOOLEAN
        /\ UNCHANGED <<sends, target, queue, files, instant, left, received, sent>>
    BY DEF IInv, TypeOK, Unreadable, CannotRead, StartOn, backlog
  <2> QED
    BY <2>1 DEF IInv, TypeOK
<1>2. NoOrphanFiles' /\ SuccessDrains'
  BY DEF IInv, NoOrphanFiles, SuccessDrains, Fit, Unreadable, CannotRead, StartOn, backlog
<1>3. Fit'
  BY DEF IInv, TypeOK, Fit, Ordered, Unreadable, CannotRead, StartOn, backlog, Publishing
<1> QED
  BY <1>1, <1>2, <1>3 DEF IInv

LEMMA ClearedInv == IInv /\ Cleared => IInv'
<1> SUFFICES ASSUME IInv, Cleared PROVE IInv'
  OBVIOUS
<1> USE Bounds
<1>1. TypeOK'
  <2>1. phase' = "publish" /\ head' = FALSE /\ topic' = 1 /\ topic' \in 1..(Topics + 1)
        /\ disturbed' \in BOOLEAN /\ disturbed \in BOOLEAN
        /\ UNCHANGED <<sends, target, queue, files, instant, left, received, sent>>
    BY DEF IInv, TypeOK, Cleared, StartOn, backlog
  <2> QED
    BY <2>1 DEF IInv, TypeOK
<1>2. NoOrphanFiles' /\ SuccessDrains'
  BY DEF IInv, NoOrphanFiles, SuccessDrains, Fit, Cleared, StartOn, backlog
<1>3. Fit'
  BY DEF IInv, TypeOK, Fit, Ordered, Cleared, StartOn, backlog, Publishing
<1> QED
  BY <1>1, <1>2, <1>3 DEF IInv

LEMMA RestartInv == IInv /\ Restart => IInv'
<1> SUFFICES ASSUME IInv, Restart PROVE IInv'
  OBVIOUS
<1>0. left' \subseteq DOMAIN files
  BY DEF Restart
<1>1. /\ DOMAIN files' = left' /\ \A f \in left' : files'[f] = files[f]
      /\ queue' = <<>> /\ phase' = "idle" /\ sent' = FALSE
  BY Restricted DEF Restart
<1>2. TypeOK'
  <2>1. queue' \in Seq((1..instant') \X Targets) /\ Len(queue') = 0
    BY <1>1, Nothing
  <2>2. DOMAIN files' \subseteq (1..instant) \X Targets /\ \A f \in DOMAIN files' : files'[f] \in 0..sends
    BY <1>0, <1>1 DEF IInv, TypeOK
  <2> QED
    <3>1. Len(queue') <= Limit
      BY <2>1, Bounds
    <3> QED
      BY <1>1, <2>1, <2>2, <3>1 DEF IInv, TypeOK, Restart
<1>3. NoOrphanFiles' /\ SuccessDrains'
  BY <1>1, Nothing DEF NoOrphanFiles, SuccessDrains
<1>4. Fit'
  BY <1>0, <1>1, Nothing DEF IInv, Fit, Ordered
<1> QED
  BY <1>2, <1>3, <1>4 DEF IInv

LEMMA PublishingType ==
  ASSUME IInv, phase = "publish"
  PROVE  Publishing \in 1..sends /\ (head => Publishing # sends)
BY DEF IInv, TypeOK, Fit, Publishing, Readable, Broken

LEMMA PublishInv == IInv /\ Publish => IInv'
<1> SUFFICES ASSUME IInv, Publish PROVE IInv'
  OBVIOUS
<1> USE Bounds
<1>1. Publishing \in 1..sends /\ Publishing' = Publishing
  BY PublishingType DEF Publish, Publishing, backlog
<1>2. topic \in 1..Topics /\ received \in [1..Topics -> Seq(1..sends)]
  BY DEF IInv, TypeOK, Publish
<1>3. \A t \in 1..Topics :
        received'[t] = IF t = topic THEN Append(received[t], Publishing) ELSE received[t]
  BY <1>2 DEF Publish
<1>4. received' \in [1..Topics -> Seq(1..sends)]
  BY <1>1, <1>2 DEF Publish
<1>5. TypeOK'
  BY <1>2, <1>4 DEF IInv, TypeOK, Publish, backlog, faults
<1>6. \A t \in 1..Topics : t < topic' => Publishing' \in Range(received'[t])
  <2>1. SUFFICES ASSUME NEW t \in 1..Topics, t < topic' PROVE Publishing \in Range(received'[t])
    BY <1>1
  <2>2. CASE t = topic
    <3> DEFINE S == 1..sends
               given == received[topic]
               next == Publishing
    <3>1. given \in Seq(S) /\ next \in S
      BY <1>1, <1>2
    <3> HIDE DEF S, given, next
    <3>2a. next \in Range(Append(given, next))
      BY <3>1, RangeAppend
    <3>2. Publishing \in Range(Append(received[topic], Publishing))
      BY <3>2a DEF given, next
    <3> QED
      BY <1>2, <1>3, <2>2, <3>2
  <2>3. CASE t # topic
    BY <1>2, <1>3, <2>1, <2>3 DEF IInv, Fit, Publish
  <2> QED
    BY <2>2, <2>3
<1> QED
  BY <1>5, <1>6 DEF IInv, Fit, NoOrphanFiles, SuccessDrains, Ordered, Publish, Readable, backlog, faults

\* Whether the file is deleted or not, nothing else changes.
LEMMA Deleted ==
  ASSUME NEW file \in DOMAIN files, Delete(file), left \subseteq DOMAIN files
  PROVE  /\ DOMAIN files \ {file} \subseteq DOMAIN files' /\ DOMAIN files' \subseteq DOMAIN files
         /\ \A f \in DOMAIN files' : files'[f] = files[f]
         /\ left' \subseteq DOMAIN files' /\ left \ {file} \subseteq left'
         /\ file \in DOMAIN files' => file \in left'
BY Restricted DEF Delete

LEMMA DoneInv == IInv /\ Done => IInv'
<1> SUFFICES ASSUME IInv, Done PROVE IInv'
  OBVIOUS
<1> USE Bounds
<1>1. CASE ~head
  BY <1>1 DEF IInv, TypeOK, NoOrphanFiles, SuccessDrains, Fit, Ordered, Done, backlog, faults, Publishing,
     Readable
<1>2. CASE head
  <2>1. /\ queue # <<>> /\ queue \in Seq(Names(instant))
        /\ queue' = Tail(queue) /\ Delete(Head(queue)) /\ Head(queue) \in DOMAIN files
        /\ phase' = "clear" /\ phase = "publish"
        /\ UNCHANGED <<sends, target, head, topic, instant, received, sent, disturbed>>
    BY <1>2 DEF IInv, TypeOK, Fit, Done, Names, Readable
  <2>1a. /\ DOMAIN files \ {Head(queue)} \subseteq DOMAIN files' /\ DOMAIN files' \subseteq DOMAIN files
         /\ \A f \in DOMAIN files' : files'[f] = files[f]
         /\ left' \subseteq DOMAIN files' /\ left \ {Head(queue)} \subseteq left'
         /\ Head(queue) \in DOMAIN files' => Head(queue) \in left'
    BY <2>1, Deleted DEF IInv, TypeOK
  <2>2. TypeOK'
    BY <2>1, <2>1a, RangeTail DEF IInv, TypeOK, Names
  <2>3. NoOrphanFiles'
    BY <2>1, <2>1a, RangeTail DEF IInv, NoOrphanFiles
  <2>4. SuccessDrains'
    BY <2>1 DEF IInv, Fit, SuccessDrains
  <2>5. ~disturbed => Ordered'
    <3>1. SUFFICES ASSUME ~disturbed PROVE Ordered'
      OBVIOUS
    <3>2. Ordered
      BY <3>1 DEF IInv, Fit
    <3>3. \A i \in DOMAIN queue' : i + 1 \in DOMAIN queue /\ 1 \in DOMAIN queue /\ queue'[i] = queue[i + 1]
      BY <2>1, RangeTail
    <3>3a. DOMAIN queue' \subseteq Nat \ {0}
      BY <2>1, RangeTail
    <3>3b. files[queue[1]] \in Nat
      BY <2>1, <3>2, RangeTail DEF Ordered, IInv, TypeOK
    <3>4. \A i \in DOMAIN queue' : queue'[i] \in DOMAIN files' /\ files'[queue'[i]] # Broken
      <4>1. SUFFICES ASSUME NEW i \in DOMAIN queue' 
                     PROVE  queue[i + 1] \in DOMAIN files \ {queue[1]} /\ files[queue[i + 1]] # Broken
        BY <2>1, <2>1a, <3>3, RangeTail
      <4>2. files[queue[1]] < files[queue[i + 1]]
        BY <3>2, <3>3, <3>3a DEF Ordered
      <4>3. queue[i + 1] # queue[1]
        BY <4>2, <3>3b
      <4> QED
        BY <4>3, <3>2, <3>3 DEF Ordered
    <3>5. ASSUME NEW i \in DOMAIN queue', NEW j \in DOMAIN queue', i < j
          PROVE  files'[queue'[i]] < files'[queue'[j]]
      BY <2>1, <2>1a, <3>2, <3>3, <3>3a, <3>4, <3>5 DEF Ordered
    <3> QED
      BY <3>4, <3>5 DEF Ordered
  <2>6. Fit'
    BY <2>1, <2>1a, <2>5 DEF IInv, Fit
  <2> QED
    BY <2>2, <2>3, <2>4, <2>6 DEF IInv
<1> QED
  BY <1>1, <1>2

\* What is in hand is given up.
LEMMA QuietInv ==
  ASSUME IInv, phase # "idle", phase' = "idle", UNCHANGED backlog, disturbed' = TRUE \/ UNCHANGED disturbed,
         UNCHANGED <<sends, target, head, topic, received, sent>>
  PROVE  IInv'
<1>1. TypeOK'
  <2>1. phase' \in {"idle", "clear", "publish"} /\ disturbed' \in BOOLEAN
    BY DEF IInv, TypeOK
  <2> QED
    BY <2>1 DEF IInv, TypeOK, backlog
<1>2. NoOrphanFiles' /\ SuccessDrains'
  BY DEF IInv, Fit, NoOrphanFiles, SuccessDrains, backlog
<1>3. Fit'
  BY DEF IInv, Fit, Ordered, backlog
<1> QED
  BY <1>1, <1>2, <1>3 DEF IInv

\* What is in hand joins the backlog.
LEMMA KeepInv ==
  ASSUME IInv, phase # "idle", Room, NEW now \in {instant, instant + 1}, Keep(<<now, target>>),
         phase' = "idle", UNCHANGED <<sends, target, head, topic, received, sent>>
  PROVE  IInv'
<1> DEFINE file == <<now, target>>
<1>1. /\ instant \in Nat \ {0} /\ now \in Nat \ {0} /\ instant <= now /\ instant' = now
      /\ target \in Targets /\ file \in Names(now)
      /\ queue \in Seq(Names(instant)) /\ Len(queue) + 1 <= Limit
      /\ sends \in Nat \ {0} /\ \A f \in DOMAIN files : files[f] \in 0..sends /\ files[f] < sends
      /\ ~sent
  BY Bounds DEF IInv, TypeOK, Fit, Room, Keep, Names
<1>2. queue \in Seq(Names(now)) /\ Names(instant) \subseteq Names(now)
  BY <1>1, NamesWider
<1>3. /\ queue' = Append(queue, file) /\ files' = Written(file, sends)
      /\ disturbed' = (disturbed \/ file \in Range(queue)) /\ left' = left \ {file}
  BY DEF Keep
<1> HIDE DEF file
<1>4. /\ queue' \in Seq(Names(now)) /\ Range(queue') = Range(queue) \union {file}
      /\ Len(queue) \in Nat /\ DOMAIN queue = 1..Len(queue)
      /\ DOMAIN queue' = 1..(Len(queue) + 1) /\ Len(queue') = Len(queue) + 1
      /\ queue'[Len(queue) + 1] = file /\ \A i \in DOMAIN queue : queue'[i] = queue[i]
  <2>1. file \in Names(now)
    BY <1>1
  <2>2. Append(queue, file) \in Seq(Names(now)) /\ Range(Append(queue, file)) = Range(queue) \union {file}
    BY <1>2, <2>1, RangeAppend
  <2> QED
    BY <1>2, <1>3, <2>1, <2>2
<1>5. /\ DOMAIN files' = DOMAIN files \union {file} /\ files'[file] = sends
      /\ \A f \in DOMAIN files \ {file} : files'[f] = files[f]
  BY <1>3 DEF Written
<1>6. TypeOK'
  <2>1. DOMAIN files' \subseteq Names(now) /\ \A f \in DOMAIN files' : files'[f] \in 0..sends
    BY <1>1, <1>2, <1>5 DEF IInv, TypeOK, Names
  <2>2. Len(queue') <= Limit
    BY <1>1, <1>4
  <2>3. disturbed' \in BOOLEAN /\ phase' \in {"idle", "clear", "publish"} /\ left' \subseteq DOMAIN files'
    BY <1>3, <1>5 DEF IInv, TypeOK
  <2> QED
    BY <1>1, <1>4, <2>1, <2>2, <2>3 DEF IInv, TypeOK, Names
<1>7. NoOrphanFiles' /\ SuccessDrains'
  BY <1>1, <1>3, <1>4, <1>5 DEF IInv, NoOrphanFiles, SuccessDrains
<1>8. ASSUME ~disturbed' PROVE Ordered'
  <2>1. Ordered /\ file \notin Range(queue)
    BY <1>3, <1>8 DEF IInv, Fit
  <2>2. \A i \in DOMAIN queue : /\ queue'[i] \in DOMAIN files /\ queue'[i] # file
                               /\ files'[queue'[i]] = files[queue[i]] /\ files'[queue'[i]] < sends
                               /\ files'[queue'[i]] # Broken
    BY <1>1, <1>4, <1>5, <2>1 DEF Ordered, Range
  <2>3. \A i \in DOMAIN queue' : queue'[i] \in DOMAIN files' /\ files'[queue'[i]] # Broken
    BY <1>1, <1>4, <1>5, <2>2 DEF Broken
  <2>4. ASSUME NEW i \in DOMAIN queue', NEW j \in DOMAIN queue', i < j
        PROVE  files'[queue'[i]] < files'[queue'[j]]
    <3>1. i \in DOMAIN queue
      BY <1>4, <2>4
    <3>2. CASE j \in DOMAIN queue
      BY <2>1, <2>2, <2>4, <3>1, <3>2 DEF Ordered
    <3>3. CASE j \notin DOMAIN queue
      <4>1. queue'[j] = file
        BY <1>4, <3>3
      <4> QED
        BY <1>5, <2>2, <3>1, <4>1
    <3> QED
      BY <3>2, <3>3
  <2> QED
    BY <2>3, <2>4 DEF Ordered
<1>9. \A f, g \in DOMAIN files' : files'[f] = files'[g] /\ files'[f] # Broken => f = g
  BY <1>1, <1>5 DEF IInv, Fit
<1> QED
  BY <1>6, <1>7, <1>8, <1>9 DEF IInv, Fit

LEMMA KeepFailsInv ==
  ASSUME IInv, phase # "idle", NEW now \in {instant, instant + 1}, KeepFails(<<now, target>>),
         phase' = "idle", UNCHANGED <<sends, target, head, topic, received, sent>>
  PROVE  IInv'
<1>1. CASE UNCHANGED backlog
  BY <1>1, QuietInv DEF KeepFails
<1>2. CASE ~UNCHANGED backlog
  <2> DEFINE file == <<now, target>>
  <2>1. /\ instant \in Nat \ {0} /\ now \in Nat \ {0} /\ instant <= now /\ file \in Names(now)
        /\ queue \in Seq(Names(instant)) /\ target \in Targets
        /\ sends \in Nat \ {0} /\ \A f \in DOMAIN files : files[f] \in 0..sends /\ files[f] < sends
        /\ ~sent
    BY DEF IInv, TypeOK, Fit, Names
  <2>2. queue \in Seq(Names(now)) /\ Names(instant) \subseteq Names(now)
    BY <2>1, NamesWider
  <2>3. PICK content \in {Broken, sends} : files' = Written(file, content)
    BY <1>2 DEF KeepFails
  <2>4. queue' = queue /\ instant' = now /\ left' = left \union {file} /\ disturbed' = TRUE
    BY <1>2 DEF KeepFails
  <2> HIDE DEF file
  <2>5. /\ DOMAIN files' = DOMAIN files \union {file} /\ files'[file] = content
        /\ \A f \in DOMAIN files \ {file} : files'[f] = files[f]
    BY <2>3 DEF Written
  <2>6. TypeOK'
    <3>1. DOMAIN files' \subseteq Names(now) /\ \A f \in DOMAIN files' : files'[f] \in 0..sends
      BY <2>1, <2>2, <2>5 DEF IInv, TypeOK, Names, Broken
    <3>2. left' \subseteq DOMAIN files' /\ phase' \in {"idle", "clear", "publish"}
      BY <2>4, <2>5 DEF IInv, TypeOK
    <3> QED
      BY <2>1, <2>2, <2>4, <3>1, <3>2 DEF IInv, TypeOK, Names
  <2>7. NoOrphanFiles' /\ SuccessDrains'
    BY <2>1, <2>4, <2>5 DEF IInv, NoOrphanFiles, SuccessDrains
  <2>8. \A f, g \in DOMAIN files' : files'[f] = files'[g] /\ files'[f] # Broken => f = g
    BY <2>1, <2>5 DEF IInv, Fit
  <2> QED
    BY <2>4, <2>6, <2>7, <2>8 DEF IInv, Fit
<1> QED
  BY <1>1, <1>2

LEMMA AddInv ==
  ASSUME IInv, phase # "idle", AddToBacklog, phase' = "idle",
         UNCHANGED <<sends, target, head, topic, received, sent>>
  PROVE  IInv'
<1>1. CASE Room /\ \E now \in {instant, instant + 1} : Keep(<<now, target>>) \/ KeepFails(<<now, target>>)
  <2>1. PICK now \in {instant, instant + 1} : Keep(<<now, target>>) \/ KeepFails(<<now, target>>)
    BY <1>1
  <2>2. CASE Keep(<<now, target>>)
    BY <1>1, <2>2, KeepInv
  <2>3. CASE KeepFails(<<now, target>>)
    BY <2>3, KeepFailsInv
  <2> QED
    BY <2>1, <2>2, <2>3
<1>2. CASE UNCHANGED <<backlog, disturbed>>
  BY <1>2, QuietInv
<1> QED
  BY <1>1, <1>2 DEF AddToBacklog

LEMMA FailInv == IInv /\ (Fail \/ EmptyHead) => IInv'
BY AddInv DEF Fail, EmptyHead

LEMMA StutterInv == IInv /\ UNCHANGED vars => IInv'
BY DEF IInv, TypeOK, NoOrphanFiles, SuccessDrains, Fit, Ordered, Publishing, Readable, vars, worker,
   backlog, faults

LEMMA StepInv == IInv /\ [Next]_vars => IInv'
BY SendInv, ReadHeadInv, UnreadableInv, ClearedInv, PublishInv, DoneInv, FailInv, RestartInv, StutterInv
   DEF Next, Work

\* The state keeps its types, and the queue its limit, whatever fails.
THEOREM TypeCorrect == Spec => []TypeOK
<1>1. IInv => TypeOK
  BY DEF IInv
<1> QED
  BY InitInv, StepInv, <1>1, PTL DEF Spec

\* No file is left that the queue does not name, but by a failure of the disk.
THEOREM FilesAreQueued == Spec => []NoOrphanFiles
<1>1. IInv => NoOrphanFiles
  BY DEF IInv
<1> QED
  BY InitInv, StepInv, <1>1, PTL DEF Spec

\* A send that ends well leaves no backlog as long as the disk behaves.
THEOREM Drains == Spec => []SuccessDrains
<1>1. IInv => SuccessDrains
  BY DEF IInv
<1> QED
  BY InitInv, StepInv, <1>1, PTL DEF Spec

------------------------------------------------------------------------------
(* The promise.                                                             *)

Queued == Range(queue) \intersect DOMAIN files

\* What can be read in files that are queued, and what is in hand.
LEMMA WaitingIs ==
  ASSUME IInv
  PROVE  /\ \A w : w \in Waiting <=> \/ (w # Broken /\ \E f \in Queued : w = files[f])
                                     \/ (phase # "idle" /\ w = sends)
         /\ Waiting \subseteq 1..sends
<1>1. \A w : w \in Waiting <=> \/ (w # Broken /\ \E f \in Queued : w = files[f])
                              \/ (phase # "idle" /\ w = sends)
  BY DEF Waiting, Queued
<1>2. phase # "idle" => sends \in 1..sends
  BY DEF IInv, TypeOK, Fit
<1>3. \A f \in Queued : files[f] # Broken => files[f] \in 1..sends
  BY DEF IInv, TypeOK, Queued, Broken
<1> QED
  BY <1>1, <1>2, <1>3

LEMMA PromiseInit == Init => Promise!Init
<1> SUFFICES ASSUME Init PROVE Promise!Init
  OBVIOUS
<1>1. Waiting = {}
  BY Nothing DEF Init, Waiting
<1> QED
  BY <1>1 DEF Init, Promise!Init

LEMMA SendPromise == IInv /\ Send => Promise!Accept
<1> SUFFICES ASSUME IInv, Send PROVE Promise!Accept
  OBVIOUS
<1>1. /\ IInv' /\ files' = files /\ queue' = queue /\ phase = "idle" /\ phase' = "clear"
      /\ sends' = sends + 1
  BY SendInv DEF Send, backlog
<1>2. Waiting' = Waiting \union {sends + 1}
  BY <1>1 DEF Waiting
<1> QED
  BY <1>1, <1>2 DEF Send, faults, Promise!Accept

LEMMA WorkPromise ==
  ASSUME IInv, ReadHead \/ Cleared
  PROVE  UNCHANGED Promise!vars
<1>1. Waiting' = Waiting
  BY DEF ReadHead, Cleared, StartOn, backlog, Waiting
<1> QED
  BY <1>1 DEF ReadHead, Cleared, StartOn, faults, Promise!vars

LEMMA UnreadablePromise == IInv /\ Unreadable => Promise!Disturb
<1> SUFFICES ASSUME IInv, Unreadable PROVE Promise!Disturb
  OBVIOUS
<1>1. Waiting' = Waiting
  BY DEF Unreadable, CannotRead, StartOn, backlog, Waiting
<1> QED
  BY <1>1 DEF Unreadable, CannotRead, Promise!Disturb

\* What is published is waiting, and is the oldest as long as the disk behaves.
LEMMA PublishingOldest ==
  ASSUME IInv, phase = "publish"
  PROVE  Publishing \in Waiting /\ (disturbed \/ \A m \in Waiting : Publishing <= m)
<1>1. Publishing \in Waiting
  <2>1. CASE head
    <3>1. queue # <<>> /\ queue \in Seq(Names(instant)) /\ Head(queue) \in DOMAIN files
          /\ files[Head(queue)] # Broken /\ Publishing = files[Head(queue)]
      BY <2>1 DEF IInv, Fit, TypeOK, Names, Publishing, Readable
    <3>2. Head(queue) \in Range(queue)
      BY <3>1, RangeTail
    <3> QED
      BY <3>1, <3>2, WaitingIs DEF Queued
  <2>2. CASE ~head
    BY <2>2, WaitingIs DEF Publishing
  <2> QED
    BY <2>1, <2>2
<1>2. ASSUME ~disturbed, NEW m \in Waiting PROVE Publishing <= m
  <2>1. Ordered /\ (~head => queue = <<>>)
        /\ sends \in Nat /\ \A f \in DOMAIN files : files[f] \in Nat /\ files[f] < sends
    BY <1>2 DEF IInv, Fit, TypeOK
  <2>2. CASE m = sends
    <3>1. Publishing \in 1..sends
      BY PublishingType
    <3> QED
      BY <2>1, <2>2, <3>1
  <2>3. CASE m # sends
    <3>1. PICK f \in Queued : m = files[f]
      BY <1>2, <2>3, WaitingIs
    <3>2. PICK i \in DOMAIN queue : f = queue[i]
      BY <3>1 DEF Range, Queued
    <3>2a. f \in DOMAIN files
      BY <3>1 DEF Queued
    <3>3. queue # <<>> /\ queue \in Seq(Names(instant)) /\ head
      BY <2>1, <3>2, Nothing DEF IInv, TypeOK, Names
    <3>4. 1 \in DOMAIN queue /\ i \in Nat \ {0} /\ Publishing = files[queue[1]]
      BY <3>2, <3>3, RangeTail DEF Publishing
    <3>5. CASE i = 1
      BY <2>1, <3>1, <3>2, <3>2a, <3>4, <3>5
    <3>6. CASE i # 1
      BY <2>1, <3>1, <3>2, <3>2a, <3>4, <3>6 DEF Ordered
    <3> QED
      BY <3>5, <3>6
  <2> QED
    BY <2>2, <2>3
<1> QED
  BY <1>1, <1>2

LEMMA PublishPromise == IInv /\ Publish => Promise!Deliver
<1> SUFFICES ASSUME IInv, Publish PROVE Promise!Deliver
  OBVIOUS
<1>1. Waiting' = Waiting
  BY DEF Publish, backlog, Waiting
<1>2. topic \in 1..Topics
  BY Bounds DEF IInv, TypeOK, Publish
<1> QED
  BY <1>1, <1>2, PublishingOldest DEF Publish, faults, Promise!Deliver

\* A notification is settled, unless its file could not be deleted and is queued once more.
LEMMA DonePromise ==
  ASSUME IInv, Done
  PROVE  UNCHANGED Promise!vars \/ Promise!Settle
<1>1. \A t \in 1..Topics : Publishing \in Range(received[t])
  BY Bounds DEF IInv, TypeOK, Fit, Done
<1>2. Publishing \in Waiting
  BY PublishingOldest DEF Done
<1>3. /\ IInv' /\ sends' = sends /\ phase = "publish" /\ \A f \in DOMAIN files : files[f] # sends
      /\ UNCHANGED <<sends, received, disturbed, restarts>>
  BY DoneInv DEF Done, IInv, Fit, TypeOK
<1>4. Waiting' \subseteq Waiting /\ Waiting \ {Publishing} \subseteq Waiting'
  <2>1. CASE head
    <3>1. /\ Publishing = files[Head(queue)] /\ Head(queue) \in DOMAIN files /\ phase' = "clear"
          /\ queue # <<>> /\ queue \in Seq(Names(instant)) /\ queue' = Tail(queue)
          /\ Delete(Head(queue)) /\ left \subseteq DOMAIN files
      BY <2>1 DEF IInv, Fit, TypeOK, Names, Done, Publishing, Readable
    <3>2. /\ DOMAIN files \ {Head(queue)} \subseteq DOMAIN files' /\ DOMAIN files' \subseteq DOMAIN files
          /\ \A f \in DOMAIN files' : files'[f] = files[f]
      BY <3>1, Deleted
    <3>3. Range(queue') \subseteq Range(queue) /\ Range(queue) \subseteq Range(queue') \union {Head(queue)}
      BY <3>1, RangeTail
    <3>4. Queued' \subseteq Queued /\ Queued \ {Head(queue)} \subseteq Queued'
          /\ \A f \in Queued' : files'[f] = files[f]
      BY <3>2, <3>3 DEF Queued
    <3>5. ASSUME NEW w \in Waiting' PROVE w \in Waiting
      BY <1>3, <3>1, <3>4, <3>5, WaitingIs DEF Waiting, Queued
    <3>6. ASSUME NEW w \in Waiting, w # Publishing PROVE w \in Waiting'
      <4>1. CASE w = sends
        BY <1>3, <3>1, <4>1 DEF Waiting
      <4>2. CASE w # sends
        <5>1. PICK f \in Queued : w = files[f] /\ w # Broken
          BY <3>6, <4>2, WaitingIs
        <5>2. f \in Queued' /\ files'[f] = w
          BY <3>1, <3>4, <3>6, <5>1
        <5> QED
          BY <5>1, <5>2 DEF Waiting, Queued
      <4> QED
        BY <4>1, <4>2
    <3> QED
      BY <3>5, <3>6
  <2>2. CASE ~head
    <3>1. Publishing = sends /\ phase' = "idle" /\ UNCHANGED <<queue, files>>
      BY <2>2 DEF Done, Publishing
    <3> QED
      BY <1>3, <3>1 DEF Waiting
  <2> QED
    BY <2>1, <2>2
<1>5. CASE Publishing \in Waiting'
  <2>1. Waiting' = Waiting
    BY <1>4, <1>5
  <2> QED
    BY <1>3, <2>1 DEF Promise!vars
<1>6. CASE Publishing \notin Waiting'
  <2>1. Waiting' = Waiting \ {Publishing}
    BY <1>4, <1>6
  <2>2. \A t \in 1..Topics : Promise!Given(t, Publishing)
    BY <1>1 DEF Promise!Given, Range
  <2> QED
    BY <1>2, <1>3, <2>1, <2>2 DEF Promise!Settle
<1> QED
  BY <1>5, <1>6

\* With all the room taken there is more waiting than the limit.
LEMMA WaitingIsFull ==
  ASSUME IInv, phase # "idle", ~Room, ~disturbed
  PROVE  Promise!Full
<1> DEFINE number == [i \in 0..Limit |-> IF i = 0 THEN sends ELSE files[queue[i]]]
<1>1. /\ Limit \in Nat /\ \A i \in 1..Limit : i \in DOMAIN queue
      /\ Ordered /\ sends \in Nat
      /\ \A f \in DOMAIN files : files[f] \in Nat /\ files[f] < sends
  BY Bounds DEF IInv, Fit, TypeOK, Room
<1>2. number \in [0..Limit -> Waiting]
  <2>1. \A i \in 1..Limit : queue[i] \in Queued /\ files[queue[i]] # Broken
    BY <1>1 DEF Ordered, Queued, Range
  <2> QED
    BY <1>1, <2>1, WaitingIs
<1>3. \A i \in 1..Limit : number[i] < number[0] /\ number[i] \in Nat /\ number[0] \in Nat
  BY <1>1 DEF Ordered
<1>4. \A i, j \in 1..Limit : i < j => number[i] < number[j]
  BY <1>1 DEF Ordered
<1> HIDE DEF number
<1>5. ASSUME NEW i \in 0..Limit, NEW j \in 0..Limit, number[i] = number[j]
      PROVE  i = j
  <2>1. CASE i = 0 \/ j = 0
    BY <1>1, <1>3, <1>5, <2>1
  <2>2. CASE i \in 1..Limit /\ j \in 1..Limit
    BY <1>3, <1>4, <1>5, <2>2
  <2> QED
    BY <1>1, <2>1, <2>2
<1> QED
  BY <1>2, <1>5 DEF Promise!Full

LEMMA FailPromise ==
  ASSUME IInv, Fail \/ EmptyHead
  PROVE  UNCHANGED Promise!vars \/ Promise!Disturb \/ Promise!TurnAway
<1>1. /\ AddToBacklog /\ phase # "idle" /\ phase' = "idle"
      /\ UNCHANGED <<sends, received, restarts>>
      /\ sends # Broken /\ \A f \in DOMAIN files : files[f] # sends
  BY DEF Fail, EmptyHead, IInv, Fit, TypeOK, Broken
<1>2. \A w : w \in Waiting <=> (w # Broken /\ \E f \in Queued : w = files[f]) \/ w = sends
  BY <1>1, WaitingIs
<1>3. \A w : w \in Waiting' <=> (w # Broken /\ \E f \in Queued' : w = files'[f])
  BY <1>1 DEF Waiting, Queued
<1>4. ASSUME NEW now \in {instant, instant + 1}, Keep(<<now, target>>)
      PROVE  UNCHANGED Promise!vars \/ Promise!Disturb
  <2> DEFINE file == <<now, target>>
  <2>1. /\ files' = Written(file, sends) /\ queue' = Append(queue, file)
        /\ disturbed' = (disturbed \/ file \in Range(queue))
    BY <1>4 DEF Keep
  <2>2. queue \in Seq(Names(now)) /\ file \in Names(now)
    <3>1. instant \in Nat \ {0} /\ queue \in Seq(Names(instant)) /\ target \in Targets
      BY DEF IInv, TypeOK, Names
    <3> QED
      BY <3>1, NamesWider DEF Names
  <2> HIDE DEF file
  <2>3. Range(queue') = Range(queue) \union {file}
    BY <2>1, <2>2, RangeAppend
  <2>4. /\ DOMAIN files' = DOMAIN files \union {file} /\ files'[file] = sends
        /\ \A f \in DOMAIN files \ {file} : files'[f] = files[f]
    BY <2>1 DEF Written
  <2>5. Queued' = Queued \union {file} /\ \A f \in Queued \ {file} : files'[f] = files[f]
    BY <2>3, <2>4 DEF Queued
  <2>6. Waiting' \subseteq Waiting
    BY <1>2, <1>3, <2>4, <2>5
  <2>7. CASE file \in Range(queue)
    <3>1. disturbed' = TRUE
      BY <2>1, <2>7
    <3> QED
      BY <1>1, <2>6, <3>1 DEF Promise!Disturb
  <2>8. CASE file \notin Range(queue)
    <3>1. file \notin Queued
      BY <2>8 DEF Queued
    <3>2. Waiting \subseteq Waiting'
      BY <1>1, <1>2, <1>3, <2>4, <2>5, <3>1
    <3>3. disturbed' = disturbed
      BY <2>1, <2>8 DEF IInv, TypeOK
    <3> QED
      BY <1>1, <2>6, <3>2, <3>3 DEF Promise!vars
  <2> QED
    BY <2>7, <2>8
<1>5. ASSUME NEW now \in {instant, instant + 1}, KeepFails(<<now, target>>)
      PROVE  Promise!Disturb
  <2>1. Waiting' \subseteq Waiting
    <3>1. CASE UNCHANGED backlog
      BY <1>2, <1>3, <3>1 DEF backlog, Queued
    <3>2. CASE ~UNCHANGED backlog
      <4> DEFINE file == <<now, target>>
      <4>1. PICK content \in {Broken, sends} : files' = Written(file, content)
        BY <1>5, <3>2 DEF KeepFails
      <4>2. queue' = queue
        BY <1>5 DEF KeepFails, backlog
      <4> HIDE DEF file
      <4>3. /\ DOMAIN files' = DOMAIN files \union {file} /\ files'[file] = content
            /\ \A f \in DOMAIN files \ {file} : files'[f] = files[f]
        BY <4>1 DEF Written
      <4>4. \A f \in Queued' : (f = file /\ files'[f] = content) \/ (f \in Queued /\ files'[f] = files[f])
        BY <4>2, <4>3 DEF Queued
      <4> QED
        BY <1>2, <1>3, <4>4
    <3> QED
      BY <3>1, <3>2
  <2> QED
    BY <1>1, <1>5, <2>1 DEF KeepFails, Promise!Disturb
<1>6. CASE ~Room /\ UNCHANGED <<backlog, disturbed>>
  <2>1. Waiting' = Waiting \ {sends}
    BY <1>1, <1>2, <1>3, <1>6 DEF backlog, Queued
  <2>2. CASE disturbed
    BY <1>1, <1>6, <2>1, <2>2 DEF Promise!TurnAway
  <2>3. CASE ~disturbed
    BY <1>1, <1>6, <2>1, <2>3, WaitingIsFull DEF Promise!TurnAway
  <2> QED
    BY <2>2, <2>3
<1> QED
  <2>1. CASE Room
    <3>1. PICK now \in {instant, instant + 1} : Keep(<<now, target>>) \/ KeepFails(<<now, target>>)
      BY <1>1, <2>1 DEF AddToBacklog
    <3> QED
      BY <1>4, <1>5, <3>1
  <2>2. CASE ~Room
    BY <1>1, <1>6, <2>2 DEF AddToBacklog
  <2> QED
    BY <2>1, <2>2

LEMMA RestartPromise == IInv /\ Restart => Promise!Restart
<1> SUFFICES ASSUME IInv, Restart PROVE Promise!Restart
  OBVIOUS
<1>1. Waiting' = {}
  BY Nothing DEF Restart, Waiting
<1> QED
  BY <1>1 DEF Restart, Promise!Restart

LEMMA StutterPromise == UNCHANGED vars => UNCHANGED Promise!vars
BY DEF vars, worker, backlog, faults, Promise!vars, Waiting

\* Every step of the agent is one that an outbox may take.
LEMMA StepPromise == IInv /\ [Next]_vars => [Promise!Next]_Promise!vars
BY SendPromise, WorkPromise, UnreadablePromise, PublishPromise, DonePromise, FailPromise,
   RestartPromise, StutterPromise
   DEF Next, Work, Promise!Next

\* The agent keeps the promise of an outbox.
THEOREM PromiseKept == Spec => KeepsPromise
<1>1. Spec => Promise!Spec
  BY InitInv, StepInv, PromiseInit, StepPromise, PTL DEF Spec, Promise!Spec
<1> QED
  BY <1>1 DEF KeepsPromise

------------------------------------------------------------------------------
(* Order.                                                                   *)

\* A topic that was given something newer than what waits was given that, too.
Caught ==
  ~disturbed =>
    \A t \in 1..Topics : \A w \in Waiting, i \in DOMAIN received[t] :
      w < received[t][i] => Promise!Given(t, w)

LEMMA InitOrder == Init => Caught /\ FirstReceiptsInOrder
BY Nothing DEF Init, Caught, FirstReceiptsInOrder, Waiting

LEMMA QuietOrder ==
  ASSUME IInv, Caught, FirstReceiptsInOrder, UNCHANGED received, disturbed => disturbed',
         \A w \in Waiting' : w \in Waiting \/ w = sends + 1
  PROVE  Caught' /\ FirstReceiptsInOrder'
<1>1. disturbed \in BOOLEAN /\ sends \in Nat
      /\ \A t \in 1..Topics : \A i \in DOMAIN received[t] : received[t][i] \in 1..sends
  BY DEF IInv, TypeOK
<1>3. Caught'
  <2>1. SUFFICES ASSUME ~disturbed', NEW t \in 1..Topics, NEW w \in Waiting', NEW i \in DOMAIN received[t],
                        w < received[t][i]
                 PROVE  Promise!Given(t, w)'
    BY DEF Caught
  <2>2. w \in Waiting
    BY <1>1, <2>1
  <2>3. Promise!Given(t, w)
    BY <2>1, <2>2 DEF Caught
  <2> QED
    BY <2>3 DEF Promise!Given
<1>4. FirstReceiptsInOrder'
  BY DEF FirstReceiptsInOrder
<1> QED
  BY <1>3, <1>4

LEMMA PublishOrder ==
  ASSUME IInv, Caught, FirstReceiptsInOrder, Publish
  PROVE  Caught' /\ FirstReceiptsInOrder'
<1> DEFINE n == Publishing
<1>1. /\ topic \in 1..Topics /\ received \in [1..Topics -> Seq(1..sends)]
      /\ \A t \in 1..Topics : received'[t] = IF t = topic THEN Append(received[t], n) ELSE received[t]
      /\ disturbed' = disturbed
  BY Bounds DEF IInv, TypeOK, Publish
<1>2. n \in 1..sends /\ n \in Waiting /\ (disturbed \/ \A m \in Waiting : n <= m)
  BY PublishingType, PublishingOldest DEF Publish
<1>3. Waiting' = Waiting /\ Waiting \subseteq 1..sends
  BY WaitingIs DEF Publish, backlog, Waiting
<1>4. \A t \in 1..Topics :
        /\ Len(received[t]) \in Nat /\ DOMAIN received[t] = 1..Len(received[t])
        /\ \A i \in DOMAIN received[t] : received'[t][i] = received[t][i] /\ received[t][i] \in 1..sends
        /\ DOMAIN received[t] \subseteq DOMAIN received'[t]
        /\ \A i \in DOMAIN received'[t] : i \in DOMAIN received[t] \/ (i = Len(received[t]) + 1 /\ received'[t][i] = n)
  <2> SUFFICES ASSUME NEW t \in 1..Topics
               PROVE  /\ Len(received[t]) \in Nat /\ DOMAIN received[t] = 1..Len(received[t])
                      /\ \A i \in DOMAIN received[t] :
                           received'[t][i] = received[t][i] /\ received[t][i] \in 1..sends
                      /\ DOMAIN received[t] \subseteq DOMAIN received'[t]
                      /\ \A i \in DOMAIN received'[t] :
                           i \in DOMAIN received[t] \/ (i = Len(received[t]) + 1 /\ received'[t][i] = n)
    OBVIOUS
  <2> HIDE DEF n
  <2>1. received[t] \in Seq(1..sends) /\ n \in 1..sends
    BY <1>1, <1>2
  <2>2. /\ Len(received[t]) \in Nat /\ DOMAIN received[t] = 1..Len(received[t])
        /\ \A i \in DOMAIN received[t] : received[t][i] \in 1..sends
    <3> DEFINE S == 1..sends
               given == received[t]
    <3>1. given \in Seq(S)
      BY <2>1
    <3> HIDE DEF S, given
    <3>2. Len(given) \in Nat /\ DOMAIN given = 1..Len(given) /\ \A i \in DOMAIN given : given[i] \in S
      BY <3>1, SeqElements
    <3> QED
      BY <3>2 DEF S, given
  <2>3. received'[t] = received[t] \/ received'[t] = Append(received[t], n)
    BY <1>1
  <2>4. /\ DOMAIN Append(received[t], n) = 1..(Len(received[t]) + 1)
        /\ \A i \in DOMAIN received[t] : Append(received[t], n)[i] = received[t][i]
        /\ Append(received[t], n)[Len(received[t]) + 1] = n
    <3> DEFINE S == 1..sends
               given == received[t]
    <3>1. given \in Seq(S) /\ n \in S
      BY <2>1
    <3> HIDE DEF S, given
    <3>2. /\ DOMAIN Append(given, n) = 1..(Len(given) + 1)
          /\ \A i \in DOMAIN given : Append(given, n)[i] = given[i]
          /\ Append(given, n)[Len(given) + 1] = n
      BY <3>1, RangeAppend
    <3> QED
      BY <3>2 DEF given
  <2>5. \A i \in 1..(Len(received[t]) + 1) : i \in DOMAIN received[t] \/ i = Len(received[t]) + 1
    BY <2>2
  <2>6. CASE received'[t] = received[t]
    BY <2>2, <2>6
  <2>7. CASE received'[t] = Append(received[t], n)
    <3> DEFINE longer == Append(received[t], n)
    <3> HIDE DEF longer
    <3>1. /\ DOMAIN longer = 1..(Len(received[t]) + 1) /\ received'[t] = longer
          /\ \A i \in DOMAIN received[t] : longer[i] = received[t][i]
          /\ longer[Len(received[t]) + 1] = n
      BY <2>4, <2>7 DEF longer
    <3> QED
      BY <2>2, <2>5, <3>1
  <2> QED
    BY <2>3, <2>6, <2>7
<1> HIDE DEF n
<1>5. ASSUME ~disturbed PROVE Caught'
  <2>1. SUFFICES ASSUME NEW t \in 1..Topics, NEW w \in Waiting', NEW i \in DOMAIN received'[t],
                        w < received'[t][i]
                 PROVE  Promise!Given(t, w)'
    BY DEF Caught
  <2>2. i \in DOMAIN received[t]
    <3>1. w \in 1..sends /\ n \in 1..sends /\ n <= w /\ sends \in Nat
      BY <1>2, <1>3, <1>5 DEF IInv, TypeOK
    <3>2. received'[t][i] # n
      BY <2>1, <3>1
    <3> QED
      BY <1>4, <3>2
  <2>3. Promise!Given(t, w)
    BY <1>3, <1>4, <1>5, <2>1, <2>2 DEF Caught
  <2> QED
    BY <1>4, <2>3 DEF Promise!Given
<1>6. ASSUME ~disturbed PROVE FirstReceiptsInOrder'
  <2>1. SUFFICES ASSUME NEW t \in 1..Topics, NEW i \in DOMAIN received'[t], NEW j \in DOMAIN received'[t],
                        i < j, received'[t][j] < received'[t][i]
                 PROVE  \E k \in 1..(i - 1) : received'[t][k] = received'[t][j]
    BY DEF FirstReceiptsInOrder
  <2>2. i \in DOMAIN received[t] /\ i \in Nat
    BY <1>4, <2>1
  <2>3. SUFFICES \E k \in 1..(i - 1) : received[t][k] = received'[t][j]
    BY <1>4, <2>2
  <2>4. ASSUME NEW k \in DOMAIN received[t], i < k, received[t][k] < received[t][i]
        PROVE  \E l \in 1..(i - 1) : received[t][l] = received[t][k]
    BY <1>6, <2>2, <2>4 DEF FirstReceiptsInOrder
  <2>5. CASE j \in DOMAIN received[t]
    BY <1>4, <2>1, <2>2, <2>4, <2>5
  <2>6. CASE j \notin DOMAIN received[t]
    <3>1. received'[t][j] = n
      BY <1>4, <2>6
    <3>2. PICK k \in DOMAIN received[t] : received[t][k] = n
      BY <1>2, <1>4, <1>6, <2>1, <2>2, <3>1 DEF Caught, Promise!Given
    <3>3. CASE k < i
      BY <1>4, <2>2, <3>1, <3>2, <3>3
    <3>4. CASE i < k
      BY <1>4, <2>1, <2>2, <2>4, <3>1, <3>2, <3>4
    <3> QED
      BY <1>4, <2>1, <2>2, <3>1, <3>2, <3>3, <3>4
  <2> QED
    BY <2>5, <2>6
<1> QED
  BY <1>1, <1>5, <1>6 DEF Caught, FirstReceiptsInOrder

LEMMA StepOrder == IInv /\ [Next]_vars /\ Caught /\ FirstReceiptsInOrder => Caught' /\ FirstReceiptsInOrder'
<1> SUFFICES ASSUME IInv, [Next]_vars, Caught, FirstReceiptsInOrder
             PROVE  Caught' /\ FirstReceiptsInOrder'
  OBVIOUS
<1>1. CASE Publish
  BY <1>1, PublishOrder
<1>2. CASE ~Publish
  <2>1. UNCHANGED received /\ (disturbed => disturbed')
    <3>1. CASE Send \/ ReadHead \/ Cleared \/ Done \/ Restart \/ UNCHANGED vars
      <4>1. UNCHANGED received /\ UNCHANGED disturbed
        BY <3>1 DEF Send, ReadHead, Cleared, Done, Restart, vars
      <4> QED
        BY <4>1
    <3>2. CASE Unreadable
      BY <3>2 DEF Unreadable, CannotRead
    <3>3. CASE Fail \/ EmptyHead
      <4>1. UNCHANGED received /\ AddToBacklog
        BY <3>3 DEF Fail, EmptyHead
      <4>2. ASSUME NEW now \in {instant, instant + 1}, Keep(<<now, target>>) PROVE disturbed => disturbed'
        BY ZenonT(30), <4>2 DEF Keep
      <4>3. ASSUME NEW now \in {instant, instant + 1}, KeepFails(<<now, target>>) PROVE disturbed => disturbed'
        BY ZenonT(30), <4>3 DEF KeepFails
      <4>4. UNCHANGED <<backlog, disturbed>> => (disturbed => disturbed')
        OBVIOUS
      <4> QED
        BY <4>1, <4>2, <4>3, <4>4 DEF AddToBacklog
    <3> QED
      BY <1>2, <3>1, <3>2, <3>3 DEF Next, Work
  <2>2. \A w \in Waiting' : w \in Waiting \/ w = sends + 1
    <3>1. CASE Send
      BY <3>1, SendPromise DEF Promise!Accept, IInv, TypeOK
    <3>2. CASE ~Send
      <4>1. \/ UNCHANGED Promise!vars \/ Promise!Disturb \/ Promise!TurnAway \/ Promise!Settle \/ Promise!Restart
        BY <1>2, <3>2, WorkPromise, UnreadablePromise, DonePromise, FailPromise, RestartPromise, StutterPromise
           DEF Next, Work
      <4> QED
        BY <4>1 DEF Promise!vars, Promise!Disturb, Promise!TurnAway, Promise!Settle, Promise!Restart
    <3> QED
      BY <3>1, <3>2
  <2> QED
    BY <2>1, <2>2, QuietOrder
<1> QED
  BY <1>1, <1>2

\* As long as the disk behaves, subscribers see notifications in the order they were made.
THEOREM OldestFirst == Spec => []FirstReceiptsInOrder
BY InitInv, StepInv, InitOrder, StepOrder, PTL DEF Spec

==============================================================================
