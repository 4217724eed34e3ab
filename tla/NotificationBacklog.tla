------------------------- MODULE NotificationBacklog --------------------------
(***************************************************************************)
(* The agent that keeps the notifications a broker would not take.         *)
(*                                                                         *)
(* A notification that cannot be sent is written to a file, and the name   *)
(* of the file is put on a queue in memory.  Nothing retries on its own:   *)
(* the next notification first sends what is queued, the oldest first, and *)
(* goes itself only then.  A notification is published to its topics one   *)
(* by one and may fail at any of them, whereupon all of it is sent again   *)
(* later.  Only the worker of the messaging service calls the agent.  At   *)
(* startup the directory is emptied.                                       *)
(*                                                                         *)
(* The disk may fail at any of this: a file that cannot be written may be  *)
(* there all the same, with everything or with something unreadable in it  *)
(* and perhaps in the place of one that is queued; a file that cannot be   *)
(* deleted stays, and so may any when the directory cannot be emptied.     *)
(***************************************************************************)
EXTENDS Integers, Sequences, FiniteSets, Functions

CONSTANTS
  Targets,        \* the items that notifications are about
  Topics,         \* how many topics a notification goes to, numbered from 1
  Limit,          \* of the backlog
  MaxSends,       \* bound: notifications
  MaxFailures,    \* bound: failures of the broker
  MaxDiskFaults,  \* bound: failures of the disk
  MaxRestarts     \* bound: restarts

ASSUME BacklogAssumption ==
  /\ Topics \in Nat /\ Limit \in Nat
  /\ MaxSends \in Nat /\ MaxFailures \in Nat /\ MaxDiskFaults \in Nat /\ MaxRestarts \in Nat

VARIABLES
  sends,      \* notifications so far; the last is the one in hand
  target,     \* what the one in hand is about
  phase,      \* of the worker: idle, clear the backlog, publish
  head,       \* whether it publishes the head of the queue or the one in hand
  topic,      \* the topic it publishes to next
  queue,      \* names of files
  files,      \* the notification in each file
  instant,    \* of the last file
  left,       \* names of the files that a failure of the disk left behind
  received,   \* what each topic was given
  sent,       \* whether the last send ended well
  disturbed,  \* whether a file could not be written or read, or was written over
  failures, diskFaults, restarts

worker == <<phase, head, topic>>
backlog == <<queue, files, instant, left>>
faults == <<failures, diskFaults, restarts>>
vars == <<sends, target, worker, backlog, received, sent, disturbed, faults>>

\* What a file holds whose writing was broken off.
Broken == 0

Publishing == IF head THEN files[Head(queue)] ELSE sends

StartOn(first) == phase' = "publish" /\ head' = first /\ topic' = 1

------------------------------------------------------------------------------
Send ==
  /\ phase = "idle" /\ sends < MaxSends
  /\ sends' = sends + 1
  /\ target' \in Targets
  /\ phase' = "clear" /\ sent' = FALSE
  /\ UNCHANGED <<head, topic, backlog, received, disturbed, faults>>

Readable == Head(queue) \in DOMAIN files /\ files[Head(queue)] # Broken

\* Mutation: a notification leaves the backlog when it is read.
ReadHeadAndRemove ==
  /\ phase = "clear" /\ queue # <<>> /\ Readable
  /\ queue' = Tail(queue)
  /\ files' = Restrict(files, DOMAIN files \ {Head(queue)})
  /\ UNCHANGED <<sends, target, worker, instant, left, received, sent, disturbed, faults>>

\* clearBacklog, when the file at the head can be read.
ReadHead ==
  /\ phase = "clear" /\ queue # <<>> /\ Readable
  /\ StartOn(TRUE)
  /\ UNCHANGED <<sends, target, backlog, received, sent, disturbed, faults>>

CannotRead ==
  /\ phase = "clear" /\ queue # <<>>
  /\ \/ ~Readable /\ UNCHANGED diskFaults
     \/ diskFaults < MaxDiskFaults /\ diskFaults' = diskFaults + 1
  /\ disturbed' = TRUE
  /\ UNCHANGED <<sends, target, backlog, received, sent, failures, restarts>>

\* Mutation: clearBacklog goes on when it cannot read a file.
UnreadableAgain == CannotRead /\ UNCHANGED worker

\* clearBacklog returns when it cannot read a file, and send goes on with the one in hand.
Unreadable == CannotRead /\ StartOn(FALSE)

\* Mutation: the one in hand goes first.
ClearedLater ==
  /\ phase = "clear"
  /\ StartOn(FALSE)
  /\ UNCHANGED <<sends, target, backlog, received, sent, disturbed, faults>>

Cleared ==
  /\ phase = "clear" /\ queue = <<>>
  /\ StartOn(FALSE)
  /\ UNCHANGED <<sends, target, backlog, received, sent, disturbed, faults>>

\* JmsNotificationAgent.send, one topic after the other.
Publish ==
  /\ phase = "publish" /\ topic <= Topics
  /\ received' = [received EXCEPT ![topic] = Append(@, Publishing)]
  /\ topic' = topic + 1
  /\ UNCHANGED <<sends, target, phase, head, backlog, sent, disturbed, faults>>

\* The file is deleted, or cannot be, which nobody notices.
Delete(file) ==
  \/ /\ files' = Restrict(files, DOMAIN files \ {file})
     /\ left' = left \ {file}
     /\ UNCHANGED diskFaults
  \/ /\ diskFaults < MaxDiskFaults /\ diskFaults' = diskFaults + 1
     /\ left' = left \union {file}
     /\ UNCHANGED files

\* Mutation: the file stays.
DoneKeepsFile ==
  /\ phase = "publish" /\ topic > Topics
  /\ IF head THEN phase' = "clear" /\ queue' = Tail(queue) /\ UNCHANGED sent
             ELSE phase' = "idle" /\ sent' = TRUE /\ UNCHANGED queue
  /\ UNCHANGED <<sends, target, head, topic, files, instant, left, received, disturbed, faults>>

\* Mutation: only one of the backlog is sent before the one in hand.
DoneWithBacklog ==
  /\ phase = "publish" /\ topic > Topics
  /\ IF head
     THEN /\ StartOn(FALSE)
          /\ queue' = Tail(queue) /\ Delete(Head(queue))
          /\ UNCHANGED sent
     ELSE /\ phase' = "idle" /\ sent' = TRUE
          /\ UNCHANGED <<head, topic, queue, files, left, diskFaults>>
  /\ UNCHANGED <<sends, target, instant, received, disturbed, failures, restarts>>

Done ==
  /\ phase = "publish" /\ topic > Topics
  /\ IF head
     THEN /\ phase' = "clear"
          /\ queue' = Tail(queue) /\ Delete(Head(queue))
          /\ UNCHANGED sent
     ELSE /\ phase' = "idle" /\ sent' = TRUE
          /\ UNCHANGED <<queue, files, left, diskFaults>>
  /\ UNCHANGED <<sends, target, head, topic, instant, received, disturbed, failures, restarts>>

\* Mutation: an off-by-one in the limit.
RoomForOneMore == Len(queue) <= Limit

Room == Len(queue) < Limit

Written(file, content) ==
  [f \in DOMAIN files \union {file} |-> IF f = file THEN content ELSE files[f]]

\* writeToFile: the name is made of the instant and the target, and a file of that name
\* is written over.
Keep(file) ==
  /\ queue' = Append(queue, file)
  /\ files' = Written(file, sends)
  /\ instant' = file[1]
  /\ left' = left \ {file}
  /\ disturbed' = (disturbed \/ file \in Range(queue))

\* writeToFile fails before it has made the file, while it writes, or when it closes it.
\* The file is not queued.
KeepFails(file) ==
  /\ diskFaults < MaxDiskFaults /\ diskFaults' = diskFaults + 1
  /\ disturbed' = TRUE
  /\ \/ UNCHANGED backlog
     \/ /\ \E content \in {Broken, sends} : files' = Written(file, content)
        /\ instant' = file[1]
        /\ left' = left \union {file}
        /\ UNCHANGED queue

\* The one in hand joins the backlog if there is room and its file can be written, and is
\* lost otherwise.
AddToBacklog ==
  \/ /\ Room
     /\ \E now \in {instant, instant + 1} :
          \/ Keep(<<now, target>>) /\ UNCHANGED diskFaults
          \/ KeepFails(<<now, target>>)
  \/ ~Room /\ UNCHANGED <<backlog, disturbed, diskFaults>>

\* The broker fails at any point of a publication: before the first topic, between two,
\* or when the connection is closed.
Fail ==
  /\ phase = "publish" /\ failures < MaxFailures
  /\ failures' = failures + 1
  /\ phase' = "idle"
  /\ AddToBacklog
  /\ UNCHANGED <<sends, target, head, topic, received, sent, restarts>>

\* clearBacklog reads an empty file, from which no notification can be made: the
\* exception is taken for a failure of the broker, and the file stays at the head.
EmptyHead ==
  /\ phase = "clear" /\ queue # <<>>
  /\ Head(queue) \in DOMAIN files /\ files[Head(queue)] = Broken
  /\ phase' = "idle"
  /\ AddToBacklog
  /\ UNCHANGED <<sends, target, head, topic, received, sent, failures, restarts>>

\* The server stops, whatever the worker is doing, and starts again.  When the directory
\* cannot be emptied, that is only logged.
Restart ==
  /\ restarts < MaxRestarts
  /\ restarts' = restarts + 1
  /\ phase' = "idle" /\ sent' = FALSE
  /\ queue' = <<>>
  /\ \/ left' = {} /\ UNCHANGED diskFaults
     \/ /\ diskFaults < MaxDiskFaults /\ diskFaults' = diskFaults + 1
        /\ left' \in SUBSET DOMAIN files
  /\ files' = Restrict(files, left')
  /\ UNCHANGED <<sends, target, head, topic, instant, received, disturbed, failures>>

------------------------------------------------------------------------------
Init ==
  /\ sends = 0 /\ target \in Targets
  /\ phase = "idle" /\ head = FALSE /\ topic = 1
  /\ queue = <<>> /\ files = [f \in {} |-> 0] /\ instant = 1 /\ left = {}
  /\ received = [t \in 1..Topics |-> <<>>]
  /\ sent = FALSE /\ disturbed = FALSE
  /\ failures = 0 /\ diskFaults = 0 /\ restarts = 0

Work == ReadHead \/ Unreadable \/ Cleared \/ Publish \/ Done \/ Fail \/ EmptyHead

Next == Send \/ Work \/ Restart

\* The worker is scheduled.
Spec == Init /\ [][Next]_vars /\ WF_vars(Work)

------------------------------------------------------------------------------
(* Properties.                                                              *)

TypeOK ==
  /\ sends \in 0..MaxSends /\ target \in Targets
  /\ phase \in {"idle", "clear", "publish"} /\ head \in BOOLEAN /\ topic \in 1..(Topics + 1)
  /\ queue \in Seq((1..instant) \X Targets) /\ Len(queue) <= Limit
  /\ DOMAIN files \subseteq (1..instant) \X Targets /\ \A f \in DOMAIN files : files[f] \in 0..sends
  /\ instant \in Nat \ {0} /\ left \subseteq DOMAIN files
  /\ received \in [1..Topics -> Seq(1..sends)]
  /\ sent \in BOOLEAN /\ disturbed \in BOOLEAN

\* No file is left that the queue does not name, but for those that the disk would not
\* write, delete or clear: nothing else would ever remove it (clearBacklog, addToBacklog).
NoOrphanFiles == DOMAIN files \subseteq Range(queue) \union left

\* Subscribers see notifications in the order they were made, repetitions apart, as long
\* as the disk behaves (send, clearBacklog, JmsNotificationAgent.send).
FirstReceiptsInOrder ==
  ~disturbed =>
    \A t \in 1..Topics : \A i, j \in DOMAIN received[t] :
      i < j /\ received[t][j] < received[t][i] =>
        \E k \in 1..(i - 1) : received[t][k] = received[t][j]

\* A send that ends well leaves no backlog, as long as the disk behaves (clearBacklog).
SuccessDrains == sent /\ ~disturbed => queue = <<>>

\* A send ends, whatever is in the backlog (clearBacklog).
SendEnds == (phase # "idle") ~> (phase = "idle")

\* What the agent is responsible for: what is in files that are queued, and what it has
\* in hand.
Waiting ==
  ({files[f] : f \in Range(queue) \intersect DOMAIN files} \ {Broken})
    \union (IF phase = "idle" THEN {} ELSE {sends})

Promise == INSTANCE Outbox WITH
  Topics <- 1..Topics, Capacity <- Limit, accepted <- sends, waiting <- Waiting

\* The agent keeps the promise of an outbox: at least once, the oldest first, and nothing
\* is given up but for want of room or at a restart (BacklogNotificationAgent).
KeepsPromise == Promise!Spec
==============================================================================
