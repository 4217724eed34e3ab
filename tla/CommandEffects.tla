---------------------------- MODULE CommandEffects ----------------------------
(***************************************************************************)
(* What follows a command's commit: a message to those who listen in this  *)
(* process, and a file in the request log.                                 *)
(*                                                                         *)
(* A command commits, then puts its message on the queue of the messaging  *)
(* service, then ends its transaction and writes its log file; none of     *)
(* this is under the lock that ordered the commits.  One worker takes      *)
(* messages off the queue.  The listener modelled here is the monitor of   *)
(* registers, which reads the item again when it is given a message with   *)
(* an entity, and passes on what came with any other.  The log can be      *)
(* replayed, file by file in the order of instants, to reconstruct the     *)
(* registry.                                                               *)
(***************************************************************************)
EXTENDS Integers, Sequences, FiniteSets, Functions

CONSTANTS
  Items,
  Threads,      \* how many requests are served at a time
  MaxRequests,  \* bound: requests that pass validation
  MaxAccidents  \* bound: failures by accident, log files that cannot be written, and crashes

ASSUME EffectsAssumption ==
  Threads \in Nat /\ MaxRequests \in Nat /\ MaxAccidents \in Nat

Ids == 1..MaxRequests

\* A batch is the registration of a collection.  A patch is one of an item without its
\* definition.  A status update stands for annotations and deletions, too, and a graph for
\* all that is written and not announced: graphs, imports, and what happens to the members
\* when the status of a register is updated.
Operations ==
  {"register", "batch", "update", "patch", "statusUpdate", "realDelete", "graph"}

Absent == 0     \* what there is of an item that is not there
Unlogged == 0   \* the instant of a log file that was not written

VARIABLES
  store,    \* the request that last wrote each item
  request,  \* the requests accepted so far, in that order
  queue,    \* the messages that wait for the worker, by request
  handled,  \* the messages that the monitor was given
  told,     \* what subscribers last heard of each item
  log,      \* the request that wrote each log file, by instant and operation
  instant,  \* of the last file written
  accidents

vars == <<store, request, queue, handled, told, log, instant, accidents>>

Made == DOMAIN request
Running == {n \in Made : request[n].pc # "done"}

\* pc is what comes next.  The outcome is open, then committed, refused by the handler,
\* failed by accident, and lost when the server stops before the end.  A request that is
\* announced has a message.  The stamp is the instant of its log file, which is whole when it
\* holds the request as it came.
RequestOf(op, item) ==
  [op |-> op, item |-> item, pc |-> "execute", outcome |-> "open", announced |-> FALSE,
   stamp |-> Unlogged, whole |-> FALSE, after |-> Made \ Running]

\* What validate asks of what there is of the item.
Accepts(op, content) ==
  /\ op = "register" => content = Absent
  /\ op \in {"update", "patch"} => content # Absent

\* What execution asks of it: a registration looks again, and a batch, a status update and
\* an annotation look for the first time.
Allows(op, content) ==
  /\ op \in {"register", "batch"} => content = Absent
  /\ op = "statusUpdate" => content # Absent

Outcome(op, n) == IF op = "realDelete" THEN Absent ELSE n

\* Whether the message of a request names an entity.
WithEntity(op) == op \in {"register", "batch", "update"}

\* Whether a request that is carried out sends no message: to erase what is not there is
\* a success too.
Silent(op, content) == op = "graph" \/ (op = "realDelete" /\ content = Absent)

------------------------------------------------------------------------------
(* Commands.                                                                *)

\* The request is accepted by validate, in a transaction of its own.
Begin ==
  /\ Len(request) < MaxRequests /\ Cardinality(Running) < Threads
  /\ \E op \in Operations, x \in Items :
       /\ Accepts(op, store[x])
       /\ request' = Append(request, RequestOf(op, x))
  /\ UNCHANGED <<store, queue, handled, told, log, instant, accidents>>

Accident == accidents < MaxAccidents /\ accidents' = accidents + 1

Ends(n, outcome, announced) ==
  request' = [request EXCEPT ![n] =
                [@ EXCEPT !.outcome = outcome, !.announced = announced,
                          !.pc = IF announced THEN "notify" ELSE "log"]]

\* Mutation: the message is sent whatever became of the request.
ExecuteThenNotify(n) ==
  LET r == request[n] IN
  /\ r.pc = "execute"
  /\ \/ /\ Allows(r.op, store[r.item])
        /\ store' = [store EXCEPT ![r.item] = Outcome(r.op, n)]
        /\ Ends(n, "committed", TRUE)
     \/ UNCHANGED store /\ Ends(n, "failed", TRUE)
  /\ UNCHANGED <<queue, handled, told, log, instant, accidents>>

\* doExecute up to the commit.  An update does not look again at what validate saw.
Execute(n) ==
  LET r == request[n] IN
  /\ r.pc = "execute"
  /\ \/ /\ Allows(r.op, store[r.item])
        /\ store' = [store EXCEPT ![r.item] = Outcome(r.op, n)]
        /\ Ends(n, "committed", ~Silent(r.op, store[r.item]))
        /\ UNCHANGED accidents
     \/ /\ ~Allows(r.op, store[r.item])
        /\ Ends(n, "refused", FALSE)
        /\ UNCHANGED <<store, accidents>>
     \/ /\ Accident
        /\ Ends(n, "failed", FALSE)
        /\ UNCHANGED store
  /\ UNCHANGED <<queue, handled, told, log, instant>>

\* Mutation: the message of an item that was erased meanwhile is not sent.
NotifyUnlessErased(n) ==
  /\ request[n].pc = "notify"
  /\ queue' = IF request[n].op # "realDelete" /\ store[request[n].item] = Absent
              THEN queue ELSE Append(queue, n)
  /\ request' = [request EXCEPT ![n].pc = "log"]
  /\ UNCHANGED <<store, handled, told, log, instant, accidents>>

Notify(n) ==
  /\ request[n].pc = "notify"
  /\ queue' = Append(queue, n)
  /\ request' = [request EXCEPT ![n].pc = "log"]
  /\ UNCHANGED <<store, handled, told, log, instant, accidents>>

Finished(n, stamp, whole) ==
  /\ request' = [request EXCEPT ![n] =
                   [@ EXCEPT !.pc = "done", !.stamp = stamp, !.whole = whole]]
  /\ UNCHANGED <<store, queue, handled, told>>

\* The name of the operation in a file's name.
Name(op) == CASE op = "batch" -> "register"
              [] op = "patch" -> "update"
              [] OTHER        -> op

\* A file of that name is made, or written over.
Filed(name, n) == [f \in DOMAIN log \union {name} |-> IF f = name THEN n ELSE log[f]]

\* Whether the payload is still what it was when it came.  A batch takes the members out of
\* it as soon as it looks for them; one that failed before that is counted with the others.
Intact(op) == op # "batch"

\* Mutation: requests that bring no payload are not logged.
WriteLogOfPayload(n) ==
  /\ request[n].pc = "log"
  /\ \E now \in {instant, instant + 1} :
       /\ instant' = now
       /\ log' = IF request[n].op = "realDelete" THEN log
                 ELSE Filed(<<now, Name(request[n].op)>>, n)
       /\ Finished(n, now, Intact(request[n].op))
  /\ UNCHANGED accidents

\* Every request that got as far as execution is logged, whatever became of it, with the
\* payload as execution left it.  The file is named after the instant and the operation and
\* replaces one of the same name.  The instant is that of the last file or a later one.
WriteLog(n) ==
  /\ request[n].pc = "log"
  /\ \E now \in {instant, instant + 1} :
       /\ instant' = now
       /\ log' = Filed(<<now, Name(request[n].op)>>, n)
       /\ Finished(n, now, Intact(request[n].op))
  /\ UNCHANGED accidents

\* The file cannot be opened, or was opened, and emptied if there was one of that name, and
\* cannot be written to the end: the error is logged and the response is sent.
WriteLogFails(n) ==
  /\ request[n].pc = "log" /\ Accident
  /\ \/ Finished(n, Unlogged, FALSE) /\ UNCHANGED <<log, instant>>
     \/ \E now \in {instant, instant + 1} :
          /\ instant' = now
          /\ log' = Filed(<<now, Name(request[n].op)>>, n)
          /\ Finished(n, now, FALSE)

------------------------------------------------------------------------------
(* The messaging service and the monitor.                                   *)

\* Mutation: the monitor sends what the message brought.
ContentAsSent(n) == Outcome(request[n].op, n)

\* What the monitor sends: the item as it is now, when the message names an entity and there
\* is an item; otherwise what came with the message.
Content(n) ==
  LET r == request[n] IN
  IF WithEntity(r.op) /\ store[r.item] # Absent THEN store[r.item] ELSE Outcome(r.op, n)

\* The worker gives the monitor the ith message that waits.
Handle(i) ==
  /\ handled' = Append(handled, queue[i])
  /\ told' = [told EXCEPT ![request[queue[i]].item] = Content(queue[i])]
  /\ queue' = SubSeq(queue, 1, i - 1) \o SubSeq(queue, i + 1, Len(queue))
  /\ UNCHANGED <<store, request, log, instant, accidents>>

\* Mutation: a pool of workers, any of which may be the next to get on.
ProcessAny == \E i \in DOMAIN queue : Handle(i)

\* The one worker of the executor.
Process == queue # <<>> /\ Handle(1)

------------------------------------------------------------------------------
\* The queue is in memory; the log, and what subscribers heard, are not.
Crash ==
  /\ Accident
  /\ request' = [n \in Made |-> IF n \in Running \union Range(queue)
                                THEN [request[n] EXCEPT !.outcome = "lost", !.pc = "done"]
                                ELSE request[n]]
  /\ queue' = <<>>
  /\ UNCHANGED <<store, handled, told, log, instant>>

Init ==
  /\ store = [x \in Items |-> Absent] /\ told = store
  /\ request = <<>> /\ queue = <<>> /\ handled = <<>>
  /\ log = [f \in {} |-> Absent] /\ instant = 1 /\ accidents = 0

Continue(n) ==
  n \in Made /\ (Execute(n) \/ Notify(n) \/ WriteLog(n) \/ WriteLogFails(n))

Next == Begin \/ (\E n \in Ids : Continue(n)) \/ Process \/ Crash

\* Threads that serve a request and the worker are scheduled.
Fairness == (\A n \in Ids : WF_vars(Continue(n))) /\ WF_vars(Process)

Spec == Init /\ [][Next]_vars /\ Fairness

------------------------------------------------------------------------------
(* Replay.                                                                  *)

\* What a request does when it is replayed.
Replayed(state, n) ==
  LET r == request[n] IN
  IF Accepts(r.op, state[r.item]) /\ Allows(r.op, state[r.item])
  THEN [state EXCEPT ![r.item] = Outcome(r.op, n)]
  ELSE state

\* Of a file that is not whole nothing is made: a batch without its members is refused.
ReplayFile(state, name) ==
  IF name \in DOMAIN log /\ request[log[name]].whole THEN Replayed(state, log[name]) ELSE state

\* The files of one instant in the order of their names, the names of the operations.  The
\* instants are in the order of time: the milliseconds in a name are not padded, and whoever
\* replays has to read them as numbers.
ReplayInstant(state, at) ==
  ReplayFile(ReplayFile(ReplayFile(ReplayFile(ReplayFile(state,
    <<at, "graph">>), <<at, "realDelete">>), <<at, "register">>), <<at, "statusUpdate">>),
    <<at, "update">>)

\* What the files of the instants up to one reconstruct.
ReplayedUpTo[at \in 0..instant] ==
  IF at = 0 THEN [x \in Items |-> Absent] ELSE ReplayInstant(ReplayedUpTo[at - 1], at)

Replay == ReplayedUpTo[instant]

------------------------------------------------------------------------------
(* Properties.                                                              *)

On(x) == {n \in Made : request[n].item = x}

FileOf(n) == <<request[n].stamp, Name(request[n].op)>>

Overlap(m, n) == m # n /\ m \notin request[n].after /\ n \notin request[m].after

TypeOK ==
  /\ store \in [Items -> 0..MaxRequests] /\ told \in [Items -> 0..MaxRequests]
  /\ \A n \in Made :
       /\ request[n].op \in Operations /\ request[n].item \in Items
       /\ request[n].pc \in {"execute", "notify", "log", "done"}
       /\ request[n].outcome \in {"open", "committed", "refused", "failed", "lost"}
       /\ request[n].outcome = "open" <=> request[n].pc = "execute"
  /\ \A n \in Range(queue) : n \in Made /\ request[n].outcome = "committed"
  /\ \A f \in DOMAIN log : f[1] <= instant /\ log[f] \in Made

\* The monitor is given a message once at most, for something that was committed, and if
\* one request was over before another began, it hears of it first (Command.notify,
\* LocalMessagingService).
HeardInOrder ==
  /\ \A i \in DOMAIN handled : request[handled[i]].outcome \in {"committed", "lost"}
  /\ \A i, j \in DOMAIN handled :
       i < j => handled[i] # handled[j] /\ handled[j] \notin request[handled[i]].after

\* When all is quiet, subscribers have heard what is in the store of an item, although
\* messages may have overtaken each other, because the monitor reads the item again.  It does
\* not when the message names no entity: a status update, an annotation, a deletion or a
\* patch of the item alone must not have overlapped with anything else on the item.  Nor does
\* the property hold of what was written without a message, or when the server stopped
\* (RegistryMonitor.getModel).
SubscribersCatchUp ==
  Running = {} /\ queue = <<>> =>
    \A x \in Items :
      (\A n \in On(x) : /\ request[n].op # "graph" /\ request[n].outcome # "lost"
                        /\ WithEntity(request[n].op) \/ \A m \in On(x) : ~Overlap(m, n))
      => told[x] = store[x]

\* "reconstructing state from a log of actions": replaying the files gives the state of an
\* item whose requests did not overlap, did not fail by accident, and were all logged, those
\* that were carried out as they came, which leaves out batches, at different instants and in
\* files that no other request wrote over (Replication, GenericRequestLogger).
ReplayReconstructs ==
  Running = {} =>
    \A x \in Items :
      (\A m \in On(x) : /\ request[m].outcome \notin {"failed", "lost"}
                        /\ request[m].stamp # Unlogged
                        /\ request[m].outcome = "committed" => request[m].whole
                        /\ \A n \in On(x) : ~Overlap(m, n)
                        /\ \A n \in On(x) \ {m} : request[n].stamp # request[m].stamp
                        /\ \A n \in Made \ {m} : FileOf(n) # FileOf(m))
      => Replay[x] = store[x]

Unheard(n) ==
  request[n].announced /\ request[n].outcome # "lost" /\ n \notin Range(handled)

\* What is announced of an item is heard of by the monitor, unless the server stops
\* (Command.notify, LocalMessagingService).  There are finitely many requests.
CommitsAreHeard ==
  \A x \in Items : (\E n \in On(x) : Unheard(n)) ~> (\A n \in On(x) : ~Unheard(n))
==============================================================================
