-------------------------- MODULE StoreTransactions --------------------------
(***************************************************************************)
(* How the threads of the registry share its triple store.                 *)
(*                                                                         *)
(* A command validates inside one read transaction and executes inside     *)
(* another, a read or a write one (Command.performValidate and             *)
(* performExecute).  Every transaction passes through the one              *)
(* StoreBaseImpl object, whose synchronized methods and two plain fields   *)
(* (inTransaction, safeBlockCount) are common to all threads, down to TDB, *)
(* whose transactions belong to a thread.  Other threads open "safe read"  *)
(* blocks (message processors, marshallers), read transactions of their    *)
(* own (templates, exports) or transactions that bypass StoreBaseImpl      *)
(* (backup, facets).  A command may also have to reload the status         *)
(* lifecycle, which opens a safe read block inside the command's           *)
(* transaction while holding the lock of the Status class.                 *)
(*                                                                         *)
(* TDB (Jena 3.9, an external library) lets one writer in at a time, gives *)
(* a transaction the last committed state for its whole life, and refuses  *)
(* a second transaction in the same thread.                                *)
(***************************************************************************)
EXTENDS Naturals, FiniteSets

CONSTANTS
  Threads,     \* the threads that serve requests and messages
  NoThread,    \* "no thread holds it"
  MaxCommits,  \* bound: write transactions that commit
  MaxReloads   \* bound: changes of the lifecycle register that are announced

ASSUME ConstantsAssumption ==
  /\ IsFiniteSet(Threads)
  /\ NoThread \notin Threads
  /\ MaxCommits \in Nat
  /\ MaxReloads \in Nat

VARIABLES
  pc,              \* where each thread is (see Places)
  check,           \* how far each thread is in Status.load() (see Checks)
  txn,             \* TDB's transaction of each thread
  view,            \* the commit that transaction reads, 0 when there is none
  committed,       \* number of commits so far
  inTransaction,   \* StoreBaseImpl.inTransaction
  safeBlockCount,  \* StoreBaseImpl.safeBlockCount
  monitor,         \* the thread blocked inside a synchronized method of StoreBaseImpl
  needsLoad,       \* Status.needsLoad
  statusLock,      \* the thread inside Status.load(), which is static synchronized
  reloads          \* lifecycle changes announced so far

shared == <<inTransaction, safeBlockCount, monitor>>
status == <<needsLoad, statusLock, reloads>>
vars == <<pc, check, txn, view, committed, shared, status>>

(***************************************************************************)
(* "validate": in performValidate.  "decide": validated, not yet in        *)
(* performExecute.  "wait": in beginWrite, waiting for TDB's writer lock.  *)
(* "execute": in doExecute of an update, before its commit.  "read": in a  *)
(* read transaction.  "finish": before the end() of a command that         *)
(* committed, aborted or failed.  "safe": in a safe read block.  "direct": *)
(* in a read transaction opened on the TDBStore itself.                    *)
(***************************************************************************)
Places == {"idle", "validate", "decide", "wait", "execute", "read", "finish",
           "safe", "direct"}

(***************************************************************************)
(* "pending": the handler will consult a status.  "locked": in load(),     *)
(* about to begin its safe read.  "loading": inside that safe read.        *)
(***************************************************************************)
Checks == {"none", "pending", "locked", "loading"}

Goto(t, place) == pc' = [pc EXCEPT ![t] = place]

MonitorFree == monitor = NoThread

------------------------------------------------------------------------------
(* TDB, reached through TDBStore.                                          *)

WriterFree == \A t \in Threads : txn[t] # "write"

TdbBegin(t, mode) ==
  /\ txn[t] = "none"
  /\ txn' = [txn EXCEPT ![t] = mode]
  /\ view' = [view EXCEPT ![t] = committed]

\* commit, abort and end all leave the thread without a transaction; end aborts
\* a write transaction nobody committed, and does nothing where there is none.
TdbEnd(t) ==
  /\ txn' = [txn EXCEPT ![t] = "none"]
  /\ view' = [view EXCEPT ![t] = 0]

------------------------------------------------------------------------------
(* StoreBaseImpl.  beginWrite is in two steps, EnterBeginWrite and          *)
(* AcquireWriter, because it waits for TDB inside its synchronized body.    *)

\* Mutation: beginRead joins whatever transaction the shared flag speaks of.
BeginReadIfNone(t) ==
  /\ MonitorFree
  /\ IF inTransaction THEN UNCHANGED <<txn, view>> ELSE TdbBegin(t, "read")
  /\ inTransaction' = TRUE
  /\ UNCHANGED monitor

BeginRead(t) ==
  /\ MonitorFree
  /\ TdbBegin(t, "read")
  /\ inTransaction' = TRUE
  /\ UNCHANGED monitor

End(t) ==
  /\ MonitorFree
  /\ TdbEnd(t)
  /\ inTransaction' = FALSE
  /\ UNCHANGED monitor

BeginSafeRead(t) ==
  \/ /\ ~inTransaction
     /\ BeginRead(t)
     /\ safeBlockCount' = safeBlockCount + 1
  \/ /\ inTransaction
     /\ MonitorFree
     /\ safeBlockCount' = IF safeBlockCount > 0 THEN safeBlockCount + 1 ELSE 0
     /\ UNCHANGED <<txn, view, inTransaction, monitor>>

\* Mutation: the outermost endSafeRead ends the transaction and keeps the count.
EndSafeReadKeepsCount(t) ==
  \/ /\ safeBlockCount = 1
     /\ End(t)
     /\ UNCHANGED safeBlockCount
  \/ /\ safeBlockCount # 1
     /\ MonitorFree
     /\ safeBlockCount' = IF safeBlockCount > 0 THEN safeBlockCount - 1 ELSE 0
     /\ UNCHANGED <<txn, view, inTransaction, monitor>>

\* Mutation: endSafeRead counts down whether or not a block was counted.
EndSafeReadUnguarded(t) ==
  /\ safeBlockCount' = safeBlockCount - 1
  /\ IF safeBlockCount = 1
     THEN End(t)
     ELSE MonitorFree /\ UNCHANGED <<txn, view, inTransaction, monitor>>

EndSafeRead(t) ==
  \/ /\ safeBlockCount = 1
     /\ End(t)
     /\ safeBlockCount' = 0
  \/ /\ safeBlockCount # 1
     /\ MonitorFree
     /\ safeBlockCount' = IF safeBlockCount > 0 THEN safeBlockCount - 1 ELSE 0
     /\ UNCHANGED <<txn, view, inTransaction, monitor>>

------------------------------------------------------------------------------
(* Commands.                                                                *)

StartValidate(t) ==
  /\ pc[t] = "idle"
  /\ BeginRead(t)
  /\ Goto(t, "validate")
  /\ \E c \in {"none", "pending"} : check' = [check EXCEPT ![t] = c]
  /\ UNCHANGED <<committed, safeBlockCount, status>>

\* The request is refused (not valid, not authorised) or goes on to execute.
FinishValidate(t) ==
  /\ pc[t] = "validate" /\ check[t] = "none"
  /\ End(t)
  /\ \E next \in {"idle", "decide"} : Goto(t, next)
  /\ UNCHANGED <<check, committed, safeBlockCount, status>>

\* A command that only reads, or a template, form or export stream that brackets
\* its own reads with beginRead and end.
StartRead(t) ==
  /\ pc[t] \in {"idle", "decide"}
  /\ BeginRead(t)
  /\ Goto(t, "read")
  /\ \E c \in {"none", "pending"} : check' = [check EXCEPT ![t] = c]
  /\ UNCHANGED <<committed, safeBlockCount, status>>

EnterBeginWrite(t) ==
  /\ pc[t] = "decide"
  /\ MonitorFree
  /\ monitor' = t
  /\ Goto(t, "wait")
  /\ UNCHANGED <<check, txn, view, committed, inTransaction, safeBlockCount, status>>

\* Mutation: lockWrite does not wait for the writer before it.
AcquireWriterAtOnce(t) ==
  /\ pc[t] = "wait"
  /\ TdbBegin(t, "write")
  /\ inTransaction' = TRUE
  /\ monitor' = NoThread
  /\ Goto(t, "execute")
  /\ \E c \in {"none", "pending"} : check' = [check EXCEPT ![t] = c]
  /\ UNCHANGED <<committed, safeBlockCount, status>>

AcquireWriter(t) ==
  /\ pc[t] = "wait"
  /\ WriterFree
  /\ TdbBegin(t, "write")
  /\ inTransaction' = TRUE
  /\ monitor' = NoThread
  /\ Goto(t, "execute")
  /\ \E c \in {"none", "pending"} : check' = [check EXCEPT ![t] = c]
  /\ UNCHANGED <<committed, safeBlockCount, status>>

\* doExecute reaches store.commit(), which needs no monitor.
Commit(t) ==
  /\ pc[t] = "execute" /\ check[t] = "none"
  /\ txn[t] = "write"
  /\ committed < MaxCommits
  /\ committed' = committed + 1
  /\ TdbEnd(t)
  /\ Goto(t, "finish")
  /\ UNCHANGED <<check, shared, status>>

\* Mutation: the exception handler of performExecute leaves the abort to end().
AbortLeftToEnd(t) ==
  /\ pc[t] = "execute" /\ check[t] = "none"
  /\ Goto(t, "finish")
  /\ UNCHANGED <<check, txn, view, committed, shared, status>>

\* doExecute throws, which aborts before the end() in the finally clause.  A
\* commit outside a write transaction throws too.
Abort(t) ==
  /\ pc[t] = "execute" /\ check[t] = "none"
  /\ TdbEnd(t)
  /\ Goto(t, "finish")
  /\ UNCHANGED <<check, committed, shared, status>>

Finish(t) ==
  /\ pc[t] \in {"read", "finish"} /\ check[t] = "none"
  /\ End(t)
  /\ Goto(t, "idle")
  /\ UNCHANGED <<check, committed, safeBlockCount, status>>

------------------------------------------------------------------------------
(* Status.load(), which every question about a status calls first.          *)

ConsultStatus(t) ==
  /\ check[t] = "pending"
  /\ statusLock = NoThread
  /\ \/ /\ ~needsLoad
        /\ check' = [check EXCEPT ![t] = "none"]
        /\ UNCHANGED <<needsLoad, statusLock>>
     \/ /\ needsLoad
        /\ needsLoad' = FALSE
        /\ statusLock' = t
        /\ check' = [check EXCEPT ![t] = "locked"]
  /\ UNCHANGED <<pc, txn, view, committed, shared, reloads>>

LoadStatus(t) ==
  /\ check[t] = "locked"
  /\ BeginSafeRead(t)
  /\ check' = [check EXCEPT ![t] = "loading"]
  /\ UNCHANGED <<pc, committed, status>>

\* The flag says no transaction but the thread has one: TDB refuses to nest, the
\* exception leaves load() and the handler, and an update aborts.
LoadStatusThrows(t) ==
  /\ check[t] = "locked"
  /\ MonitorFree /\ ~inTransaction /\ txn[t] # "none"
  /\ statusLock' = NoThread
  /\ check' = [check EXCEPT ![t] = "none"]
  /\ Goto(t, "finish")
  /\ IF pc[t] = "execute" THEN TdbEnd(t) ELSE UNCHANGED <<txn, view>>
  /\ UNCHANGED <<committed, shared, needsLoad, reloads>>

StatusLoaded(t) ==
  /\ check[t] = "loading"
  /\ EndSafeRead(t)
  /\ statusLock' = NoThread
  /\ check' = [check EXCEPT ![t] = "none"]
  /\ UNCHANGED <<pc, committed, needsLoad, reloads>>

\* The message processor of the lifecycle register calls Status.needsReload().
LifecycleChanged ==
  /\ statusLock = NoThread
  /\ reloads < MaxReloads
  /\ reloads' = reloads + 1
  /\ needsLoad' = TRUE
  /\ UNCHANGED <<pc, check, txn, view, committed, shared, statusLock>>

------------------------------------------------------------------------------
(* Readers that are no commands.                                            *)

OpenSafe(t) ==
  /\ pc[t] = "idle"
  /\ BeginSafeRead(t)
  /\ Goto(t, "safe")
  /\ UNCHANGED <<check, committed, status>>

CloseSafe(t) ==
  /\ pc[t] = "safe"
  /\ EndSafeRead(t)
  /\ Goto(t, "idle")
  /\ UNCHANGED <<check, committed, status>>

\* BackupService and the facet browser take their read lock from TDBStore.
LockDirect(t) ==
  /\ pc[t] = "idle"
  /\ TdbBegin(t, "read")
  /\ Goto(t, "direct")
  /\ UNCHANGED <<check, committed, shared, status>>

EndDirect(t) ==
  /\ pc[t] = "direct"
  /\ TdbEnd(t)
  /\ Goto(t, "idle")
  /\ UNCHANGED <<check, committed, shared, status>>

\* A thread that a lost endSafeRead left in a transaction: any begin throws, and
\* the request fails before it has a block to leave.
BeginThrows(t) ==
  /\ pc[t] = "idle" /\ txn[t] # "none"
  /\ UNCHANGED vars

------------------------------------------------------------------------------
Init ==
  /\ pc = [t \in Threads |-> "idle"]
  /\ check = [t \in Threads |-> "none"]
  /\ txn = [t \in Threads |-> "none"]
  /\ view = [t \in Threads |-> 0]
  /\ committed = 0
  /\ inTransaction = FALSE
  /\ safeBlockCount = 0
  /\ monitor = NoThread
  /\ needsLoad = FALSE          \* Registry.startup has loaded the lifecycle
  /\ statusLock = NoThread
  /\ reloads = 0

\* The steps that a thread which has begun something takes without being asked.
Continue(t) ==
  \/ FinishValidate(t) \/ AcquireWriter(t) \/ Commit(t) \/ Abort(t) \/ Finish(t)
  \/ ConsultStatus(t) \/ LoadStatus(t) \/ LoadStatusThrows(t) \/ StatusLoaded(t)
  \/ CloseSafe(t) \/ EndDirect(t)

Arrive(t) ==
  \/ StartValidate(t) \/ StartRead(t) \/ EnterBeginWrite(t)
  \/ OpenSafe(t) \/ LockDirect(t) \/ BeginThrows(t)

Next == LifecycleChanged \/ \E t \in Threads : Arrive(t) \/ Continue(t)

\* A thread keeps running: what it can do next for good, it does.  Nothing is
\* assumed of who wins a monitor that several threads want, and no request has
\* to arrive.
Fairness == \A t \in Threads : WF_vars(Continue(t))

Spec == Init /\ [][Next]_vars /\ Fairness

------------------------------------------------------------------------------
(* Properties.                                                              *)

TypeOK ==
  /\ pc \in [Threads -> Places]
  /\ check \in [Threads -> Checks]
  /\ txn \in [Threads -> {"none", "read", "write"}]
  /\ view \in [Threads -> 0..MaxCommits]
  /\ committed \in 0..MaxCommits
  /\ inTransaction \in BOOLEAN
  /\ safeBlockCount \in Nat
  /\ monitor \in Threads \union {NoThread}
  /\ needsLoad \in BOOLEAN
  /\ statusLock \in Threads \union {NoThread}
  /\ reloads \in 0..MaxReloads

\* Until the lifecycle is changed, no command reloads it: every handler runs with the
\* lifecycle that startup loaded, and opens no safe read block of its own.
LifecycleSettled == reloads = 0

\* A command's handler runs from its begin to its commit, abort or end inside a
\* transaction of its own thread and of the kind it asked for, whatever the other
\* threads do to the shared flag and count (performValidate, performExecute), as
\* long as handlers do not themselves open safe read blocks.
CommandOwnsTransaction ==
  LifecycleSettled =>
    \A t \in Threads :
      /\ pc[t] \in {"validate", "read"} => txn[t] = "read"
      /\ pc[t] = "execute" => txn[t] = "write"

\* The thread that holds TDB's writer lock is inside doExecute, and nothing stands
\* between it and its commit or abort, which need no monitor: the thread that waits
\* for the writer lock inside beginWrite, holding StoreBaseImpl's monitor, does not
\* wait for a thread that waits for that monitor.
WriterNeverQueues ==
  LifecycleSettled =>
    \A t \in Threads :
      txn[t] = "write" => pc[t] = "execute" /\ check[t] \in {"none", "pending"}

\* When no safe read block is open the count is back at zero, however the blocks of
\* different threads overlapped, so a count left behind never keeps a later block
\* from closing its transaction (beginSafeRead, endSafeRead).
SafeCountReturns ==
  (\A t \in Threads : pc[t] # "safe" /\ check[t] # "loading") => safeBlockCount = 0

\* A commit is made on top of the state its transaction read: no other commit comes
\* between the begin of a write transaction and its commit.  What a handler reads
\* inside performExecute of an update is still so when its writes take effect.
CommitOnTop ==
  [][committed' # committed =>
       \E t \in Threads :
         /\ txn[t] = "write" /\ view[t] = committed
         /\ \A u \in Threads \ {t} : txn[u] # "write"]_vars

\* An update that waits inside beginWrite gets the writer lock, as long as handlers
\* do not open safe read blocks.
WriterGranted ==
  \A t \in Threads : pc[t] = "wait" ~> (pc[t] = "execute" \/ ~LifecycleSettled)

\* Inside a safe read block the thread is in a transaction: beginSafeRead found one
\* or began one (the contract of StoreAPI.beginSafeRead).
SafeBlockReads ==
  \A t \in Threads : pc[t] = "safe" => txn[t] # "none"

\* Reloading the lifecycle inside a write transaction opens a safe read block that is
\* a no-op, so the update always leaves load() again (StoreAPI.beginSafeRead).
NestedSafeReadReturns ==
  \A t \in Threads : (pc[t] = "execute" /\ check[t] = "locked") ~> check[t] = "none"
==============================================================================
