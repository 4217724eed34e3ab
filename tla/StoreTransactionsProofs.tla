----------------------- MODULE StoreTransactionsProofs -----------------------
(***************************************************************************)
(* Theorems about StoreTransactions, for every finite set of threads and   *)
(* every bound on commits and reloads.                                     *)
(*                                                                         *)
(* The argument has three parts.  TypeOK is inductive alone.  Snapshots    *)
(* says there is one writer at a time and that it reads the last commit,   *)
(* which gives CommitOnTop.  Settled describes the transactions of         *)
(* commands before the lifecycle is first changed, which gives             *)
(* CommandOwnsTransaction and WriterNeverQueues.  OpenBlocks counts the    *)
(* safe read blocks, which gives SafeCountReturns.                         *)
(***************************************************************************)
EXTENDS StoreTransactions, TLAPS, FiniteSetTheorems

LEMMA Bounds == MaxCommits \in Nat /\ MaxReloads \in Nat
BY ConstantsAssumption DEF ConstantsAssumption

\* Each action as a disjunct of Next, for the case splits below.
LEMMA NextCases ==
  ASSUME Next
  PROVE  \/ LifecycleChanged
         \/ \E t \in Threads :
              \/ StartValidate(t) \/ FinishValidate(t) \/ StartRead(t) \/ EnterBeginWrite(t)
              \/ AcquireWriter(t) \/ Commit(t) \/ Abort(t) \/ Finish(t)
              \/ ConsultStatus(t) \/ LoadStatus(t) \/ LoadStatusThrows(t) \/ StatusLoaded(t)
              \/ OpenSafe(t) \/ CloseSafe(t) \/ LockDirect(t) \/ EndDirect(t) \/ BeginThrows(t)
BY DEF Next, Arrive, Continue

------------------------------------------------------------------------------
(* Types.                                                                   *)

TxnTypes ==
  /\ txn \in [Threads -> {"none", "read", "write"}]
  /\ view \in [Threads -> 0..MaxCommits]

\* TDB's begin and end keep the types of its transactions.
LEMMA TdbTypes ==
  ASSUME TypeOK, NEW t \in Threads,
         \/ \E mode \in {"read", "write"} : TdbBegin(t, mode)
         \/ TdbEnd(t)
  PROVE  TxnTypes'
<1>1. CASE \E mode \in {"read", "write"} : TdbBegin(t, mode)
  BY <1>1 DEF TypeOK, TxnTypes, TdbBegin
<1>2. CASE TdbEnd(t)
  <2>1. 0 \in 0..MaxCommits
    BY Bounds
  <2> QED
    BY <1>2, <2>1 DEF TypeOK, TxnTypes, TdbEnd
<1> QED
  BY <1>1, <1>2

\* What begin, end and the safe read blocks do to the shared fields keeps their types.
LEMMA BlockTypes ==
  ASSUME TypeOK, NEW t \in Threads,
         \/ (BeginRead(t) \/ End(t)) /\ UNCHANGED safeBlockCount
         \/ BeginSafeRead(t)
         \/ EndSafeRead(t)
  PROVE  TxnTypes' /\ inTransaction' \in BOOLEAN /\ safeBlockCount' \in Nat /\ monitor' = monitor
<1>1. ASSUME BeginRead(t) \/ End(t)
      PROVE  TxnTypes' /\ inTransaction' \in BOOLEAN /\ monitor' = monitor
  BY <1>1, TdbTypes DEF BeginRead, End
<1>2. ASSUME UNCHANGED <<txn, view, inTransaction, monitor>>
      PROVE  TxnTypes' /\ inTransaction' \in BOOLEAN /\ monitor' = monitor
  BY <1>2 DEF TypeOK, TxnTypes
<1>3. CASE (BeginRead(t) \/ End(t)) /\ UNCHANGED safeBlockCount
  BY <1>1, <1>3 DEF TypeOK
<1>4. CASE BeginSafeRead(t)
  <2>1. safeBlockCount' \in Nat
    BY <1>4 DEF TypeOK, BeginSafeRead
  <2> QED
    BY <1>1, <1>2, <1>4, <2>1 DEF BeginSafeRead
<1>5. CASE EndSafeRead(t)
  <2>1. safeBlockCount' \in Nat
    BY <1>5 DEF TypeOK, EndSafeRead
  <2> QED
    BY <1>1, <1>2, <1>5, <2>1 DEF EndSafeRead
<1> QED
  BY <1>3, <1>4, <1>5

LEMMA TypeInitially == Init => TypeOK
<1> SUFFICES ASSUME Init PROVE TypeOK
  OBVIOUS
<1>1. pc \in [Threads -> Places] /\ check \in [Threads -> Checks]
  BY DEF Init, Places, Checks
<1>2. txn \in [Threads -> {"none", "read", "write"}] /\ view \in [Threads -> 0..MaxCommits]
  BY Bounds DEF Init
<1>3. committed \in 0..MaxCommits /\ reloads \in 0..MaxReloads
  BY Bounds DEF Init
<1> QED
  BY <1>1, <1>2, <1>3 DEF Init, TypeOK

LEMMA TypeStep == TypeOK /\ [Next]_vars => TypeOK'
<1> SUFFICES ASSUME TypeOK, [Next]_vars PROVE TypeOK'
  OBVIOUS
<1> USE DEF Places, Checks
<1>1. CASE UNCHANGED vars
  BY <1>1 DEF TypeOK, vars, shared, status
<1>2. CASE LifecycleChanged
  BY <1>2, Bounds DEF TypeOK, LifecycleChanged, shared
<1>3. ASSUME NEW t \in Threads, StartValidate(t) PROVE TypeOK'
  BY <1>3, BlockTypes DEF TypeOK, TxnTypes, StartValidate, Goto, status
<1>4. ASSUME NEW t \in Threads, FinishValidate(t) PROVE TypeOK'
  BY <1>4, BlockTypes DEF TypeOK, TxnTypes, FinishValidate, Goto, status
<1>5. ASSUME NEW t \in Threads, StartRead(t) PROVE TypeOK'
  BY <1>5, BlockTypes DEF TypeOK, TxnTypes, StartRead, Goto, status
<1>6. ASSUME NEW t \in Threads, EnterBeginWrite(t) PROVE TypeOK'
  BY <1>6 DEF TypeOK, EnterBeginWrite, Goto, status
<1>7. ASSUME NEW t \in Threads, AcquireWriter(t) PROVE TypeOK'
  BY <1>7, TdbTypes DEF TypeOK, TxnTypes, AcquireWriter, Goto, status
<1>8. ASSUME NEW t \in Threads, Commit(t) PROVE TypeOK'
  BY <1>8, TdbTypes, Bounds DEF TypeOK, TxnTypes, Commit, Goto, shared, status
<1>9. ASSUME NEW t \in Threads, Abort(t) PROVE TypeOK'
  BY <1>9, TdbTypes DEF TypeOK, TxnTypes, Abort, Goto, shared, status
<1>10. ASSUME NEW t \in Threads, Finish(t) PROVE TypeOK'
  BY <1>10, BlockTypes DEF TypeOK, TxnTypes, Finish, Goto, status
<1>11. ASSUME NEW t \in Threads, ConsultStatus(t) PROVE TypeOK'
  BY <1>11 DEF TypeOK, ConsultStatus, shared
<1>12. ASSUME NEW t \in Threads, LoadStatus(t) PROVE TypeOK'
  BY <1>12, BlockTypes DEF TypeOK, TxnTypes, LoadStatus, status
<1>13. ASSUME NEW t \in Threads, LoadStatusThrows(t) PROVE TypeOK'
  BY <1>13, TdbTypes DEF TypeOK, TxnTypes, LoadStatusThrows, Goto, shared
<1>14. ASSUME NEW t \in Threads, StatusLoaded(t) PROVE TypeOK'
  BY <1>14, BlockTypes DEF TypeOK, TxnTypes, StatusLoaded
<1>15. ASSUME NEW t \in Threads, OpenSafe(t) PROVE TypeOK'
  BY <1>15, BlockTypes DEF TypeOK, TxnTypes, OpenSafe, Goto, status
<1>16. ASSUME NEW t \in Threads, CloseSafe(t) PROVE TypeOK'
  BY <1>16, BlockTypes DEF TypeOK, TxnTypes, CloseSafe, Goto, status
<1>17. ASSUME NEW t \in Threads, LockDirect(t) PROVE TypeOK'
  BY <1>17, TdbTypes DEF TypeOK, TxnTypes, LockDirect, Goto, shared, status
<1>18. ASSUME NEW t \in Threads, EndDirect(t) PROVE TypeOK'
  BY <1>18, TdbTypes DEF TypeOK, TxnTypes, EndDirect, Goto, shared, status
<1>19. ASSUME NEW t \in Threads, BeginThrows(t) PROVE TypeOK'
  BY <1>19, <1>1 DEF BeginThrows
<1> QED
  BY NextCases, <1>1, <1>2, <1>3, <1>4, <1>5, <1>6, <1>7, <1>8, <1>9, <1>10,
     <1>11, <1>12, <1>13, <1>14, <1>15, <1>16, <1>17, <1>18, <1>19

\* Every variable keeps its type; in particular the count of safe read blocks never
\* goes below zero (beginSafeRead, endSafeRead).
THEOREM TypeCorrect == Spec => []TypeOK
BY TypeInitially, TypeStep, PTL DEF Spec
------------------------------------------------------------------------------
(* One writer at a time, and what it reads.                                 *)

Snapshots ==
  /\ \A t, u \in Threads : txn[t] = "write" /\ txn[u] = "write" => t = u
  /\ \A t \in Threads : txn[t] = "write" => view[t] = committed

LEMMA SnapshotsInitially == Init => Snapshots
BY DEF Init, Snapshots

LEMMA SnapshotsStep == TypeOK /\ Snapshots /\ [Next]_vars => Snapshots'
<1> SUFFICES ASSUME TypeOK, Snapshots, [Next]_vars PROVE Snapshots'
  OBVIOUS
<1>1. CASE UNCHANGED vars
  BY <1>1 DEF Snapshots, vars
<1>2. CASE LifecycleChanged
  BY <1>2 DEF Snapshots, LifecycleChanged
<1>3. ASSUME NEW t \in Threads, StartValidate(t) PROVE Snapshots'
  BY <1>3 DEF TypeOK, Snapshots, StartValidate, BeginRead, TdbBegin
<1>4. ASSUME NEW t \in Threads, FinishValidate(t) PROVE Snapshots'
  BY <1>4 DEF TypeOK, Snapshots, FinishValidate, End, TdbEnd
<1>5. ASSUME NEW t \in Threads, StartRead(t) PROVE Snapshots'
  BY <1>5 DEF TypeOK, Snapshots, StartRead, BeginRead, TdbBegin
<1>6. ASSUME NEW t \in Threads, EnterBeginWrite(t) PROVE Snapshots'
  BY <1>6 DEF TypeOK, Snapshots, EnterBeginWrite
<1>7. ASSUME NEW t \in Threads, AcquireWriter(t) PROVE Snapshots'
  BY <1>7 DEF TypeOK, Snapshots, AcquireWriter, WriterFree, TdbBegin
<1>8. ASSUME NEW t \in Threads, Commit(t) PROVE Snapshots'
  BY <1>8 DEF TypeOK, Snapshots, Commit, TdbEnd
<1>9. ASSUME NEW t \in Threads, Abort(t) PROVE Snapshots'
  BY <1>9 DEF TypeOK, Snapshots, Abort, TdbEnd
<1>10. ASSUME NEW t \in Threads, Finish(t) PROVE Snapshots'
  BY <1>10 DEF TypeOK, Snapshots, Finish, End, TdbEnd
<1>11. ASSUME NEW t \in Threads, ConsultStatus(t) PROVE Snapshots'
  BY <1>11 DEF TypeOK, Snapshots, ConsultStatus
<1>12. ASSUME NEW t \in Threads, LoadStatus(t) PROVE Snapshots'
  BY <1>12 DEF TypeOK, Snapshots, LoadStatus, BeginSafeRead, BeginRead, TdbBegin
<1>13. ASSUME NEW t \in Threads, LoadStatusThrows(t) PROVE Snapshots'
  BY <1>13 DEF TypeOK, Snapshots, LoadStatusThrows, TdbEnd
<1>14. ASSUME NEW t \in Threads, StatusLoaded(t) PROVE Snapshots'
  BY <1>14 DEF TypeOK, Snapshots, StatusLoaded, EndSafeRead, End, TdbEnd
<1>15. ASSUME NEW t \in Threads, OpenSafe(t) PROVE Snapshots'
  BY <1>15 DEF TypeOK, Snapshots, OpenSafe, BeginSafeRead, BeginRead, TdbBegin
<1>16. ASSUME NEW t \in Threads, CloseSafe(t) PROVE Snapshots'
  BY <1>16 DEF TypeOK, Snapshots, CloseSafe, EndSafeRead, End, TdbEnd
<1>17. ASSUME NEW t \in Threads, LockDirect(t) PROVE Snapshots'
  BY <1>17 DEF TypeOK, Snapshots, LockDirect, TdbBegin
<1>18. ASSUME NEW t \in Threads, EndDirect(t) PROVE Snapshots'
  BY <1>18 DEF TypeOK, Snapshots, EndDirect, TdbEnd
<1>19. ASSUME NEW t \in Threads, BeginThrows(t) PROVE Snapshots'
  BY <1>19 DEF TypeOK, Snapshots, BeginThrows, vars
<1> QED
  BY NextCases, <1>1, <1>2, <1>3, <1>4, <1>5, <1>6, <1>7, <1>8, <1>9, <1>10, <1>11,
     <1>12, <1>13, <1>14, <1>15, <1>16, <1>17, <1>18, <1>19

LEMMA SnapshotsInvariant == Spec => []Snapshots
BY TypeCorrect, SnapshotsInitially, SnapshotsStep, PTL DEF Spec

\* A write transaction commits on top of the state it read, and no other thread has a
\* write transaction open then: what the handler of an update reads inside
\* performExecute is still so when its writes take effect.
THEOREM CommitsOnTop == Spec => CommitOnTop
<1>1. ASSUME TypeOK, Snapshots, [Next]_vars
      PROVE  committed' # committed =>
               \E t \in Threads :
                 /\ txn[t] = "write" /\ view[t] = committed
                 /\ \A u \in Threads \ {t} : txn[u] # "write"
  <2>1. ASSUME NEW t \in Threads, Commit(t)
        PROVE  /\ txn[t] = "write" /\ view[t] = committed
               /\ \A u \in Threads \ {t} : txn[u] # "write"
    BY <1>1, <2>1 DEF Snapshots, Commit
  <2>2. committed' = committed \/ \E t \in Threads : Commit(t)
    BY <1>1, NextCases
       DEF vars, LifecycleChanged, StartValidate, FinishValidate, StartRead, EnterBeginWrite,
           AcquireWriter, Abort, Finish, ConsultStatus, LoadStatus, LoadStatusThrows,
           StatusLoaded, OpenSafe, CloseSafe, LockDirect, EndDirect, BeginThrows
  <2> QED
    BY <2>1, <2>2
<1> QED
  BY <1>1, TypeCorrect, SnapshotsInvariant, PTL DEF Spec, CommitOnTop

------------------------------------------------------------------------------
(* The transactions of commands before the lifecycle is first changed.      *)

Settled ==
  LifecycleSettled =>
    /\ ~needsLoad
    /\ \A t \in Threads :
         /\ check[t] \in {"none", "pending"}
         /\ pc[t] \in {"validate", "read"} => txn[t] = "read"
         /\ pc[t] = "execute" <=> txn[t] = "write"

LEMMA SettledInitially == Init => Settled
BY DEF Init, Settled

LEMMA SettledStep == TypeOK /\ Settled /\ [Next]_vars => Settled'
<1> SUFFICES ASSUME TypeOK, Settled, [Next]_vars PROVE Settled'
  OBVIOUS
<1>1. CASE UNCHANGED vars
  BY <1>1 DEF Settled, LifecycleSettled, vars, status
<1>2. CASE LifecycleChanged
  BY <1>2, Bounds DEF TypeOK, LifecycleSettled, Settled, LifecycleChanged
<1>3. ASSUME NEW t \in Threads, StartValidate(t) PROVE Settled'
  BY <1>3 DEF TypeOK, Settled, LifecycleSettled, StartValidate, BeginRead, TdbBegin, Goto, status
<1>4. ASSUME NEW t \in Threads, FinishValidate(t) PROVE Settled'
  BY <1>4 DEF TypeOK, Settled, LifecycleSettled, FinishValidate, End, TdbEnd, Goto, status
<1>5. ASSUME NEW t \in Threads, StartRead(t) PROVE Settled'
  BY <1>5 DEF TypeOK, Settled, LifecycleSettled, StartRead, BeginRead, TdbBegin, Goto, status
<1>6. ASSUME NEW t \in Threads, EnterBeginWrite(t) PROVE Settled'
  BY <1>6 DEF TypeOK, Settled, LifecycleSettled, EnterBeginWrite, Goto, status
<1>7. ASSUME NEW t \in Threads, AcquireWriter(t) PROVE Settled'
  BY <1>7 DEF TypeOK, Settled, LifecycleSettled, AcquireWriter, TdbBegin, Goto, status
<1>8. ASSUME NEW t \in Threads, Commit(t) PROVE Settled'
  BY <1>8 DEF TypeOK, Settled, LifecycleSettled, Commit, TdbEnd, Goto, status
<1>9. ASSUME NEW t \in Threads, Abort(t) PROVE Settled'
  BY <1>9 DEF TypeOK, Settled, LifecycleSettled, Abort, TdbEnd, Goto, status
<1>10. ASSUME NEW t \in Threads, Finish(t) PROVE Settled'
  BY <1>10 DEF TypeOK, Settled, LifecycleSettled, Finish, End, TdbEnd, Goto, status
<1>11. ASSUME NEW t \in Threads, ConsultStatus(t) PROVE Settled'
  BY <1>11 DEF TypeOK, Settled, LifecycleSettled, ConsultStatus
<1>12. ASSUME NEW t \in Threads, LoadStatus(t) PROVE Settled'
  BY <1>12 DEF TypeOK, Settled, LifecycleSettled, LoadStatus, status
<1>13. ASSUME NEW t \in Threads, LoadStatusThrows(t) PROVE Settled'
  BY <1>13 DEF TypeOK, Settled, LifecycleSettled, LoadStatusThrows
<1>14. ASSUME NEW t \in Threads, StatusLoaded(t) PROVE Settled'
  BY <1>14 DEF TypeOK, Settled, LifecycleSettled, StatusLoaded
<1>15. ASSUME NEW t \in Threads, OpenSafe(t) PROVE Settled'
  BY <1>15 DEF TypeOK, Settled, LifecycleSettled, OpenSafe, BeginSafeRead, BeginRead, TdbBegin, Goto, status
<1>16. ASSUME NEW t \in Threads, CloseSafe(t) PROVE Settled'
  BY <1>16 DEF TypeOK, Settled, LifecycleSettled, CloseSafe, EndSafeRead, End, TdbEnd, Goto, status
<1>17. ASSUME NEW t \in Threads, LockDirect(t) PROVE Settled'
  BY <1>17 DEF TypeOK, Settled, LifecycleSettled, LockDirect, TdbBegin, Goto, status
<1>18. ASSUME NEW t \in Threads, EndDirect(t) PROVE Settled'
  BY <1>18 DEF TypeOK, Settled, LifecycleSettled, EndDirect, TdbEnd, Goto, status
<1>19. ASSUME NEW t \in Threads, BeginThrows(t) PROVE Settled'
  BY <1>19 DEF TypeOK, Settled, LifecycleSettled, BeginThrows, vars, status
<1> QED
  BY NextCases, <1>1, <1>2, <1>3, <1>4, <1>5, <1>6, <1>7, <1>8, <1>9, <1>10, <1>11,
     <1>12, <1>13, <1>14, <1>15, <1>16, <1>17, <1>18, <1>19

LEMMA SettledInvariant == Spec => []Settled
BY TypeCorrect, SettledInitially, SettledStep, PTL DEF Spec

\* Until the lifecycle is first changed, a handler runs inside a transaction of its own
\* thread and of the kind it asked for (performValidate, performExecute).
THEOREM CommandsOwnTransactions == Spec => []CommandOwnsTransaction
<1>1. Settled => CommandOwnsTransaction
  BY DEF Settled, CommandOwnsTransaction
<1> QED
  BY <1>1, SettledInvariant, PTL

\* Until the lifecycle is first changed, the holder of the writer lock never needs the
\* monitor that the thread waiting for the lock holds (beginWrite).
THEOREM WritersNeverQueue == Spec => []WriterNeverQueues
<1>1. Settled => WriterNeverQueues
  BY DEF Settled, WriterNeverQueues
<1> QED
  BY <1>1, SettledInvariant, PTL

------------------------------------------------------------------------------
(* Counting the open safe read blocks.                                      *)

InBlock(t) == pc[t] = "safe" \/ check[t] = "loading"

Blocks == {t \in Threads : InBlock(t)}

\* A status is consulted only inside a handler.
ChecksInHandlers ==
  \A t \in Threads : check[t] # "none" => pc[t] \in {"validate", "read", "execute"}

OpenBlocks == ChecksInHandlers /\ safeBlockCount <= Cardinality(Blocks)

LEMMA BlocksFinite == IsFiniteSet(Blocks) /\ IsFiniteSet(Blocks')
<1>1. Blocks \in SUBSET Threads /\ Blocks' \in SUBSET Threads
  BY DEF Blocks
<1> QED
  BY <1>1, ConstantsAssumption, FS_Subset DEF ConstantsAssumption

LEMMA BlocksInitially == Init => OpenBlocks
<1> SUFFICES ASSUME Init PROVE OpenBlocks
  OBVIOUS
<1>1. ChecksInHandlers
  BY DEF Init, ChecksInHandlers
<1>2. Cardinality(Blocks) \in Nat
  BY BlocksFinite, FS_CardinalityType
<1> QED
  BY <1>1, <1>2 DEF Init, OpenBlocks

\* A block that opens is counted, unless it found a transaction and no count.
LEMMA BlockOpened ==
  ASSUME TypeOK, OpenBlocks, NEW t \in Threads \ Blocks, BeginSafeRead(t),
         Blocks' = Blocks \union {t}
  PROVE  safeBlockCount' <= Cardinality(Blocks')
<1>1. Cardinality(Blocks') = Cardinality(Blocks) + 1 /\ Cardinality(Blocks) \in Nat
  BY BlocksFinite, FS_AddElement, FS_CardinalityType
<1>2. safeBlockCount' = 0 \/ safeBlockCount' = safeBlockCount + 1
  BY DEF TypeOK, BeginSafeRead
<1> QED
  BY <1>1, <1>2 DEF OpenBlocks, TypeOK

\* A block that closes is counted down, unless the count is already zero.
LEMMA BlockClosed ==
  ASSUME TypeOK, OpenBlocks, NEW t \in Blocks, EndSafeRead(t), Blocks' = Blocks \ {t}
  PROVE  safeBlockCount' <= Cardinality(Blocks')
<1>1. Cardinality(Blocks') = Cardinality(Blocks) - 1 /\ Cardinality(Blocks) \in Nat
  BY BlocksFinite, FS_RemoveElement, FS_CardinalityType
<1>2. Cardinality(Blocks') \in Nat
  BY BlocksFinite, FS_CardinalityType
<1>3. safeBlockCount' = 0 \/ safeBlockCount' = safeBlockCount - 1
  BY DEF TypeOK, EndSafeRead
<1> QED
  BY <1>1, <1>2, <1>3 DEF OpenBlocks, TypeOK

\* A step that opens and closes no block leaves the count alone.
LEMMA BlocksKept ==
  ASSUME OpenBlocks, UNCHANGED safeBlockCount, \A u \in Threads : InBlock(u)' <=> InBlock(u)
  PROVE  safeBlockCount' <= Cardinality(Blocks')
<1>1. Blocks' = Blocks
  BY DEF Blocks
<1> QED
  BY <1>1 DEF OpenBlocks

LEMMA BlocksStep == TypeOK /\ OpenBlocks /\ [Next]_vars => OpenBlocks'
<1> SUFFICES ASSUME TypeOK, OpenBlocks, [Next]_vars PROVE OpenBlocks'
  OBVIOUS
<1>1. CASE UNCHANGED vars
  BY <1>1, BlocksKept DEF OpenBlocks, ChecksInHandlers, InBlock, vars, shared
<1>2. CASE LifecycleChanged
  BY <1>2, BlocksKept DEF OpenBlocks, ChecksInHandlers, InBlock, LifecycleChanged, shared
<1>3. ASSUME NEW t \in Threads, StartValidate(t) PROVE OpenBlocks'
  BY <1>3, BlocksKept DEF TypeOK, OpenBlocks, ChecksInHandlers, InBlock, StartValidate, Goto
<1>4. ASSUME NEW t \in Threads, FinishValidate(t) PROVE OpenBlocks'
  BY <1>4, BlocksKept DEF TypeOK, OpenBlocks, ChecksInHandlers, InBlock, FinishValidate, Goto
<1>5. ASSUME NEW t \in Threads, StartRead(t) PROVE OpenBlocks'
  BY <1>5, BlocksKept DEF TypeOK, OpenBlocks, ChecksInHandlers, InBlock, StartRead, Goto
<1>6. ASSUME NEW t \in Threads, EnterBeginWrite(t) PROVE OpenBlocks'
  BY <1>6, BlocksKept DEF TypeOK, OpenBlocks, ChecksInHandlers, InBlock, EnterBeginWrite, Goto
<1>7. ASSUME NEW t \in Threads, AcquireWriter(t) PROVE OpenBlocks'
  BY <1>7, BlocksKept DEF TypeOK, OpenBlocks, ChecksInHandlers, InBlock, AcquireWriter, Goto
<1>8. ASSUME NEW t \in Threads, Commit(t) PROVE OpenBlocks'
  BY <1>8, BlocksKept DEF TypeOK, OpenBlocks, ChecksInHandlers, InBlock, Commit, Goto, shared
<1>9. ASSUME NEW t \in Threads, Abort(t) PROVE OpenBlocks'
  BY <1>9, BlocksKept DEF TypeOK, OpenBlocks, ChecksInHandlers, InBlock, Abort, Goto, shared
<1>10. ASSUME NEW t \in Threads, Finish(t) PROVE OpenBlocks'
  BY <1>10, BlocksKept DEF TypeOK, OpenBlocks, ChecksInHandlers, InBlock, Finish, Goto
<1>11. ASSUME NEW t \in Threads, ConsultStatus(t) PROVE OpenBlocks'
  BY <1>11, BlocksKept DEF TypeOK, OpenBlocks, ChecksInHandlers, InBlock, ConsultStatus, shared
<1>12. ASSUME NEW t \in Threads, LoadStatus(t) PROVE OpenBlocks'
  <2>1. ChecksInHandlers'
    BY <1>12 DEF TypeOK, OpenBlocks, ChecksInHandlers, LoadStatus
  <2>2. t \notin Blocks /\ Blocks' = Blocks \union {t}
    BY <1>12 DEF TypeOK, OpenBlocks, ChecksInHandlers, Blocks, InBlock, LoadStatus
  <2> QED
    BY <1>12, <2>1, <2>2, BlockOpened DEF OpenBlocks, LoadStatus
<1>13. ASSUME NEW t \in Threads, LoadStatusThrows(t) PROVE OpenBlocks'
  BY <1>13, BlocksKept DEF TypeOK, OpenBlocks, ChecksInHandlers, InBlock, LoadStatusThrows, Goto, shared
<1>14. ASSUME NEW t \in Threads, StatusLoaded(t) PROVE OpenBlocks'
  <2>1. ChecksInHandlers'
    BY <1>14 DEF TypeOK, OpenBlocks, ChecksInHandlers, StatusLoaded
  <2>2. t \in Blocks /\ Blocks' = Blocks \ {t}
    BY <1>14 DEF TypeOK, OpenBlocks, ChecksInHandlers, Blocks, InBlock, StatusLoaded
  <2> QED
    BY <1>14, <2>1, <2>2, BlockClosed DEF OpenBlocks, StatusLoaded
<1>15. ASSUME NEW t \in Threads, OpenSafe(t) PROVE OpenBlocks'
  <2>1. ChecksInHandlers'
    BY <1>15 DEF TypeOK, OpenBlocks, ChecksInHandlers, OpenSafe, Goto
  <2>2. t \notin Blocks /\ Blocks' = Blocks \union {t}
    BY <1>15 DEF TypeOK, OpenBlocks, ChecksInHandlers, Blocks, InBlock, OpenSafe, Goto
  <2> QED
    BY <1>15, <2>1, <2>2, BlockOpened DEF OpenBlocks, OpenSafe
<1>16. ASSUME NEW t \in Threads, CloseSafe(t) PROVE OpenBlocks'
  <2>1. ChecksInHandlers'
    BY <1>16 DEF TypeOK, OpenBlocks, ChecksInHandlers, CloseSafe, Goto
  <2>2. t \in Blocks /\ Blocks' = Blocks \ {t}
    BY <1>16 DEF TypeOK, OpenBlocks, ChecksInHandlers, Blocks, InBlock, CloseSafe, Goto
  <2> QED
    BY <1>16, <2>1, <2>2, BlockClosed DEF OpenBlocks, CloseSafe
<1>17. ASSUME NEW t \in Threads, LockDirect(t) PROVE OpenBlocks'
  BY <1>17, BlocksKept DEF TypeOK, OpenBlocks, ChecksInHandlers, InBlock, LockDirect, Goto, shared
<1>18. ASSUME NEW t \in Threads, EndDirect(t) PROVE OpenBlocks'
  BY <1>18, BlocksKept DEF TypeOK, OpenBlocks, ChecksInHandlers, InBlock, EndDirect, Goto, shared
<1>19. ASSUME NEW t \in Threads, BeginThrows(t) PROVE OpenBlocks'
  BY <1>19, BlocksKept DEF TypeOK, OpenBlocks, ChecksInHandlers, InBlock, BeginThrows, vars, shared
<1> QED
  BY NextCases, <1>1, <1>2, <1>3, <1>4, <1>5, <1>6, <1>7, <1>8, <1>9, <1>10, <1>11,
     <1>12, <1>13, <1>14, <1>15, <1>16, <1>17, <1>18, <1>19

LEMMA BlocksInvariant == Spec => []OpenBlocks
BY TypeCorrect, BlocksInitially, BlocksStep, PTL DEF Spec

\* When no safe read block is open the count is zero, so a block opened later is the
\* outermost again and its end closes its transaction (beginSafeRead, endSafeRead).
THEOREM SafeCountAlwaysReturns == Spec => []SafeCountReturns
<1>1. TypeOK /\ OpenBlocks => SafeCountReturns
  <2> SUFFICES ASSUME TypeOK, OpenBlocks,
                      \A t \in Threads : pc[t] # "safe" /\ check[t] # "loading"
               PROVE  safeBlockCount = 0
    BY DEF SafeCountReturns
  <2>1. Blocks = {}
    BY DEF Blocks, InBlock
  <2> QED
    BY <2>1, FS_EmptySet DEF TypeOK, OpenBlocks
<1> QED
  BY <1>1, TypeCorrect, BlocksInvariant, PTL
==============================================================================
