----------------------- MODULE ArchiveManagerProofs -----------------------
(***************************************************************************)
(* The byte budget of the in-memory archive path, for every set of         *)
(* cameras, budget, segment size and policy.                               *)
(***************************************************************************)
EXTENDS ArchiveManager, TLAPS

\* Batches stay batches when merged.
LEMMA MergeType ==
    ASSUME NEW b \in Batch, NEW d \in Batch
    PROVE  Merge(b, d) \in Batch
  BY DEF Batch, Merge

\* The empty batch is a batch.
LEMMA NoBatchType == NoBatch \in Batch
  BY DEF Batch, NoBatch

\* The three contents of a queue slot are of its type.
LEMMA SlotTypes ==
    /\ Empty \in QueueSlot
    /\ Poison \in QueueSlot
    /\ \A b \in Batch : Queued(b) \in QueueSlot
  BY NoBatchType DEF QueueSlot, Empty, Poison, Queued

\* The worker records the actions build, idle, ended, or going on with the same
\* batch in another state, are of the worker's type.
LEMMA WorkerTypes ==
    /\ NoWorker \in [state : WorkerState, batch : Batch, attempt : 0..2]
    /\ IdleWorker \in [state : WorkerState, batch : Batch, attempt : 0..2]
  BY NoBatchType DEF NoWorker, IdleWorker, WorkerState

LockType ==
    /\ holder \in [Camera -> Client \cup {Nobody}]
    /\ waiters \in [Camera -> Seq(Client)]

PcType == pc \in [Camera -> [Client -> Control]]

\* Asking for the lock, handing it over and leaving a queue keep its type.
LEMMA RequestType ==
    ASSUME LockType, NEW c \in Camera, NEW k \in Client, Request(c, k)
    PROVE  LockType'
  <1>1. CASE holder[c] = Nobody
    BY <1>1 DEF LockType, Request
  <1>2. CASE holder[c] # Nobody
    <2>1. Append(waiters[c], k) \in Seq(Client)
      BY DEF LockType
    <2> QED
      BY <1>2, <2>1 DEF LockType, Request
  <1> QED
    BY <1>1, <1>2

\* Handing the ingest lock over keeps the types of its owner and its queue.
LEMMA HandOverType ==
    ASSUME LockType, NEW c \in Camera, HandOver(c)
    PROVE  LockType'
  <1>1. CASE waiters[c] = <<>>
    BY <1>1 DEF LockType, HandOver
  <1>2. CASE waiters[c] # <<>>
    <2>1. Head(waiters[c]) \in Client /\ Tail(waiters[c]) \in Seq(Client)
      BY <1>2 DEF LockType
    <2> QED
      BY <1>2, <2>1 DEF LockType, HandOver
  <1> QED
    BY <1>1, <1>2

\* A queue of tasks with one taken out is a queue of tasks.
LEMMA WithoutType ==
    ASSUME NEW q \in Seq(Client), NEW k \in Client
    PROVE  Without(q, k) \in Seq(Client)
  <1>1. CASE \A i \in 1..Len(q) : q[i] # k
    BY <1>1 DEF Without
  <1>2. CASE \E i \in 1..Len(q) : q[i] = k
    <2>1. Len(q) \in Nat \ {0}
      BY <1>2
    <2>2. \A i \in 1..(Len(q) - 1) :
            (IF \E j \in 1..i : q[j] = k THEN q[i + 1] ELSE q[i]) \in Client
      BY <2>1
    <2>3. Without(q, k) \in [1..(Len(q) - 1) -> Client]
      BY <1>2, <2>2 DEF Without
    <2> QED
      BY <2>1, <2>3
  <1> QED
    BY <1>1, <1>2

\* Cancelling a task wherever it waits keeps the types of all it touches.
LEMMA WithdrawType ==
    ASSUME TypeOK, NEW k \in Client, Withdraw(k)
    PROVE  LockType' /\ PcType' /\ hand' \in [Camera -> Batch]
  <1>1. holder' \in [Camera -> Client \cup {Nobody}]
    BY DEF TypeOK, Withdraw
  <1>2. waiters' \in [Camera -> Seq(Client)]
    BY WithoutType DEF TypeOK, Withdraw
  <1>3. PcType'
    BY DEF TypeOK, Withdraw, PcType, Control
  <1>4. hand' \in [Camera -> Batch]
    BY NoBatchType DEF TypeOK, Withdraw
  <1> QED
    BY <1>1, <1>2, <1>3, <1>4 DEF LockType

\* Moving a client to a control point keeps the type of pc.
LEMMA AtType ==
    ASSUME PcType, NEW c \in Camera, NEW k \in Client, NEW l \in Control, At(c, k, l)
    PROVE  PcType'
  BY DEF PcType, At

\* Notifying a camera's budget waiter keeps the type of its control points.
LEMMA WokenType ==
    ASSUME NEW p \in [Client -> Control]
    PROVE  Woken(p) \in [Client -> Control]
  BY DEF Woken, Client, Control, Waiting

\* _release keeps the types of the budget and of the control points: the
\* subtraction is cut off at zero.
LEMMA ReleaseType ==
    ASSUME TypeOK, NEW c \in Camera, NEW n \in Nat, Release(c, n)
    PROVE  retained' \in [Camera -> Nat] /\ PcType'
  BY WokenType DEF TypeOK, Release, PcType

\* The accumulated batch with the offered segment appended is a batch.
LEMMA GrownType ==
    ASSUME TypeOK, NEW c \in Camera, NEW a \in Batch
    PROVE  /\ offered[c] \in Nat
           /\ Grown(c, a) \in Batch
           /\ Grown(c, a).bytes = a.bytes + offered[c]
  <1>1. offered[c] \in Nat /\ admitted[c].count + 1 \in Nat
    BY ConstantsAssumption DEF TypeOK
  <1>2. [segs |-> {admitted[c].count + 1}, bytes |-> offered[c]] \in Batch
    BY <1>1 DEF Batch
  <1> QED
    BY <1>1, <1>2, MergeType DEF Grown, Merge

\* Replacing one camera's accumulator, slot and hand keeps their types.
LEMMA SettleType ==
    ASSUME TypeOK, NEW c \in Camera, NEW a \in Batch, NEW q \in QueueSlot, NEW h \in Batch,
           Settle(c, a, q, h)
    PROVE  /\ accumulator' \in [Camera -> Batch]
           /\ queue' \in [Camera -> QueueSlot]
           /\ hand' \in [Camera -> Batch]
  BY DEF TypeOK, Settle

\* The rest of add(), from _reserve on, whatever it found or left.
LEMMA ReserveType ==
    ASSUME TypeOK, NEW c \in Camera, NEW a \in Batch, NEW q \in QueueSlot, Reserve(c, a, q)
    PROVE  /\ accumulator' \in [Camera -> Batch]
           /\ queue' \in [Camera -> QueueSlot]
           /\ hand' \in [Camera -> Batch]
           /\ retained' \in [Camera -> Nat]
           /\ admitted' \in [Camera -> [count : Nat, bytes : Nat]]
           /\ LockType' /\ PcType'
  <1>1. /\ accumulator' \in [Camera -> Batch]
        /\ queue' \in [Camera -> QueueSlot]
        /\ hand' \in [Camera -> Batch]
    <2>1. \E b \in Batch, s \in QueueSlot, h \in Batch : Settle(c, b, s, h)
      BY GrownType, NoBatchType, SlotTypes DEF Reserve, Refuse, AwaitBudget, Admit
    <2> QED
      BY <2>1, SettleType
  <1>2. retained' \in [Camera -> Nat]
    <2>1. CASE UNCHANGED retained
      BY <2>1 DEF TypeOK
    <2>2. CASE Admit(c, a, q)
      BY <2>2, GrownType, SMTT(30) DEF Admit, TypeOK
    <2> QED
      BY <2>1, <2>2 DEF Reserve, Refuse, AwaitBudget
  <1>3. admitted' \in [Camera -> [count : Nat, bytes : Nat]]
    <2>1. CASE UNCHANGED admitted
      BY <2>1 DEF TypeOK
    <2>2. CASE Admit(c, a, q)
      BY <2>2, GrownType, SMTT(30) DEF Admit, TypeOK
    <2> QED
      BY <2>1, <2>2 DEF Reserve, Refuse, AwaitBudget
  <1>4. LockType'
    <2>1. LockType
      BY DEF TypeOK, LockType
    <2>2. HandOver(c) \/ UNCHANGED lockVars
      BY DEF Reserve, Refuse, AwaitBudget, Admit, Leave
    <2> QED
      BY <2>1, <2>2, HandOverType DEF lockVars, LockType
  <1>5. PcType'
    <2>1. PcType
      BY DEF TypeOK, PcType
    <2>2. \E l \in Control : At(c, "ingest", l)
      BY DEF Reserve, Refuse, AwaitBudget, Admit, Leave, Control, Putting, Waiting
    <2> QED
      BY <2>1, <2>2, AtType DEF Client
  <1> QED
    BY <1>1, <1>2, <1>3, <1>4, <1>5

\* Every action keeps the types.
LEMMA TypeStep ==
    ASSUME TypeOK, [Next]_vars
    PROVE  TypeOK'
  <1> USE ConstantsAssumption
  <1>lock. LockType /\ PcType
    BY DEF TypeOK, LockType, PcType
  <1>1. CASE Start
    BY <1>1, WorkerTypes DEF TypeOK, Start, Life, history
  <1>2. ASSUME NEW c \in Camera, CallAdd(c)
        PROVE  TypeOK'
    <2>1. LockType' /\ PcType'
      BY <1>2, <1>lock, RequestType, AtType DEF CallAdd, Client, Control
    <2> QED
      BY <1>2, <2>1 DEF TypeOK, CallAdd, LockType, PcType, history
  <1>3. ASSUME NEW c \in Camera, NEW k \in Client, CallRotate(c, k)
        PROVE  TypeOK'
    <2>1. LockType' /\ PcType'
      BY <1>3, <1>lock, RequestType, AtType DEF CallRotate, Control
    <2> QED
      BY <1>3, <2>1 DEF TypeOK, CallRotate, LockType, PcType, history
  <1>4. ASSUME NEW c \in Camera, EnterAdd(c)
        PROVE  TypeOK'
    <2>1. accumulator[c] \in Batch /\ queue[c] \in QueueSlot
          /\ Queued(accumulator[c]) \in QueueSlot
      BY SlotTypes DEF TypeOK
    <2>2. CASE \E a \in Batch, q \in QueueSlot : Reserve(c, a, q)
      BY <1>4, <2>2, ReserveType DEF TypeOK, EnterAdd, LockType, PcType, backend
    <2>3. CASE /\ Settle(c, NoBatch, queue[c], accumulator[c])
               /\ At(c, "ingest", "putSplit")
               /\ UNCHANGED <<retained, admitted, lockVars>>
      <3>1. PcType'
        BY <2>3, <1>lock, AtType DEF Client, Control, Putting
      <3>2. /\ accumulator' \in [Camera -> Batch]
            /\ queue' \in [Camera -> QueueSlot]
            /\ hand' \in [Camera -> Batch]
        BY <2>1, <2>3, SettleType, NoBatchType
      <3> QED
        BY <1>4, <2>3, <3>1, <3>2 DEF TypeOK, EnterAdd, PcType, lockVars, backend
    <2> QED
      BY <1>4, <2>1, <2>2, <2>3, NoBatchType DEF EnterAdd, Reserve
  <1>5. ASSUME NEW c \in Camera, RecheckBudget(c)
        PROVE  TypeOK'
    <2>1. accumulator[c] \in Batch /\ queue[c] \in QueueSlot
      BY DEF TypeOK
    <2> QED
      BY <1>5, <2>1, ReserveType DEF TypeOK, RecheckBudget, LockType, PcType, backend
  <1>6. ASSUME NEW c \in Camera, NEW k \in Client, EnterRotate(c, k)
        PROVE  TypeOK'
    <2>1. accumulator[c] \in Batch /\ queue[c] \in QueueSlot
          /\ Queued(accumulator[c]) \in QueueSlot
      BY SlotTypes DEF TypeOK
    <2>2. \E a \in Batch, q \in QueueSlot, h \in Batch : Settle(c, a, q, h)
      BY <1>6, <2>1, NoBatchType DEF EnterRotate
    <2>3. LockType'
      BY <1>6, <1>lock, HandOverType DEF EnterRotate, Leave, lockVars, LockType
    <2>4. PcType'
      <3>1. \E l \in Control : At(c, k, l)
        BY <1>6 DEF EnterRotate, Leave, AfterRotate, Control, Putting
      <3> QED
        BY <1>lock, <3>1, AtType
    <2> QED
      BY <1>6, <2>2, <2>3, <2>4, SettleType DEF TypeOK, EnterRotate, LockType, PcType, history
  <1>7. ASSUME NEW c \in Camera, NEW k \in Client, UnblockSplit(c) \/ Unblock(c, k)
        PROVE  TypeOK'
    <2>1. accumulator[c] \in Batch /\ Queued(hand[c]) \in QueueSlot
      BY SlotTypes DEF TypeOK
    <2>2. CASE UnblockSplit(c)
      BY <2>1, <2>2, ReserveType DEF TypeOK, UnblockSplit, LockType, PcType, backend
    <2>3. CASE Unblock(c, k)
      <3>1. LockType' /\ PcType'
        BY <2>3, <1>lock, HandOverType, AtType DEF Unblock, Leave, AfterRotate, Control
      <3>2. /\ accumulator' \in [Camera -> Batch]
            /\ queue' \in [Camera -> QueueSlot]
            /\ hand' \in [Camera -> Batch]
        BY <2>1, <2>3, SettleType, NoBatchType DEF Unblock
      <3> QED
        BY <2>3, <3>1, <3>2 DEF TypeOK, Unblock, LockType, PcType, history
    <2> QED
      BY <1>7, <2>2, <2>3
  <1>8. ASSUME NEW c \in Camera, GetBatch(c)
        PROVE  TypeOK'
    <2>1. queue[c].batch \in Batch
      BY DEF TypeOK, QueueSlot
    <2> QED
      BY <1>8, <2>1, WorkerTypes, SlotTypes, SMTT(30)
      DEF TypeOK, GetBatch, WorkerState, lockVars, history
  <1>9. ASSUME NEW c \in Camera, WriteSucceeds(c) \/ WorkerUnwinds(c)
        PROVE  TypeOK'
    <2>1. worker[c].batch \in Batch /\ worker[c].batch.bytes \in Nat
      BY DEF TypeOK, Batch
    <2>2. retained' \in [Camera -> Nat] /\ PcType'
      BY <1>9, <2>1, ReleaseType DEF WriteSucceeds, WorkerUnwinds
    <2>3. /\ written' \in [Camera -> Batch] /\ stored' \in [Camera -> Batch]
          /\ abandoned' \in [Camera -> Batch]
      <3>1. Merge(written[c], worker[c].batch) \in Batch
        BY <2>1, MergeType DEF TypeOK
      <3>2. CASE WriteSucceeds(c)
        BY <3>1, <3>2, ZenonT(30) DEF TypeOK, WriteSucceeds
      <3>3. CASE WorkerUnwinds(c)
        BY <2>1, <3>3, ZenonT(30) DEF TypeOK, WorkerUnwinds
      <3> QED
        BY <1>9, <3>2, <3>3
    <2>4. worker' \in [Camera -> [state : WorkerState, batch : Batch, attempt : 0..2]]
      BY <1>9, WorkerTypes, ZenonT(30) DEF TypeOK, WriteSucceeds, WorkerUnwinds
    <2>5. UNCHANGED <<life, closing, accumulator, queue, hand, unwritten, lockVars, offered,
                      admitted>>
      BY <1>9 DEF WriteSucceeds, WorkerUnwinds
    <2> QED
      BY <2>2, <2>3, <2>4, <2>5 DEF TypeOK, PcType, lockVars
  <1>10. ASSUME NEW c \in Camera, WriteFails(c) \/ ReclaimEnds(c) \/ BackoffEnds(c) \/
         CancelSwallowed(c)
         PROVE  TypeOK'
    <2>1. \E s \in WorkerState, n \in 0..2 : WorkerAt(c, s, n)
      <3>1. worker[c].attempt \in 0..2 /\ Attempt(c) \in 0..2
        BY DEF TypeOK, Attempt
      <3> QED
        BY <1>10, <3>1 DEF WriteFails, ReclaimEnds, BackoffEnds, CancelSwallowed, WorkerState
    <2>2. worker' \in [Camera -> [state : WorkerState, batch : Batch, attempt : 0..2]]
      BY <2>1 DEF TypeOK, WorkerAt
    <2>3. UNCHANGED <<life, closing, accumulator, queue, hand, retained, unwritten, lockVars, pc,
                      offered, history>>
      BY <1>10 DEF WriteFails, ReclaimEnds, BackoffEnds, CancelSwallowed
    <2> QED
      BY <2>2, <2>3 DEF TypeOK, lockVars, history
  <1>11. CASE Stop \/ SendPoison \/ StopReturns
    BY <1>11, SlotTypes, ZenonT(30)
    DEF TypeOK, Stop, SendPoison, StopReturns, Life, lockVars, history
  <1>12. CASE CancelStop \/ CancelStreams
    <2>1. \E k \in Client : Withdraw(k)
      BY <1>12 DEF CancelStop, CancelStreams, Client
    <2>2. LockType' /\ PcType' /\ hand' \in [Camera -> Batch]
      BY <2>1, WithdrawType
    <2> QED
      BY <1>12, <2>2 DEF TypeOK, CancelStop, CancelStreams, LockType, PcType, Life, history
  <1>13. CASE BeginAbort
    <2>1. unwritten' \in [Camera -> Nat]
      BY <1>13 DEF TypeOK, BeginAbort, memory_bytes
    <2>2. worker' \in [Camera -> [state : WorkerState, batch : Batch, attempt : 0..2]]
      BY <1>13, WorkerTypes DEF TypeOK, BeginAbort, WorkerState, Cancelled
    <2> QED
      BY <1>13, <2>1, <2>2 DEF TypeOK, BeginAbort, Life, lockVars, history
  <1>14. CASE FinishAbort
    <2>1. PcType'
      BY <1>14, WokenType DEF TypeOK, FinishAbort, PcType
    <2> QED
      BY <1>14, <2>1, SlotTypes, NoBatchType
      DEF TypeOK, FinishAbort, Life, PcType, lockVars, history
  <1>15. ASSUME NEW c \in Camera, CallFlush(c)
         PROVE  TypeOK'
    <2>1. LockType' /\ PcType'
      BY <1>15, <1>lock, RequestType, AtType DEF CallFlush, Client, Control
    <2> QED
      BY <1>15, <2>1 DEF TypeOK, CallFlush, LockType, PcType, history
  <1>16. ASSUME NEW c \in Camera, FinishJoin(c)
         PROVE  TypeOK'
    <2>1. PcType'
      BY <1>16, <1>lock, AtType DEF FinishJoin, Client, Control
    <2> QED
      BY <1>16, <2>1 DEF TypeOK, FinishJoin, PcType, lockVars, history
  <1>17. CASE UNCHANGED vars
    BY <1>17 DEF TypeOK, vars
  <1>18. ASSUME NEW c \in Camera, Commits(c)
         PROVE  TypeOK'
    <2>1. /\ Merge(written[c], worker[c].batch) \in Batch
          /\ Merge(written[c], abandoned[c]) \in Batch
      BY MergeType DEF TypeOK
    <2>2. stored' \in [Camera -> Batch]
      BY <1>18, <2>1, ZenonT(30) DEF TypeOK, Commits
    <2>3. UNCHANGED <<life, closing, accumulator, queue, hand, worker, retained, unwritten,
                      lockVars, pc, offered, admitted, written, abandoned>>
      BY <1>18 DEF Commits
    <2> QED
      BY <2>2, <2>3 DEF TypeOK, lockVars
  <1> QED
    BY <1>1, <1>2, <1>3, <1>4, <1>5, <1>6, <1>7, <1>8, <1>9, <1>10, <1>11, <1>12, <1>13,
       <1>14, <1>15, <1>16, <1>17, <1>18
    DEF Next, Produce, Work, Shutdown, Client

\* A manager that was just constructed is of its type.
LEMMA InitType == Init => TypeOK
  <1> SUFFICES ASSUME Init PROVE TypeOK
    OBVIOUS
  <1>1. pc \in [Camera -> [Client -> Control]]
    BY DEF Init, Control
  <1>2. waiters \in [Camera -> Seq(Client)]
    BY DEF Init
  <1>3. offered \in [Camera -> 0..MaxBytes]
    BY ConstantsAssumption DEF Init
  <1> QED
    BY <1>1, <1>2, <1>3, SlotTypes, NoBatchType, WorkerTypes DEF Init, TypeOK, Life

\* Type correctness of every reachable state.
THEOREM TypeCorrect == Spec => []TypeOK
  BY InitType, TypeStep, PTL DEF Spec
-----------------------------------------------------------------------------
(* Lock discipline.                                                        *)

\* Which control points suspend inside the locked region: the proofs split on
\* these and not on the strings.
LEMMA ControlFacts ==
    /\ Nobody \notin Client
    /\ Putting \cap {"idle", "add", "rotate", "join", "flushed", "budget", "notified"} = {}
    /\ Waiting \cap {"idle", "add", "rotate", "join", "flushed"} = {}
    /\ "ingest" \in Client /\ "stream" \in Client /\ "stop" \in Client
  BY DEF Nobody, Client, Putting, Waiting

\* Whoever owns the lock may leave it, provided its hand is empty.
LEMMA LeaveLock ==
    ASSUME TypeOK, LockDiscipline, NEW c \in Camera, NEW k \in Client, holder[c] = k,
           NEW l \in {"idle", "join"}, Leave(c, k, l),
           hand' = [hand EXCEPT ![c] = NoBatch]
    PROVE  LockDiscipline'
  <1>1. \A j \in Client : pc'[c][j] \notin Putting \cup Waiting
    BY ControlFacts DEF LockDiscipline, Leave, At, TypeOK
  <1>2. hand'[c] = NoBatch
    BY DEF TypeOK
  <1>3. \A d \in Camera \ {c} : holder'[d] = holder[d] /\ hand'[d] = hand[d] /\ pc'[d] = pc[d]
    BY DEF Leave, HandOver, At, TypeOK
  <1> QED
    BY <1>1, <1>2, <1>3 DEF LockDiscipline

\* It may also suspend inside the region it owns, with a batch only in a put.
LEMMA SuspendLock ==
    ASSUME TypeOK, LockDiscipline, NEW c \in Camera, NEW k \in Client, holder[c] = k,
           NEW l \in Putting \cup Waiting, At(c, k, l), UNCHANGED lockVars,
           NEW h, hand' = [hand EXCEPT ![c] = h], h # NoBatch => l \in Putting
    PROVE  LockDiscipline'
  <1>1. pc'[c][k] = l
    BY DEF At, TypeOK
  <1>2. \A j \in Client \ {k} : pc'[c][j] = pc[c][j] /\ pc[c][j] \notin Putting \cup Waiting
    BY DEF At, TypeOK, LockDiscipline
  <1>3. hand'[c] = h
    BY DEF TypeOK
  <1>4. \A d \in Camera \ {c} : hand'[d] = hand[d] /\ pc'[d] = pc[d]
    BY DEF At, TypeOK
  <1> QED
    BY <1>1, <1>2, <1>3, <1>4 DEF LockDiscipline, lockVars

\* The part of add() from _reserve on keeps the lock discipline, whether it
\* leaves the region or suspends in it.
LEMMA ReserveLock ==
    ASSUME TypeOK, LockDiscipline, NEW c \in Camera, holder[c] = "ingest",
           NEW a, NEW q, Reserve(c, a, q)
    PROVE  LockDiscipline'
  <1>1. CASE Leave(c, "ingest", "idle") /\ hand' = [hand EXCEPT ![c] = NoBatch]
    BY <1>1, LeaveLock, ControlFacts
  <1>2. CASE AwaitBudget(c, a, q)
    BY <1>2, SuspendLock, ControlFacts DEF AwaitBudget, Settle, Waiting
  <1>3. CASE /\ At(c, "ingest", "putTail") /\ UNCHANGED lockVars
             /\ hand' = [hand EXCEPT ![c] = Grown(c, a)]
    BY <1>3, SuspendLock, ControlFacts DEF Putting
  <1> QED
    BY <1>1, <1>2, <1>3 DEF Reserve, Refuse, Admit, Settle

\* Asking for the lock disturbs nobody who is inside.
LEMMA RequestLock ==
    ASSUME TypeOK, LockDiscipline, NEW c \in Camera, NEW k \in Client, Request(c, k),
           NEW l \in {"add", "rotate"}, At(c, k, l), pc[c][k] = "idle", UNCHANGED hand
    PROVE  LockDiscipline'
  <1>1. \A d \in Camera : holder'[d] = holder[d] \/ holder[d] = Nobody
    BY SMTT(30) DEF Request, TypeOK
  <1>2. \A d \in Camera, j \in Client : pc[d][j] \in Putting => pc'[d][j] = pc[d][j]
    BY ControlFacts DEF At, TypeOK
  <1>3. \A d \in Camera, j \in Client :
          pc'[d][j] \in Putting \cup Waiting => pc'[d][j] = pc[d][j]
    BY ControlFacts DEF At, TypeOK
  <1> QED
    BY <1>1, <1>2, <1>3, ControlFacts DEF LockDiscipline

\* A task that is cancelled passes the lock on with an empty hand.
LEMMA WithdrawLock ==
    ASSUME TypeOK, LockDiscipline, NEW k \in Client, Withdraw(k)
    PROVE  LockDiscipline'
  <1> SUFFICES ASSUME NEW c \in Camera
               PROVE  /\ \A j \in Client : pc'[c][j] \in Putting \cup Waiting => holder'[c] = j
                      /\ hand'[c] # NoBatch => \E j \in Client : pc'[c][j] \in Putting
    BY DEF LockDiscipline
  <1>1. pc'[c][k] = "idle" /\ \A j \in Client \ {k} : pc'[c][j] = pc[c][j]
    BY DEF Withdraw, TypeOK
  <1>2. CASE holder[c] = k
    BY <1>1, <1>2, ControlFacts DEF Withdraw, LockDiscipline, TypeOK
  <1>3. CASE holder[c] # k
    <2>1. holder'[c] = holder[c] /\ hand'[c] = hand[c]
      BY <1>3 DEF Withdraw
    <2>2. pc[c][k] \notin Putting
      BY <1>3 DEF LockDiscipline
    <2> QED
      BY <1>1, <2>1, <2>2, ControlFacts DEF LockDiscipline
  <1> QED
    BY <1>2, <1>3

\* Waking the budget waiter leaves it where it is.
LEMMA WokenLock ==
    ASSUME TypeOK, LockDiscipline, UNCHANGED <<lockVars, hand>>,
           \A c \in Camera : pc'[c] = pc[c] \/ pc'[c] = Woken(pc[c])
    PROVE  LockDiscipline'
  <1>1. \A c \in Camera, k \in Client :
          /\ pc[c][k] \in Putting => pc'[c][k] = pc[c][k]
          /\ pc'[c][k] = pc[c][k] \/ pc[c][k] = "budget"
    <2> SUFFICES ASSUME NEW c \in Camera, NEW k \in Client
                 PROVE  /\ pc[c][k] \in Putting => pc'[c][k] = pc[c][k]
                        /\ pc'[c][k] = pc[c][k] \/ pc[c][k] = "budget"
      OBVIOUS
    <2>1. Woken(pc[c])[k] = pc[c][k] \/ pc[c][k] = "budget"
      BY ControlFacts DEF Woken, TypeOK
    <2> QED
      BY <2>1, ControlFacts
  <1> QED
    BY <1>1 DEF LockDiscipline, lockVars, Waiting

\* Every action keeps the lock discipline: one case per action of Next.
LEMMA LockStep ==
    ASSUME TypeOK, LockDiscipline, [Next]_vars
    PROVE  LockDiscipline'
  <1>1. ASSUME NEW c \in Camera, NEW k \in Client, CallAdd(c) \/ CallRotate(c, k) \/ CallFlush(c)
        PROVE  LockDiscipline'
    BY <1>1, RequestLock, ControlFacts DEF CallAdd, CallRotate, CallFlush
  <1>2. ASSUME NEW c \in Camera, EnterAdd(c)
        PROVE  LockDiscipline'
    <2>1. CASE \E a, q : Reserve(c, a, q)
      BY <1>2, <2>1, ReserveLock DEF EnterAdd, HoldsLock
    <2>2. CASE /\ Settle(c, NoBatch, queue[c], accumulator[c])
               /\ At(c, "ingest", "putSplit")
               /\ UNCHANGED <<retained, admitted, lockVars>>
      BY <1>2, <2>2, SuspendLock, ControlFacts DEF EnterAdd, HoldsLock, Settle, Putting
    <2> QED
      BY <1>2, <2>1, <2>2 DEF EnterAdd, Reserve
  <1>3. ASSUME NEW c \in Camera, RecheckBudget(c) \/ UnblockSplit(c)
        PROVE  LockDiscipline'
    <2>1. holder[c] = "ingest"
      BY <1>3, ControlFacts DEF RecheckBudget, UnblockSplit, LockDiscipline, Waiting, Putting
    <2> QED
      BY <1>3, <2>1, ReserveLock DEF RecheckBudget, UnblockSplit
  <1>4. ASSUME NEW c \in Camera, NEW k \in Client, EnterRotate(c, k)
        PROVE  LockDiscipline'
    <2>1. CASE Leave(c, k, AfterRotate(k)) /\ hand' = [hand EXCEPT ![c] = NoBatch]
      BY <1>4, <2>1, LeaveLock DEF EnterRotate, HoldsLock, AfterRotate
    <2>2. CASE /\ At(c, k, "putRotate") /\ UNCHANGED lockVars
               /\ hand' = [hand EXCEPT ![c] = accumulator[c]]
      BY <1>4, <2>2, SuspendLock DEF EnterRotate, HoldsLock, Putting
    <2> QED
      BY <1>4, <2>1, <2>2 DEF EnterRotate, Settle
  <1>5. ASSUME NEW c \in Camera, NEW k \in Client, Unblock(c, k)
        PROVE  LockDiscipline'
    <2>1. holder[c] = k
      BY <1>5 DEF Unblock, LockDiscipline, Putting
    <2> QED
      BY <1>5, <2>1, LeaveLock DEF Unblock, Settle, AfterRotate
  <1>6. ASSUME NEW c \in Camera, WriteSucceeds(c) \/ WorkerUnwinds(c)
        PROVE  LockDiscipline'
    <2>1. \A d \in Camera : pc'[d] = pc[d] \/ pc'[d] = Woken(pc[d])
      BY <1>6, SMTT(30) DEF WriteSucceeds, WorkerUnwinds, Release, TypeOK
    <2> QED
      BY <1>6, <2>1, WokenLock DEF WriteSucceeds, WorkerUnwinds
  <1>7. CASE FinishAbort
    BY <1>7, WokenLock DEF FinishAbort
  <1>8. CASE CancelStop \/ CancelStreams
    BY <1>8, WithdrawLock, ControlFacts DEF CancelStop, CancelStreams
  <1>9. ASSUME NEW c \in Camera, FinishJoin(c)
        PROVE  LockDiscipline'
    <2>1. \A d \in Camera, j \in Client :
            pc'[d][j] = pc[d][j] \/ (pc[d][j] \notin Putting /\
                pc'[d][j] \notin Putting \cup Waiting)
      BY <1>9, ControlFacts DEF FinishJoin, At, TypeOK
    <2> QED
      BY <1>9, <2>1 DEF FinishJoin, LockDiscipline, lockVars
  <1>10. CASE UNCHANGED <<holder, hand, pc>>
    BY <1>10 DEF LockDiscipline
  <1>11. ASSUME NEW c \in Camera,
                GetBatch(c) \/ Commits(c) \/ WriteFails(c) \/ ReclaimEnds(c) \/ BackoffEnds(c) \/
                    CancelSwallowed(c)
         PROVE  UNCHANGED <<holder, hand, pc>>
    BY <1>11 DEF GetBatch, Commits, WriteFails, ReclaimEnds, BackoffEnds, CancelSwallowed, lockVars
  <1>12. Start \/ Stop \/ SendPoison \/ StopReturns \/ BeginAbort \/ UNCHANGED vars
           => UNCHANGED <<holder, hand, pc>>
    BY DEF Start, Stop, SendPoison, StopReturns, BeginAbort, vars, lockVars
  <1> QED
    BY <1>1, <1>2, <1>3, <1>4, <1>5, <1>6, <1>7, <1>8, <1>9, <1>10, <1>11, <1>12, ControlFacts
    DEF Next, Produce, Work, Shutdown
-----------------------------------------------------------------------------
(* Shapes: an idle worker and an empty slot hold no batch; after abort()   *)
(* only hands and queue slots may.                                         *)

\* The slots the actions build carry a batch only if they say so.
LEMMA SlotShapes ==
    /\ NoWorker.batch = NoBatch /\ IdleWorker.batch = NoBatch
    /\ Empty.kind = "empty" /\ Empty.batch = NoBatch
    /\ Poison.kind = "poison" /\ Poison.batch = NoBatch
    /\ \A b : Queued(b).kind = "batch" /\ Queued(b).batch = b
    /\ NoBatch.bytes = 0 /\ NoBatch.segs = {}
  BY DEF NoWorker, IdleWorker, Empty, Poison, Queued, NoBatch

\* What a producer's step may do to the shapes.
LEMMA SettleShapes ==
    ASSUME TypeOK, Shapes, NEW c \in Camera, NEW a, NEW q, NEW h, Settle(c, a, q, h),
           UNCHANGED <<life, closing, worker>>,
           q.kind # "batch" => q.batch = NoBatch,
           life = "aborted" => a = NoBatch
    PROVE  Shapes'
  <1>1. \A d \in Camera : Busy(d)' <=> Busy(d)
    BY DEF Busy
  <1> QED
    BY <1>1 DEF Shapes, Settle, TypeOK

\* The part of add() from _reserve on keeps the shapes.
LEMMA ReserveShapes ==
    ASSUME TypeOK, Shapes, NEW c \in Camera, NEW a, NEW q, Reserve(c, a, q),
           UNCHANGED <<life, closing, worker>>,
           q.kind # "batch" => q.batch = NoBatch,
           life = "aborted" => a = NoBatch
    PROVE  Shapes'
  <1>1. CASE \E h : Settle(c, a, q, h)
    BY <1>1, SettleShapes
  <1>2. CASE Admit(c, a, q)
    <2>1. life # "aborted"
      BY <1>2 DEF Admit, Shapes
    <2>2. \E b, s, h : /\ Settle(c, b, s, h)
                       /\ s.kind # "batch" => s.batch = NoBatch
      BY <1>2, SlotShapes DEF Admit
    <2> QED
      BY <2>1, <2>2, SettleShapes
  <1> QED
    BY <1>1, <1>2 DEF Reserve, Refuse, AwaitBudget

\* Every action keeps the shapes: one case per action of Next.
LEMMA ShapesStep ==
    ASSUME TypeOK, Shapes, [Next]_vars
    PROVE  Shapes'
  <1>0. \A c \in Camera : queue[c].kind # "batch" => queue[c].batch = NoBatch
    BY DEF Shapes
  <1>1. ASSUME NEW c \in Camera, EnterAdd(c) \/ RecheckBudget(c) \/ UnblockSplit(c)
        PROVE  Shapes'
    <2>1. CASE \E a, q : /\ Reserve(c, a, q)
                         /\ q.kind # "batch" => q.batch = NoBatch
                         /\ life = "aborted" => a = NoBatch
      BY <1>1, <2>1, ReserveShapes DEF EnterAdd, RecheckBudget, UnblockSplit
    <2>2. CASE Settle(c, NoBatch, queue[c], accumulator[c])
      BY <1>0, <1>1, <2>2, SettleShapes DEF EnterAdd, RecheckBudget, UnblockSplit
    <2>3. life = "aborted" => accumulator[c] = NoBatch
      BY DEF Shapes
    <2> QED
      BY <1>0, <1>1, <2>1, <2>2, <2>3, SlotShapes
      DEF EnterAdd, RecheckBudget, UnblockSplit, Reserve
  <1>2. ASSUME NEW c \in Camera, NEW k \in Client, EnterRotate(c, k) \/ Unblock(c, k)
        PROVE  Shapes'
    <2>1. life = "aborted" => accumulator[c] = NoBatch
      BY DEF Shapes
    <2>2. \E a, q, h : /\ Settle(c, a, q, h)
                       /\ q.kind # "batch" => q.batch = NoBatch
                       /\ life = "aborted" => a = NoBatch
      BY <1>0, <1>2, <2>1, SlotShapes DEF EnterRotate, Unblock
    <2> QED
      BY <1>2, <2>2, SettleShapes DEF EnterRotate, Unblock
  <1>3. ASSUME NEW c \in Camera, GetBatch(c)
        PROVE  Shapes'
    <2>1. worker[c] # NoWorker /\ life # "aborted"
      BY <1>3 DEF GetBatch, Shapes, NoWorker
    <2>2. worker'[c] = NoWorker \/ worker'[c].state = "writing"
      BY <1>3 DEF GetBatch, TypeOK
    <2>3. \A d \in Camera \ {c} : worker'[d] = worker[d] /\ queue'[d] = queue[d]
      BY <1>3 DEF GetBatch, TypeOK
    <2>4. queue'[c] = Empty
      BY <1>3 DEF GetBatch, TypeOK
    <2> QED
      BY <1>3, <2>1, <2>2, <2>3, <2>4, SlotShapes DEF GetBatch, Shapes, Busy
  <1>4. ASSUME NEW c \in Camera, WriteSucceeds(c) \/ WorkerUnwinds(c)
        PROVE  Shapes'
    <2>1. worker[c] # NoWorker /\ life # "aborted"
      BY <1>4 DEF WriteSucceeds, WorkerUnwinds, Shapes, NoWorker
    <2>2. worker'[c].batch = NoBatch
      BY <1>4, SlotShapes DEF WriteSucceeds, WorkerUnwinds, TypeOK
    <2>3. \A d \in Camera \ {c} : worker'[d] = worker[d]
      BY <1>4 DEF WriteSucceeds, WorkerUnwinds, TypeOK
    <2> QED
      BY <1>4, <2>1, <2>2, <2>3 DEF WriteSucceeds, WorkerUnwinds, Shapes, Busy
  <1>5. ASSUME NEW c \in Camera, WriteFails(c) \/ ReclaimEnds(c) \/ BackoffEnds(c) \/
        CancelSwallowed(c)
        PROVE  Shapes'
    <2>1. worker[c] # NoWorker /\ life # "aborted"
      BY <1>5 DEF WriteFails, ReclaimEnds, BackoffEnds, CancelSwallowed, Shapes, NoWorker
    <2>2. worker'[c].state \notin {"none", "idle"}
      BY <1>5 DEF WriteFails, ReclaimEnds, BackoffEnds, CancelSwallowed, WorkerAt, TypeOK
    <2>3. \A d \in Camera \ {c} : worker'[d] = worker[d]
      BY <1>5 DEF WriteFails, ReclaimEnds, BackoffEnds, CancelSwallowed, WorkerAt, TypeOK
    <2> QED
      BY <1>5, <2>1, <2>2, <2>3
      DEF WriteFails, ReclaimEnds, BackoffEnds, CancelSwallowed, Shapes, Busy
  <1>6. CASE BeginAbort
    <2>1. \A c \in Camera : Busy(c)' <=> Busy(c)
      BY <1>6, SlotShapes DEF BeginAbort, Busy, Cancelled, NoWorker, TypeOK
    <2>2. \A c \in Camera : ~Busy(c) => worker'[c] = NoWorker
      BY <1>6 DEF BeginAbort
    <2> QED
      BY <1>6, <2>1, <2>2, SlotShapes DEF BeginAbort, Shapes
  <1>7. CASE FinishAbort
    BY <1>7, SlotShapes DEF FinishAbort, Shapes, Busy
  <1>8. CASE Start
    BY <1>8, SlotShapes DEF Start, Shapes, Busy, IdleWorker
  <1>9. CASE Stop \/ SendPoison \/ StopReturns \/ CancelStop \/ CancelStreams
    BY <1>9, SlotShapes DEF Stop, SendPoison, StopReturns, CancelStop, CancelStreams, Shapes, Busy
  <1>10. CASE UNCHANGED <<life, closing, worker, queue, accumulator>>
    BY <1>10 DEF Shapes, Busy
  <1>11. ASSUME NEW c \in Camera, NEW k \in Client,
                CallAdd(c) \/ CallRotate(c, k) \/ Commits(c) \/ CallFlush(c) \/ FinishJoin(c)
         PROVE  UNCHANGED <<life, closing, worker, queue, accumulator>>
    BY <1>11 DEF Commits, CallAdd, CallRotate, CallFlush, FinishJoin
  <1> QED
    BY <1>1, <1>2, <1>3, <1>4, <1>5, <1>6, <1>7, <1>8, <1>9, <1>10, <1>11, ControlFacts
    DEF Next, Produce, Work, Shutdown, vars
-----------------------------------------------------------------------------
(* The budget.  Every step keeps, admits, releases or abandons bytes.      *)

Keeps(d) == Held(d)' = Held(d) /\ retained'[d] = retained[d]

Admits(d) ==
    /\ ~closing
    /\ \E n \in Nat : /\ Held(d)' = Held(d) + n
                      /\ retained'[d] = retained[d] + n
                      /\ retained'[d] <= MaxBytes

Releases(d) ==
    \E n \in Nat : /\ n <= Held(d)
                   /\ Held(d)' = Held(d) - n
                   /\ retained'[d] = IF retained[d] > n THEN retained[d] - n ELSE 0

\* Only a shutdown cut short loses batches.
Abandons(d) ==
    /\ Held(d)' <= Held(d)
    /\ \/ life' \in {"cancelled", "aborted"} /\ retained'[d] = retained[d]
       \/ life' = "aborted" /\ life = "aborting" /\ retained'[d] = 0

Accounts == \A d \in Camera : Keeps(d) \/ Admits(d) \/ Releases(d) \/ Abandons(d)

\* The bytes a camera holds are a number.
LEMMA HeldType ==
    ASSUME TypeOK, NEW c \in Camera
    PROVE  /\ accumulator[c].bytes \in Nat /\ queue[c].batch.bytes \in Nat
           /\ hand[c].bytes \in Nat /\ worker[c].batch.bytes \in Nat
           /\ Held(c) \in Nat
  BY SMTT(30) DEF TypeOK, Held, Batch, QueueSlot

\* What a producer's step adds up to.
LEMMA SettleHeld ==
    ASSUME TypeOK, NEW c \in Camera, NEW a, NEW q, NEW h, Settle(c, a, q, h), UNCHANGED worker
    PROVE  /\ Held(c)' = a.bytes + q.batch.bytes + h.bytes + worker[c].batch.bytes
           /\ \A d \in Camera \ {c} : Held(d)' = Held(d)
  BY DEF Settle, Held, TypeOK

\* The part of add() from _reserve on admits a segment that fits, or moves
\* batches without changing what is held.
LEMMA ReserveHeld ==
    ASSUME TypeOK, NEW c \in Camera, NEW a \in Batch, NEW q \in QueueSlot,
           HasRoom(q) => q.batch = NoBatch,
           Reserve(c, a, q), UNCHANGED worker,
           a.bytes + q.batch.bytes + worker[c].batch.bytes = Held(c)
    PROVE  Accounts
  <1>0. a.bytes \in Nat /\ q.batch.bytes \in Nat /\ NoBatch.bytes = 0
    BY DEF Batch, QueueSlot, NoBatch
  <1>1. CASE Settle(c, a, q, NoBatch) /\ UNCHANGED retained
    BY <1>0, <1>1, SettleHeld, HeldType DEF Accounts, Keeps
  <1>2. CASE Admit(c, a, q)
    <2>1. /\ offered[c] \in Nat
          /\ Grown(c, a).bytes = a.bytes + offered[c]
      BY GrownType
    <2>2. /\ retained'[c] = retained[c] + offered[c]
          /\ retained'[c] <= MaxBytes
          /\ \A d \in Camera \ {c} : retained'[d] = retained[d]
      BY <1>2 DEF Admit, Fits, TypeOK
    <2>3. /\ Held(c)' = Held(c) + offered[c]
          /\ \A d \in Camera \ {c} : Held(d)' = Held(d)
      <3>1. CASE Settle(c, Grown(c, a), q, NoBatch)
        BY <1>0, <2>1, <3>1, SettleHeld, HeldType
      <3>2. CASE HasRoom(q) /\ Settle(c, NoBatch, Queued(Grown(c, a)), NoBatch)
        BY <1>0, <2>1, <3>2, SettleHeld, HeldType, SlotShapes
      <3>3. CASE Settle(c, NoBatch, q, Grown(c, a))
        BY <1>0, <2>1, <3>3, SettleHeld, HeldType
      <3> QED
        BY <1>2, <3>1, <3>2, <3>3 DEF Admit
    <2> QED
      BY <1>2, <2>1, <2>2, <2>3 DEF Accounts, Keeps, Admits, Admit
  <1> QED
    BY <1>1, <1>2 DEF Reserve, Refuse, AwaitBudget

\* Whoever owns the lock outside a put has nothing in hand.
LEMMA EmptyHand ==
    ASSUME LockDiscipline, NEW c \in Camera, NEW k \in Client, holder[c] = k,
           pc[c][k] \notin Putting
    PROVE  hand[c] = NoBatch
  BY DEF LockDiscipline

\* Every step either keeps what a camera holds and has reserved, admits a
\* segment that fits, gives both back alike, or belongs to an abort: the
\* classification BudgetStep rests on.
LEMMA AccountsStep ==
    ASSUME TypeOK, LockDiscipline, Shapes, [Next]_vars
    PROVE  Accounts
  <1>0. /\ NoBatch.bytes = 0
        /\ \A c \in Camera : HasRoom(queue[c]) => queue[c].batch = NoBatch
    BY SlotShapes DEF Shapes, HasRoom
  <1>types. ASSUME NEW c \in Camera
            PROVE  /\ accumulator[c] \in Batch /\ queue[c] \in QueueSlot
                   /\ NoBatch \in Batch
                   /\ Queued(accumulator[c]) \in QueueSlot /\ Queued(hand[c]) \in QueueSlot
    BY SlotTypes, NoBatchType DEF TypeOK
  <1>1. ASSUME NEW c \in Camera, EnterAdd(c)
        PROVE  Accounts
    <2>1. hand[c] = NoBatch
      BY <1>1, EmptyHand, ControlFacts DEF EnterAdd, HoldsLock
    <2>2. CASE Reserve(c, accumulator[c], queue[c])
      BY <1>0, <1>1, <1>types, <2>1, <2>2, ReserveHeld, HeldType DEF EnterAdd, Held
    <2>3. CASE HasRoom(queue[c]) /\ Reserve(c, NoBatch, Queued(accumulator[c]))
      <3>1. ~HasRoom(Queued(accumulator[c]))
        BY SlotShapes DEF HasRoom
      <3>2. NoBatch.bytes + Queued(accumulator[c]).batch.bytes + worker[c].batch.bytes = Held(c)
        BY <1>0, <2>1, <2>3, SlotShapes, HeldType DEF Held
      <3> QED
        BY <1>1, <1>types, <2>3, <3>1, <3>2, ReserveHeld DEF EnterAdd
    <2>4. CASE Settle(c, NoBatch, queue[c], accumulator[c]) /\ UNCHANGED retained
      <3>1. Held(c)' = Held(c) /\ \A d \in Camera \ {c} : Held(d)' = Held(d)
        BY <1>0, <1>1, <2>1, <2>4, SettleHeld, HeldType DEF EnterAdd, Held
      <3> QED
        BY <2>4, <3>1 DEF Accounts, Keeps
    <2> QED
      BY <1>1, <2>2, <2>3, <2>4 DEF EnterAdd, Reserve
  <1>2. ASSUME NEW c \in Camera, RecheckBudget(c)
        PROVE  Accounts
    <2>1. hand[c] = NoBatch
      BY <1>2, EmptyHand, ControlFacts DEF RecheckBudget, LockDiscipline, Waiting
    <2> QED
      BY <1>0, <1>2, <1>types, <2>1, ReserveHeld, HeldType DEF RecheckBudget, Held
  <1>3. ASSUME NEW c \in Camera, UnblockSplit(c)
        PROVE  Accounts
    <2>1. ~HasRoom(Queued(hand[c]))
      BY SlotShapes DEF HasRoom
    <2>2. accumulator[c].bytes + Queued(hand[c]).batch.bytes + worker[c].batch.bytes = Held(c)
      BY <1>0, <1>3, SlotShapes, HeldType DEF Held, UnblockSplit
    <2> QED
      BY <1>3, <1>types, <2>1, <2>2, ReserveHeld DEF UnblockSplit
  <1>4. ASSUME NEW c \in Camera, NEW k \in Client, EnterRotate(c, k)
        PROVE  Accounts
    <2>1. hand[c] = NoBatch
      BY <1>4, EmptyHand, ControlFacts DEF EnterRotate, HoldsLock
    <2>2. Held(c)' = Held(c) /\ \A d \in Camera \ {c} : Held(d)' = Held(d)
      BY <1>0, <1>4, <2>1, SettleHeld, SlotShapes, HeldType DEF EnterRotate, Held
    <2> QED
      BY <1>4, <2>2 DEF Accounts, Keeps, EnterRotate
  <1>5. ASSUME NEW c \in Camera, NEW k \in Client, Unblock(c, k)
        PROVE  Accounts
    <2>1. Held(c)' = Held(c) /\ \A d \in Camera \ {c} : Held(d)' = Held(d)
      BY <1>0, <1>5, SettleHeld, SlotShapes, HeldType DEF Unblock, Held
    <2> QED
      BY <1>5, <2>1 DEF Accounts, Keeps, Unblock
  <1>6. ASSUME NEW c \in Camera, GetBatch(c)
        PROVE  Accounts
    <2>1. worker[c].batch = NoBatch
      BY <1>6 DEF GetBatch, Shapes, Busy
    <2>2. worker'[c].batch = queue[c].batch /\ queue'[c] = Empty
      BY <1>6, SlotShapes DEF GetBatch, Shapes, TypeOK
    <2>3. \A d \in Camera \ {c} : worker'[d] = worker[d] /\ queue'[d] = queue[d]
      BY <1>6 DEF GetBatch, TypeOK
    <2>4. \A d \in Camera : Held(d)' = Held(d)
      BY <1>0, <1>6, <2>1, <2>2, <2>3, SlotShapes, HeldType DEF GetBatch, Held
    <2> QED
      BY <1>6, <2>4 DEF Accounts, Keeps, GetBatch
  <1>7. ASSUME NEW c \in Camera, WriteSucceeds(c) \/ WorkerUnwinds(c)
        PROVE  Accounts
    <2> DEFINE n == worker[c].batch.bytes
    <2>1. n \in Nat /\ n <= Held(c)
      BY HeldType DEF Held
    <2>2. worker'[c].batch.bytes = 0 /\ \A d \in Camera \ {c} : worker'[d] = worker[d]
      BY <1>0, <1>7, SlotShapes DEF WriteSucceeds, WorkerUnwinds, TypeOK
    <2>3. Held(c)' = Held(c) - n /\ \A d \in Camera \ {c} : Held(d)' = Held(d)
      BY <1>7, <2>2, HeldType DEF WriteSucceeds, WorkerUnwinds, Held
    <2>4. /\ retained'[c] = IF retained[c] > n THEN retained[c] - n ELSE 0
          /\ \A d \in Camera \ {c} : retained'[d] = retained[d]
      BY <1>7 DEF WriteSucceeds, WorkerUnwinds, Release, TypeOK
    <2> QED
      BY <2>1, <2>3, <2>4 DEF Accounts, Keeps, Releases
  <1>8. ASSUME NEW c \in Camera, WriteFails(c) \/ ReclaimEnds(c) \/ BackoffEnds(c) \/
        CancelSwallowed(c)
        PROVE  Accounts
    <2>1. \E s, n : WorkerAt(c, s, n)
      BY <1>8 DEF WriteFails, ReclaimEnds, BackoffEnds, CancelSwallowed
    <2>2. \A d \in Camera : worker'[d].batch = worker[d].batch
      <3>1. worker'[c].batch = worker[c].batch
        BY <2>1 DEF WorkerAt, TypeOK
      <3>2. \A d \in Camera \ {c} : worker'[d] = worker[d]
        BY <2>1 DEF WorkerAt, TypeOK
      <3> QED
        BY <3>1, <3>2
    <2> QED
      BY <1>8, <2>2 DEF WriteFails, ReclaimEnds, BackoffEnds, CancelSwallowed, Accounts, Keeps, Held
  <1>9. CASE Start \/ BeginAbort
    <2>1. \A d \in Camera : worker'[d].batch = worker[d].batch
      <3>1. CASE Start
        BY <3>1, SlotShapes DEF Start, Shapes
      <3>2. CASE BeginAbort
        BY <3>2, SlotShapes DEF BeginAbort, Shapes, TypeOK
      <3> QED
        BY <1>9, <3>1, <3>2
    <2> QED
      BY <1>9, <2>1 DEF Start, BeginAbort, Accounts, Keeps, Held
  <1>10. CASE SendPoison
    <2>1. \A d \in Camera : queue'[d].batch = queue[d].batch
      BY <1>0, <1>10, SlotShapes DEF SendPoison
    <2> QED
      BY <1>10, <2>1 DEF SendPoison, Accounts, Keeps, Held
  <1>11. CASE CancelStop \/ CancelStreams
    <2>1. \A d \in Camera : hand'[d] = NoBatch \/ hand'[d] = hand[d]
      BY <1>11 DEF CancelStop, CancelStreams, Withdraw
    <2>2. \A d \in Camera : Held(d)' <= Held(d)
      BY <1>0, <1>11, <2>1, HeldType DEF CancelStop, CancelStreams, Held
    <2> QED
      BY <1>11, <2>2 DEF CancelStop, CancelStreams, Accounts, Abandons
  <1>12. CASE FinishAbort
    <2>1. \A d \in Camera : /\ accumulator'[d] = NoBatch /\ queue'[d] = Empty
                             /\ hand'[d] = hand[d] /\ worker'[d] = worker[d]
      BY <1>12 DEF FinishAbort
    <2>2. \A d \in Camera : Held(d)' <= Held(d)
      BY <2>1, SlotShapes, HeldType DEF Held
    <2> QED
      BY <1>12, <2>2 DEF FinishAbort, Accounts, Abandons
  <1>13. CASE UNCHANGED <<accumulator, queue, hand, worker, retained>>
    BY <1>13 DEF Accounts, Keeps, Held
  <1>14. ASSUME NEW c \in Camera, NEW k \in Client,
                CallAdd(c) \/ CallRotate(c, k) \/ Commits(c) \/ CallFlush(c) \/ FinishJoin(c)
         PROVE  UNCHANGED <<accumulator, queue, hand, worker, retained>>
    BY <1>14 DEF Commits, CallAdd, CallRotate, CallFlush, FinishJoin
  <1>15. Stop \/ StopReturns \/ UNCHANGED vars
           => UNCHANGED <<accumulator, queue, hand, worker, retained>>
    BY DEF Stop, StopReturns, vars
  <1> QED
    BY <1>1, <1>2, <1>3, <1>4, <1>5, <1>6, <1>7, <1>8, <1>9, <1>10, <1>11, <1>12, <1>13,
       <1>14, <1>15, ControlFacts
    DEF Next, Produce, Work, Shutdown

\* Life only moves forward, and closing is set for good.
LEMMA LifeStep ==
    ASSUME [Next]_vars, Shapes
    PROVE  /\ life' = "new" => life = "new"
           /\ life = "aborted" => life' = "aborted"
           /\ life \in {"cancelled", "aborting"} => life' \in {"cancelled", "aborting", "aborted"}
           /\ life # "aborted" /\ life' = "aborted" => FinishAbort
  <1>1. \/ UNCHANGED life
        \/ Start \/ Stop \/ SendPoison \/ StopReturns \/ CancelStop \/ BeginAbort \/ FinishAbort
    BY DEF Next, Produce, Work, Shutdown, vars, CallAdd, EnterAdd, RecheckBudget, UnblockSplit,
           CallRotate, EnterRotate, Unblock, GetBatch, Commits, WriteSucceeds, WriteFails, ReclaimEnds,
           BackoffEnds, CancelSwallowed, WorkerUnwinds, CancelStreams, CallFlush, FinishJoin
  <1> QED
    BY <1>1, SMTT(30) DEF Start, Stop, SendPoison, StopReturns, CancelStop, BeginAbort, FinishAbort

\* The inductive step of the budget.
LEMMA BudgetStep ==
    ASSUME IInv, [Next]_vars
    PROVE  BudgetInv' /\ BudgetIsExact' /\ BudgetHolds'
  <1> SUFFICES ASSUME NEW c \in Camera
               PROVE  /\ retained'[c] <= MaxBytes
                      /\ life' # "aborted" => Held(c)' <= retained'[c]
                      /\ life' \notin {"cancelled", "aborting", "aborted"}
                           => retained'[c] = Held(c)'
                      /\ Held(c)' <= MaxBytes
    BY DEF BudgetInv, BudgetIsExact, BudgetHolds
  <1>1. TypeOK /\ LockDiscipline /\ Shapes /\ BudgetInv /\ BudgetIsExact /\ BudgetHolds
    BY DEF IInv
  <1>2. Keeps(c) \/ Admits(c) \/ Releases(c) \/ Abandons(c)
    BY <1>1, AccountsStep DEF Accounts
  <1>3. /\ Held(c) \in Nat /\ retained[c] \in Nat /\ MaxBytes \in Nat
        /\ Held(c) <= MaxBytes /\ retained[c] <= MaxBytes
        /\ life # "aborted" => Held(c) <= retained[c]
        /\ life \notin {"cancelled", "aborting", "aborted"} => retained[c] = Held(c)
    BY <1>1, HeldType, ConstantsAssumption DEF BudgetInv, BudgetIsExact, BudgetHolds, TypeOK
  <1>4. /\ life = "aborted" => life' = "aborted"
        /\ life \in {"cancelled", "aborting"} => life' \in {"cancelled", "aborting", "aborted"}
    BY <1>1, LifeStep
  <1>5. closing <=> life \notin {"new", "running"}
    BY <1>1 DEF Shapes
  <1>6. CASE Keeps(c)
    BY <1>3, <1>4, <1>6 DEF Keeps
  <1>7. CASE Admits(c)
    BY <1>3, <1>4, <1>5, <1>7 DEF Admits
  <1>8. CASE Releases(c)
    BY <1>3, <1>4, <1>8 DEF Releases
  <1>9. CASE Abandons(c)
    <2>1. Held(c)' \in Nat
      <3>1. TypeOK'
        BY <1>1, TypeStep
      <3> QED
        BY <3>1, SMTT(30) DEF TypeOK, Held, Batch, QueueSlot
    <2> QED
      BY <1>3, <1>4, <1>9, <2>1 DEF Abandons
  <1> QED
    BY <1>2, <1>6, <1>7, <1>8, <1>9

\* The inductive invariant holds in every reachable state.
LEMMA Inductive == Spec => []IInv
  <1>1. Init => IInv
    <2> SUFFICES ASSUME Init PROVE IInv
      OBVIOUS
    <2>1. TypeOK
      BY InitType
    <2>2. LockDiscipline
      BY ControlFacts DEF Init, LockDiscipline
    <2>3. Shapes
      BY SlotShapes DEF Init, Shapes
    <2>4. ASSUME NEW c \in Camera
          PROVE  Held(c) = 0 /\ retained[c] = 0
      <3>1. retained[c] = 0
        BY DEF Init
      <3>2. /\ accumulator[c] = NoBatch /\ queue[c].batch = NoBatch
            /\ hand[c] = NoBatch /\ worker[c].batch = NoBatch
        BY SlotShapes DEF Init
      <3>3. Held(c) = NoBatch.bytes + NoBatch.bytes + NoBatch.bytes + NoBatch.bytes
        BY <3>2 DEF Held
      <3> QED
        BY <3>1, <3>3, SlotShapes
    <2> QED
      BY <2>1, <2>2, <2>3, <2>4, ConstantsAssumption
      DEF IInv, BudgetInv, BudgetIsExact, BudgetHolds
  <1>2. IInv /\ [Next]_vars => IInv'
    BY TypeStep, LockStep, ShapesStep, BudgetStep DEF IInv
  <1> QED
    BY <1>1, <1>2, PTL DEF Spec

\* max_buffer_mb_per_camera really bounds the bytes the archive path keeps
\* alive, whatever the sizes, policy, failures and moment of shutdown.
THEOREM BudgetSafe == Spec => []BudgetHolds
  BY Inductive, PTL DEF IInv

\* The reserved bytes are the held bytes until a shutdown is cut short.
THEOREM BudgetExact == Spec => []BudgetIsExact
  BY Inductive, PTL DEF IInv
=============================================================================
