--------------------------- MODULE ArchiveManager ---------------------------
(***************************************************************************)
(* The in-memory archive path of one CamVault process: for every camera an *)
(* accumulator of HLS segments, an asyncio.Queue of one sealed batch, one  *)
(* worker task that writes batches to the storage backend, and a byte      *)
(* budget shared by all three.  Producers are the HTTP ingest handler, the *)
(* supervisor's end-of-stream callback and stop() itself; a per-camera     *)
(* FIFO asyncio.Lock serialises them.                                      *)
(*                                                                         *)
(* asyncio runs one task at a time, so an action is everything a task does *)
(* between two suspension points.  Segment durations, the adaptive byte    *)
(* target and file contents are abstracted: whether a batch is due before  *)
(* it holds MaxBytes is a free choice.                                     *)
(***************************************************************************)
EXTENDS Naturals, Sequences

CONSTANTS Camera,        \* configured cameras
          MaxBytes,      \* max_bytes_per_camera
          SegmentSizes,  \* possible len(segment.data); larger ones are refused
          MaxSegments,   \* bound: segments offered per camera
          Adaptive,      \* adaptive_enabled
          DeleteOldest,  \* write_failure_policy = "delete_oldest"
          BackendHonoursCancel \* FALSE: a cancelled write may answer with an error

ASSUME ConstantsAssumption ==
    /\ MaxBytes \in Nat \ {0}
    /\ SegmentSizes \subseteq 0..MaxBytes
    /\ MaxSegments \in Nat
    /\ Adaptive \in BOOLEAN
    /\ DeleteOldest \in BOOLEAN
    /\ BackendHonoursCancel \in BOOLEAN

VARIABLES
    life,       \* "new" | "running" | "flushing" | "joining" | "cancelled" | "aborting" |
                \* "stopped" | "aborted"
    closing,    \* _closing, and _shutdown_requested, which is set with it
    accumulator,\* [Camera -> Batch] segments not yet sealed
    queue,      \* [Camera -> Batch or Empty or Poison] the queue's only slot
    hand,       \* [Camera -> Batch] sealed batch of a producer blocked in queue.put
    worker,     \* [Camera -> [state, batch, attempt]]
    retained,   \* _retained_bytes
    unwritten,  \* unwritten_bytes, kept per camera
    holder,     \* owner of the camera's ingest lock, or Nobody
    waiters,    \* FIFO of tasks waiting for it
    pc,         \* [Camera -> [Client -> control point]]
    offered,    \* [Camera -> Nat] size of the segment that ingest is adding
    admitted,   \* history: [Camera -> [count, bytes]] segments the budget admitted
    written,    \* history: [Camera -> Batch] all segments whose write returned
    stored,     \* [Camera -> Batch] all segments the backend has committed
    abandoned   \* [Camera -> Batch] of a write an abort left running, or NoBatch

vars == <<life, closing, accumulator, queue, hand, worker, retained, unwritten,
          holder, waiters, pc, offered, admitted, written, stored, abandoned>>

backend == <<written, stored, abandoned>>
history == <<admitted, written, stored, abandoned>>
lockVars == <<holder, waiters>>
-----------------------------------------------------------------------------
(* Batches.  A segment is its position in the camera's admitted stream.     *)

Batch == [segs : SUBSET Nat, bytes : Nat]
NoBatch == [segs |-> {}, bytes |-> 0]
Merge(b, d) == [segs |-> b.segs \cup d.segs, bytes |-> b.bytes + d.bytes]

\* The queue's slot: nothing, a batch, or the None that ends the worker.
QueueSlot == [kind : {"empty", "batch", "poison"}, batch : Batch]
Empty == [kind |-> "empty", batch |-> NoBatch]
Poison == [kind |-> "poison", batch |-> NoBatch]
Queued(b) == [kind |-> "batch", batch |-> b]
HasRoom(q) == q.kind = "empty"

Client == {"ingest", "stream", "stop"}
Nobody == "nobody"

\* Control points while the client owns the ingest lock and is suspended.
Putting == {"putSplit", "putTail", "putRotate"}
Waiting == {"budget", "notified"}
Control == {"idle", "add", "rotate", "join", "flushed"} \cup Putting \cup Waiting

WorkerState == {"none", "idle", "writing", "reclaim", "backoff", "cancelled", "cancelledWrite"}
NoWorker == [state |-> "none", batch |-> NoBatch, attempt |-> 0]
IdleWorker == [state |-> "idle", batch |-> NoBatch, attempt |-> 0]
-----------------------------------------------------------------------------
(* asyncio primitives.                                                     *)

\* Fault: rotation forgets the ingest lock.
HoldsLockOnlyInAdd(c, k) == k = "ingest" => holder[c] = k
HoldsLock(c, k) == holder[c] = k

Request(c, k) ==
    IF holder[c] = Nobody
    THEN holder' = [holder EXCEPT ![c] = k] /\ UNCHANGED waiters
    ELSE waiters' = [waiters EXCEPT ![c] = Append(@, k)] /\ UNCHANGED holder

\* Fault: the released lock wakes no waiter.
HandOverLosesWakeup(c) == holder' = [holder EXCEPT ![c] = Nobody] /\ UNCHANGED waiters

\* Releasing hands the lock to the longest waiter.
HandOver(c) ==
    IF waiters[c] = <<>>
    THEN holder' = [holder EXCEPT ![c] = Nobody] /\ UNCHANGED waiters
    ELSE /\ holder' = [holder EXCEPT ![c] = Head(waiters[c])]
         /\ waiters' = [waiters EXCEPT ![c] = Tail(@)]

At(c, k, l) == pc' = [pc EXCEPT ![c][k] = l]

\* Fault: released bytes are not notified.
WokenNever(p) == p

\* Condition.notify_all: the budget waiter re-evaluates its predicate when it
\* next runs.  Setting _closing alone wakes nobody.
Woken(p) == IF p["ingest"] = "budget" THEN [p EXCEPT !["ingest"] = "notified"] ELSE p

\* Fault: the waiters are notified, the bytes stay reserved.
ReleaseForgotten(c, bytes) ==
    /\ pc' = [pc EXCEPT ![c] = Woken(@)]
    /\ UNCHANGED retained

\* _release(camera, size).
Release(c, bytes) ==
    /\ retained' = [retained EXCEPT ![c] = IF @ > bytes THEN @ - bytes ELSE 0]
    /\ pc' = [pc EXCEPT ![c] = Woken(@)]

\* Fault: only the accumulator counts against the budget.
FitsAccumulator(c, size) == accumulator[c].bytes + size <= MaxBytes

\* The predicate of _reserve without the _closing escape.
Fits(c, size) == retained[c] + size <= MaxBytes

memory_bytes(c) == retained[c]
-----------------------------------------------------------------------------
Init ==
    /\ life = "new"
    /\ closing = FALSE
    /\ accumulator = [c \in Camera |-> NoBatch]
    /\ queue = [c \in Camera |-> Empty]
    /\ hand = [c \in Camera |-> NoBatch]
    /\ worker = [c \in Camera |-> NoWorker]
    /\ retained = [c \in Camera |-> 0]
    /\ unwritten = [c \in Camera |-> 0]
    /\ holder = [c \in Camera |-> Nobody]
    /\ waiters = [c \in Camera |-> <<>>]
    /\ pc = [c \in Camera |-> [k \in Client |-> "idle"]]
    /\ offered = [c \in Camera |-> 0]
    /\ admitted = [c \in Camera |-> [count |-> 0, bytes |-> 0]]
    /\ written = [c \in Camera |-> NoBatch]
    /\ stored = [c \in Camera |-> NoBatch]
    /\ abandoned = [c \in Camera |-> NoBatch]

\* start(): one process starts its only manager once.
Start ==
    /\ life = "new"
    /\ life' = "running"
    /\ closing' = FALSE
    /\ unwritten' = [c \in Camera |-> 0]
    /\ worker' = [c \in Camera |-> IdleWorker]
    /\ UNCHANGED <<accumulator, queue, hand, retained, holder, waiters, pc, offered, history>>
-----------------------------------------------------------------------------
(* Producers.                                                              *)

\* add() is called: the upload lock admits one request per camera at a time.
CallAdd(c) ==
    /\ life # "new"
    /\ pc[c]["ingest"] = "idle"
    /\ \E size \in SegmentSizes : offered' = [offered EXCEPT ![c] = size]
    /\ admitted[c].count < MaxSegments
    /\ Request(c, "ingest")
    /\ At(c, "ingest", "add")
    /\ UNCHANGED <<life, closing, accumulator, queue, hand, worker, retained, unwritten, history>>

\* rotate_camera() is called by ingest_upload on a new stream id, or by the
\* supervisor's _on_stream_end.
CallRotate(c, k) ==
    /\ life # "new"
    /\ k \in {"ingest", "stream"}
    /\ pc[c][k] = "idle"
    /\ Request(c, k)
    /\ At(c, k, "rotate")
    /\ UNCHANGED <<life, closing, accumulator, queue, hand, worker, retained, unwritten,
                   offered, history>>

\* The client leaves its `async with ingest_lock` block and ends at l.
Leave(c, k, l) == HandOver(c) /\ At(c, k, l)

\* The camera's accumulator, queue slot and producer's hand from here on.
Settle(c, a, q, h) ==
    /\ accumulator' = [accumulator EXCEPT ![c] = a]
    /\ queue' = [queue EXCEPT ![c] = q]
    /\ hand' = [hand EXCEPT ![c] = h]

\* The accumulated batch a with the offered segment appended.
Grown(c, a) == Merge(a, [segs |-> {admitted[c].count + 1}, bytes |-> offered[c]])

\* The rest of add() from `await self._reserve` on, once the camera's
\* accumulator and queue slot are a and q.
\* ValueError("archive manager is stopping"):
Refuse(c, a, q) ==
    /\ closing
    /\ Settle(c, a, q, NoBatch)
    /\ Leave(c, "ingest", "idle")
    /\ UNCHANGED <<retained, admitted>>

AwaitBudget(c, a, q) ==
    /\ ~closing
    /\ ~Fits(c, offered[c])
    /\ Settle(c, a, q, NoBatch)
    /\ At(c, "ingest", "budget")
    /\ UNCHANGED <<retained, admitted, lockVars>>

\* accumulator.add seals at the latest when the batch reaches MaxBytes, which
\* bounds max_bytes; the duration and adaptive targets may be due earlier.
Admit(c, a, q) ==
    /\ ~closing
    /\ Fits(c, offered[c])
    /\ retained' = [retained EXCEPT ![c] = @ + offered[c]]
    /\ admitted' = [admitted EXCEPT ![c] = [count |-> @.count + 1, bytes |-> @.bytes + offered[c]]]
    /\ \/ /\ Grown(c, a).bytes < MaxBytes
          /\ Settle(c, Grown(c, a), q, NoBatch)
          /\ Leave(c, "ingest", "idle")
       \/ /\ HasRoom(q)
          /\ Settle(c, NoBatch, Queued(Grown(c, a)), NoBatch)
          /\ Leave(c, "ingest", "idle")
       \/ /\ ~HasRoom(q)
          /\ Settle(c, NoBatch, q, Grown(c, a))
          /\ At(c, "ingest", "putTail")
          /\ UNCHANGED lockVars

Reserve(c, a, q) == Refuse(c, a, q) \/ AwaitBudget(c, a, q) \/ Admit(c, a, q)

\* Before it reserves, add() seals a tail the new segment would not fit beside,
\* and may seal one that the new adaptive targets (_tune_accumulator) make due.
Overflows(c) == accumulator[c].bytes > 0 /\ accumulator[c].bytes + offered[c] > MaxBytes
MaySealFirst(c) == accumulator[c].segs # {} /\ (Adaptive \/ Overflows(c))

\* add() owns the lock.
EnterAdd(c) ==
    /\ pc[c]["ingest"] = "add"
    /\ HoldsLock(c, "ingest")
    /\ \/ closing /\ Refuse(c, accumulator[c], queue[c])
       \/ /\ ~closing
          /\ ~Overflows(c)
          /\ Reserve(c, accumulator[c], queue[c])
       \/ /\ ~closing
          /\ MaySealFirst(c) /\ HasRoom(queue[c])
          /\ Reserve(c, NoBatch, Queued(accumulator[c]))
       \/ /\ ~closing
          /\ MaySealFirst(c) /\ ~HasRoom(queue[c])
          /\ Settle(c, NoBatch, queue[c], accumulator[c])
          /\ At(c, "ingest", "putSplit")
          /\ UNCHANGED <<retained, admitted, lockVars>>
    /\ UNCHANGED <<life, closing, worker, unwritten, offered, backend>>

\* A notified _reserve waiter runs again.
RecheckBudget(c) ==
    /\ pc[c]["ingest"] = "notified"
    /\ Reserve(c, accumulator[c], queue[c])
    /\ UNCHANGED <<life, closing, worker, unwritten, offered, backend>>

\* rotate_camera() owns the lock; flush_camera() goes on to queue.join().
AfterRotate(k) == IF k = "stop" THEN "join" ELSE "idle"

EnterRotate(c, k) ==
    LET tail == accumulator[c] IN
    /\ pc[c][k] = "rotate"
    /\ HoldsLock(c, k)
    /\ \/ /\ tail.segs = {}
          /\ Settle(c, tail, queue[c], NoBatch)
          /\ Leave(c, k, AfterRotate(k))
       \/ /\ tail.segs # {} /\ HasRoom(queue[c])
          /\ Settle(c, NoBatch, Queued(tail), NoBatch)
          /\ Leave(c, k, AfterRotate(k))
       \/ /\ tail.segs # {} /\ ~HasRoom(queue[c])
          /\ Settle(c, NoBatch, queue[c], tail)
          /\ At(c, k, "putRotate")
          /\ UNCHANGED lockVars
    /\ UNCHANGED <<life, closing, worker, retained, unwritten, offered, history>>

\* A blocked queue.put finds the slot free; the task runs on from there.
UnblockSplit(c) ==
    /\ pc[c]["ingest"] = "putSplit"
    /\ HasRoom(queue[c])
    /\ Reserve(c, accumulator[c], Queued(hand[c]))
    /\ UNCHANGED <<life, closing, worker, unwritten, offered, backend>>

Unblock(c, k) ==
    /\ pc[c][k] \in {"putTail", "putRotate"}
    /\ HasRoom(queue[c])
    /\ Settle(c, accumulator[c], Queued(hand[c]), NoBatch)
    /\ Leave(c, k, AfterRotate(k))
    /\ UNCHANGED <<life, closing, worker, retained, unwritten, offered, history>>
-----------------------------------------------------------------------------
(* The worker task.                                                        *)

Busy(c) == worker[c].state \notin {"none", "idle"}

\* The worker goes on with its batch.
WorkerAt(c, s, n) == worker' = [worker EXCEPT ![c] = [state |-> s, batch |-> @.batch, attempt |-> n]]

GetBatch(c) ==
    /\ worker[c].state = "idle"
    /\ ~HasRoom(queue[c])
    /\ queue' = [queue EXCEPT ![c] = Empty]
    /\ worker' = [worker EXCEPT ![c] =
                    IF queue[c].kind = "poison" THEN NoWorker
                    ELSE [state |-> "writing", batch |-> queue[c].batch, attempt |-> 0]]
    /\ UNCHANGED <<life, closing, accumulator, hand, retained, unwritten, lockVars, pc,
                   offered, history>>

\* A thread's write takes effect before its result is known: the attempt may still
\* raise (the rename of spool.py:337 is done and the sync of 338 fails), be cancelled,
\* or have been abandoned by an abort that ended long ago.  Committing the batch again
\* leaves the same footage; under which name is the matter of BatchName.
Commits(c) ==
    /\ stored[c] = written[c]
    /\ \/ /\ worker[c].state \in {"writing", "cancelledWrite"}
          /\ stored' = [stored EXCEPT ![c] = Merge(written[c], worker[c].batch)]
       \/ /\ abandoned[c] # NoBatch
          /\ stored' = [stored EXCEPT ![c] = Merge(written[c], abandoned[c])]
    /\ UNCHANGED <<life, closing, accumulator, queue, hand, worker, retained, unwritten, lockVars,
                   pc, offered, admitted, written, abandoned>>

\* The write returned: on_written, then finally _release and task_done.
WriteSucceeds(c) ==
    /\ worker[c].state = "writing"
    /\ written' = [written EXCEPT ![c] = Merge(@, worker[c].batch)]
    /\ stored' = [stored EXCEPT ![c] = Merge(written[c], worker[c].batch)]
    /\ Release(c, worker[c].batch.bytes)
    /\ worker' = [worker EXCEPT ![c] = IdleWorker]
    /\ UNCHANGED <<life, closing, accumulator, queue, hand, unwritten, lockVars, offered, admitted,
                   abandoned>>

\* Attempts beyond the first behave alike, so the counter stops at 2.
Attempt(c) == IF worker[c].attempt < 2 THEN worker[c].attempt + 1 ELSE 2

\* The error itself may also forbid it (allow_reclaim).
MayReclaim(c) == ~closing /\ Attempt(c) = 1 /\ DeleteOldest

\* Fault: the worker gives a batch up after a second failure.
WriteFailsGivesUp(c) ==
    /\ worker[c].state = "writing"
    /\ \/ Attempt(c) = 1 /\ WorkerAt(c, "backoff", 1) /\ UNCHANGED <<retained, pc>>
       \/ /\ Attempt(c) = 2
          /\ Release(c, worker[c].batch.bytes)
          /\ worker' = [worker EXCEPT ![c] = IdleWorker]
    /\ UNCHANGED <<life, closing, accumulator, queue, hand, unwritten, lockVars, offered, history>>

\* The attempt raised, before or after it committed.
WriteFails(c) ==
    /\ worker[c].state = "writing"
    /\ \/ MayReclaim(c) /\ WorkerAt(c, "reclaim", Attempt(c))
       \/ WorkerAt(c, "backoff", Attempt(c))
    /\ UNCHANGED <<life, closing, accumulator, queue, hand, retained, unwritten, lockVars, pc,
                   offered, history>>

\* on_reclaim returned, or raised.
ReclaimEnds(c) ==
    /\ worker[c].state = "reclaim"
    /\ \E next \in {"writing", "backoff"} : WorkerAt(c, next, worker[c].attempt)
    /\ UNCHANGED <<life, closing, accumulator, queue, hand, retained, unwritten, lockVars, pc,
                   offered, history>>

\* The retry delay passed, or shutdown cut it short.
BackoffEnds(c) ==
    /\ worker[c].state = "backoff"
    /\ WorkerAt(c, "writing", worker[c].attempt)
    /\ UNCHANGED <<life, closing, accumulator, queue, hand, retained, unwritten, lockVars, pc,
                   offered, history>>
-----------------------------------------------------------------------------
(* stop(): flush every camera, poison every worker, wait for them.         *)

Stop ==
    /\ life = "running"
    /\ life' = "flushing"
    /\ closing' = TRUE
    /\ UNCHANGED <<accumulator, queue, hand, worker, retained, unwritten, lockVars, pc,
                   offered, history>>

\* flush_all starts one flush_camera task per camera.
CallFlush(c) ==
    /\ life = "flushing"
    /\ pc[c]["stop"] = "idle"
    /\ Request(c, "stop")
    /\ At(c, "stop", "rotate")
    /\ UNCHANGED <<life, closing, accumulator, queue, hand, worker, retained, unwritten,
                   offered, history>>

\* queue.join(): no unfinished task.
FinishJoin(c) ==
    /\ pc[c]["stop"] = "join"
    /\ HasRoom(queue[c]) /\ ~Busy(c)
    /\ At(c, "stop", "flushed")
    /\ UNCHANGED <<life, closing, accumulator, queue, hand, worker, retained, unwritten,
                   lockVars, offered, history>>

\* Fault: the first flushed camera ends the flush.
SendPoisonEager ==
    /\ life = "flushing"
    /\ \E c \in Camera : pc[c]["stop"] = "flushed"
    /\ \A c \in Camera : HasRoom(queue[c])
    /\ life' = "joining"
    /\ queue' = [c \in Camera |-> Poison]
    /\ UNCHANGED <<closing, accumulator, hand, worker, retained, unwritten, lockVars, pc,
                   offered, history>>

SendPoison ==
    /\ life = "flushing"
    /\ \A c \in Camera : pc[c]["stop"] = "flushed" /\ HasRoom(queue[c])
    /\ life' = "joining"
    /\ queue' = [c \in Camera |-> Poison]
    /\ UNCHANGED <<closing, accumulator, hand, worker, retained, unwritten, lockVars, pc,
                   offered, history>>

StopReturns ==
    /\ life = "joining"
    /\ \A c \in Camera : worker[c] = NoWorker
    /\ life' = "stopped"
    /\ UNCHANGED <<closing, accumulator, queue, hand, worker, retained, unwritten, lockVars, pc,
                   offered, history>>
-----------------------------------------------------------------------------
(* The shutdown deadline and abort().                                      *)

\* A queue of tasks once k left its place (k waits at most once).
Without(q, k) ==
    IF \A i \in 1..Len(q) : q[i] # k THEN q
    ELSE [i \in 1..(Len(q) - 1) |-> IF \E j \in 1..i : q[j] = k THEN q[i + 1] ELSE q[i]]

\* Task k of camera c is cancelled where it waits; a batch in its hand is lost.
Withdraw(k) ==
    /\ holder' = [c \in Camera |->
         IF holder[c] # k THEN holder[c]
         ELSE IF waiters[c] = <<>> THEN Nobody ELSE Head(waiters[c])]
    /\ waiters' = [c \in Camera |->
         IF holder[c] # k THEN Without(waiters[c], k)
         ELSE IF waiters[c] = <<>> THEN <<>> ELSE Tail(waiters[c])]
    /\ hand' = [c \in Camera |-> IF holder[c] = k THEN NoBatch ELSE hand[c]]
    /\ pc' = [c \in Camera |-> [pc[c] EXCEPT ![k] = "idle"]]

\* asyncio.timeout cancels stop() and with it the flush tasks.
CancelStop ==
    /\ life \in {"flushing", "joining"}
    /\ life' = "cancelled"
    /\ Withdraw("stop")
    /\ UNCHANGED <<closing, accumulator, queue, worker, retained, unwritten, offered, history>>

Cancelled(state) == IF state = "writing" THEN "cancelledWrite" ELSE "cancelled"

\* Fault: abort() awaits busy workers instead of cancelling them.
BeginAbortAwaitsWrites ==
    /\ life \in {"running", "cancelled"}
    /\ life' = "aborting"
    /\ closing' = TRUE
    /\ unwritten' = [c \in Camera |-> unwritten[c] + memory_bytes(c)]
    /\ worker' = [c \in Camera |-> IF Busy(c) THEN worker[c] ELSE NoWorker]
    /\ UNCHANGED <<accumulator, queue, hand, retained, lockVars, pc, offered, history>>

\* abort() up to its await: called by the cancelled stop(), or by the service
\* when the deadline passes before it reached stop().
BeginAbort ==
    /\ life \in {"running", "cancelled"}
    /\ life' = "aborting"
    /\ closing' = TRUE
    /\ unwritten' = [c \in Camera |-> unwritten[c] + memory_bytes(c)]
    /\ worker' = [c \in Camera |->
         IF Busy(c) THEN [worker[c] EXCEPT !.state = Cancelled(@)] ELSE NoWorker]
    /\ UNCHANGED <<accumulator, queue, hand, retained, lockVars, pc, offered, history>>

\* The cancelled worker's finally block.  A write it was awaiting goes on in its
\* thread (asyncio.to_thread), whatever becomes of the manager.
WorkerUnwinds(c) ==
    /\ \/ worker[c].state = "cancelled" /\ UNCHANGED abandoned
       \/ /\ worker[c].state = "cancelledWrite"
          /\ abandoned' = [abandoned EXCEPT ![c] = worker[c].batch]
    /\ Release(c, worker[c].batch.bytes)
    /\ worker' = [worker EXCEPT ![c] = NoWorker]
    /\ UNCHANGED <<life, closing, accumulator, queue, hand, unwritten, lockVars, offered, admitted,
                   written, stored>>

\* The disk outbox awaits its thread before it lets a cancellation through, and
\* if that raises, the error takes the cancellation's place (spool.py:356-367):
\* the worker sees an ordinary failure and goes on.
CancelSwallowed(c) ==
    /\ worker[c].state = "cancelledWrite"
    /\ ~BackendHonoursCancel
    /\ WorkerAt(c, "backoff", Attempt(c))
    /\ UNCHANGED <<life, closing, accumulator, queue, hand, retained, unwritten, lockVars, pc,
                   offered, history>>

\* abort() after its await: drain the queues, drop the tails, release the budget.
FinishAbort ==
    /\ life = "aborting"
    /\ \A c \in Camera : worker[c] = NoWorker
    /\ life' = "aborted"
    /\ queue' = [c \in Camera |-> Empty]
    /\ accumulator' = [c \in Camera |-> NoBatch]
    /\ retained' = [c \in Camera |-> 0]
    /\ pc' = [c \in Camera |-> Woken(pc[c])]
    /\ UNCHANGED <<closing, hand, worker, unwritten, lockVars, offered, history>>

\* supervisors.abort() cancels end-of-stream callbacks that still wait.
CancelStreams ==
    /\ life = "aborted"
    /\ \E c \in Camera : pc[c]["stream"] # "idle"
    /\ Withdraw("stream")
    /\ UNCHANGED <<life, closing, accumulator, queue, worker, retained, unwritten, offered, history>>
-----------------------------------------------------------------------------
Produce(c) ==
    \/ CallAdd(c)
    \/ EnterAdd(c)
    \/ RecheckBudget(c)
    \/ UnblockSplit(c)
    \/ \E k \in Client : CallRotate(c, k) \/ EnterRotate(c, k) \/ Unblock(c, k)

Work(c) ==
    \/ GetBatch(c)
    \/ Commits(c)
    \/ WriteSucceeds(c)
    \/ WriteFails(c)
    \/ ReclaimEnds(c)
    \/ BackoffEnds(c)
    \/ WorkerUnwinds(c)
    \/ CancelSwallowed(c)

Shutdown ==
    \/ Stop
    \/ SendPoison
    \/ StopReturns
    \/ CancelStop
    \/ BeginAbort
    \/ FinishAbort
    \/ CancelStreams
    \/ \E c \in Camera : CallFlush(c) \/ FinishJoin(c)

Next == Start \/ Shutdown \/ \E c \in Camera : Produce(c) \/ Work(c)

Spec == Init /\ [][Next]_vars

\* The event loop runs every ready task and timers fire; nothing is assumed of
\* callers, of the deadline, or of the backend.
LoopFairness ==
    \A c \in Camera :
        /\ WF_vars(EnterAdd(c))
        /\ WF_vars(RecheckBudget(c)) /\ WF_vars(UnblockSplit(c))
        /\ \A k \in Client : WF_vars(EnterRotate(c, k)) /\ WF_vars(Unblock(c, k))
        /\ WF_vars(GetBatch(c)) /\ WF_vars(ReclaimEnds(c)) /\ WF_vars(BackoffEnds(c))
        /\ WF_vars(WorkerUnwinds(c) \/ CancelSwallowed(c))
        /\ WF_vars(CallFlush(c)) /\ WF_vars(FinishJoin(c))

ShutdownFairness ==
    WF_vars(SendPoison) /\ WF_vars(StopReturns) /\ WF_vars(FinishAbort)

\* A backend that answers every write and does not refuse the same batch for ever.
BackendRecovers ==
    \A c \in Camera :
        /\ WF_vars(WriteSucceeds(c) \/ WriteFails(c))
        /\ SF_vars(WriteSucceeds(c))

\* asyncio.timeout(shutdown_timeout_seconds) fires.
DeadlineFires ==
    WF_vars(CancelStop) /\ WF_vars(life = "cancelled" /\ BeginAbort)

RecoveringSpec == Spec /\ LoopFairness /\ ShutdownFairness /\ BackendRecovers
                       /\ WF_vars(life = "cancelled" /\ BeginAbort)
DeadlineSpec == Spec /\ LoopFairness /\ ShutdownFairness /\ DeadlineFires
-----------------------------------------------------------------------------
(* Properties.                                                             *)

Life == {"new", "running", "flushing", "joining", "cancelled", "aborting", "stopped", "aborted"}

\* Types of the variables.
TypeOK ==
    /\ life \in Life
    /\ closing \in BOOLEAN
    /\ accumulator \in [Camera -> Batch]
    /\ queue \in [Camera -> QueueSlot]
    /\ hand \in [Camera -> Batch]
    /\ worker \in [Camera -> [state : WorkerState, batch : Batch, attempt : 0..2]]
    /\ retained \in [Camera -> Nat]
    /\ unwritten \in [Camera -> Nat]
    /\ holder \in [Camera -> Client \cup {Nobody}]
    /\ waiters \in [Camera -> Seq(Client)]
    /\ pc \in [Camera -> [Client -> Control]]
    /\ offered \in [Camera -> 0..MaxBytes]
    /\ admitted \in [Camera -> [count : Nat, bytes : Nat]]
    /\ written \in [Camera -> Batch]
    /\ stored \in [Camera -> Batch]
    /\ abandoned \in [Camera -> Batch]

\* Bytes the archive path of camera c really keeps alive.  (The thread of a write that
\* an abort left running keeps its batch besides; it was within the budget before.)
Held(c) ==
    accumulator[c].bytes + queue[c].batch.bytes + hand[c].bytes + worker[c].batch.bytes

\* max_buffer_mb_per_camera bounds "the active writer, queued batch and current
\* accumulator" (archive.py:350), and the batch of a blocked producer besides,
\* in every state, shutdown and abort included.
BudgetHolds == \A c \in Camera : Held(c) <= MaxBytes

\* Until a shutdown is cut short, _retained_bytes is exactly what is held: bytes
\* reserved and never released would starve the camera, bytes released early
\* would let it exceed the budget.
BudgetIsExact ==
    life \notin {"cancelled", "aborting", "aborted"} =>
        \A c \in Camera : retained[c] = Held(c)

\* What makes the budget inductive.  A producer suspended inside the locked
\* region owns the ingest lock, so at most one batch per camera is in a hand;
\* and _retained_bytes covers what is held until abort() has released it all.
LockDiscipline ==
    \A c \in Camera :
        /\ \A k \in Client : pc[c][k] \in Putting \cup Waiting => holder[c] = k
        /\ hand[c] # NoBatch => \E k \in Client : pc[c][k] \in Putting

Shapes ==
    /\ closing <=> life \notin {"new", "running"}
    /\ \A c \in Camera :
         /\ ~Busy(c) => worker[c].batch = NoBatch
         /\ queue[c].kind # "batch" => queue[c].batch = NoBatch
         /\ life \in {"new", "aborted"} => worker[c] = NoWorker
         /\ life = "aborted" => accumulator[c] = NoBatch

BudgetInv ==
    \A c \in Camera :
        /\ retained[c] <= MaxBytes
        /\ life # "aborted" => Held(c) <= retained[c]

IInv == TypeOK /\ LockDiscipline /\ Shapes /\ BudgetInv /\ BudgetIsExact /\ BudgetHolds

\* Every admitted segment is in one place of the pipeline until its write returned,
\* and a later place never holds an earlier segment: rotation, split, backpressure and
\* retries neither lose nor reorder footage (service.py:501), nor go back to what has
\* returned.  Until a shutdown is cut short, the backend has, beyond what returned,
\* nothing but the batch that is being written: only that one can be stored a second
\* time, by the retry of an attempt that failed after its commit (archive.py:750).
Stages(c) == <<written[c].segs, worker[c].batch.segs, queue[c].batch.segs,
               hand[c].segs, accumulator[c].segs>>

PipelineInOrder ==
    \A c \in Camera :
        /\ \A i, j \in 1..5 : i < j =>
             \A x \in Stages(c)[i], y \in Stages(c)[j] : x < y
        /\ life \notin {"cancelled", "aborting", "aborted"} =>
             /\ UNION {Stages(c)[i] : i \in 1..5} = 1..admitted[c].count
             /\ stored[c] \in {written[c], Merge(written[c], worker[c].batch)}

\* Shutdown hides no loss: after a complete drain everything admitted is in the
\* backend; after an abort the bytes that are not were reported as unwritten
\* (README "单独报告无法落盘的 RAM 字节数").
NothingLostUnreported ==
    \A c \in Camera :
        /\ life = "stopped" => admitted[c].bytes = stored[c].bytes
        /\ life = "aborted" => admitted[c].bytes <= stored[c].bytes + unwritten[c]

\* Batching, backpressure, retries, rotation and both ends of a shutdown
\* implement FootageStream: the backend's footage of a camera is at all times a
\* gapless prefix of what add() admitted, at most one batch longer than what was
\* reported as written; a clean stop has written all; nothing is admitted after the
\* end, and nothing is committed after it but one write that an abort left running.
Phase ==
    CASE life = "stopped" -> "drained"
      [] life = "aborted" -> "cut"
      [] OTHER -> IF closing THEN "closing" ELSE "open"

Footage == INSTANCE FootageStream
             WITH phase <- Phase,
                  accepted <- [c \in Camera |-> admitted[c].count],
                  archived <- [c \in Camera |-> stored[c].segs],
                  confirmed <- [c \in Camera |-> written[c].segs]

ImplementsFootageStream == Footage!Spec

\* Backpressure ends: while the backend recovers, every segment handed to add()
\* is admitted or refused, shutdown or not.
AddReturns ==
    \A c \in Camera : (pc[c]["ingest"] # "idle") ~> (pc[c]["ingest"] = "idle")

\* With a backend that recovers, stop() gets every camera flushed, the workers
\* poisoned and returns by itself, unless the deadline cancels it first.
StopDrains == (life = "flushing") ~> (life \in {"stopped", "cancelled"})

\* shutdown_timeout_seconds is "the total wait" (README.md:729): whether the
\* backend answers or not, the drain or the abort after the deadline ends.
ShutdownEnds == (life = "flushing") ~> (life \in {"stopped", "aborted"})
=============================================================================
