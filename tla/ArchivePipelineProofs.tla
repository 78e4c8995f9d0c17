------------------------- MODULE ArchivePipelineProofs -------------------------
(***************************************************************************)
(* What becomes of the footage of the in-memory archive path, for every    *)
(* set of cameras, budget, segment size and policy: where each segment is, *)
(* that a shutdown reports what it loses, and that the path implements     *)
(* FootageStream.                                                          *)
(***************************************************************************)
EXTENDS ArchiveManagerProofs

Cut == {"cancelled", "aborting", "aborted"}

(***************************************************************************)
(* The five stages of a camera hold adjacent intervals of its segments,    *)
(* but for one gap after those written: a batch that an abort took from    *)
(* its worker.  Such a gap never closes, and nothing behind it is written. *)
(***************************************************************************)
CutAt(w, g, k, q, h, gap, W, K, Q, H, A, n) ==
    /\ w <= g /\ g <= k /\ k <= q /\ q <= h /\ h <= n
    /\ gap = "none" => g = w
    /\ W = 1..w /\ K = (g + 1)..k /\ Q = (k + 1)..q /\ H = (q + 1)..h /\ A = (h + 1)..n

Aligned(gap, W, K, Q, H, A, n) ==
    \E w, g, k, q, h \in Nat : CutAt(w, g, k, q, h, gap, W, K, Q, H, A, n)

\* No worker will write for the camera any more.
Dead(c) == life \in {"aborting", "aborted"} /\ worker[c].state = "none"

Gap(c) == IF Dead(c) THEN "gap" ELSE "none"

LineOf(c, n) ==
    Aligned(Gap(c), written[c].segs, worker[c].batch.segs, queue[c].batch.segs,
            hand[c].segs, accumulator[c].segs, n)

LineAt(c) ==
    \E n \in Nat :
        /\ n <= admitted[c].count
        /\ life \notin Cut => n = admitted[c].count
        /\ LineOf(c, n)

LineInv == \A c \in Camera : LineAt(c)

\* A batch in a hand is the latest of its camera.
TailInv ==
    \A c \in Camera :
        /\ accumulator[c].segs = {} => accumulator[c] = NoBatch
        /\ hand[c] # NoBatch => accumulator[c] = NoBatch

\* What the flush of stop() has achieved where it waits.
FlushAt(c) ==
    /\ pc[c]["stop"] # "idle" => closing
    /\ pc[c]["stop"] \in Putting \cup {"join", "flushed"} => accumulator[c] = NoBatch
    /\ pc[c]["stop"] \in {"join", "flushed"} => hand[c] = NoBatch
    /\ pc[c]["stop"] = "flushed" => queue[c].batch = NoBatch /\ worker[c].batch = NoBatch
    /\ life \in {"joining", "stopped"} => pc[c]["stop"] = "flushed"
    /\ life = "stopped" => worker[c] = NoWorker

FlushInv == \A c \in Camera : FlushAt(c)

\* Only abort() cancels a worker, and waits for it.
CancelInv ==
    \A c \in Camera : worker[c].state \in {"cancelled", "cancelledWrite"} => life = "aborting"

\* What was admitted is written or reserved, and what abort() finds reserved it reports.
BytesAt(c) ==
    /\ life \notin {"aborting", "aborted"} =>
         admitted[c].bytes = written[c].bytes + retained[c]
    /\ life \in {"aborting", "aborted"} =>
         admitted[c].bytes <= written[c].bytes + unwritten[c]

BytesInv == \A c \in Camera : BytesAt(c)

Prefix(S, c) == \E n \in Nat : n <= admitted[c].count /\ S = 1..n

\* The backend is ahead of what its writes returned by the worker's batch at most, or,
\* once no worker writes any more, by the one an abort left running.
StoreAt(c) ==
    /\ ~Dead(c) => /\ abandoned[c] = NoBatch
                   /\ stored[c] \in {written[c], Merge(written[c], worker[c].batch)}
    /\ written[c].segs \subseteq stored[c].segs
    /\ written[c].bytes <= stored[c].bytes
    /\ Prefix(stored[c].segs, c)
    /\ abandoned[c] # NoBatch => Prefix(written[c].segs \cup abandoned[c].segs, c)

StoreInv == \A c \in Camera : StoreAt(c)

JInv == IInv /\ LineInv /\ TailInv /\ FlushInv /\ CancelInv /\ BytesInv /\ StoreInv
-----------------------------------------------------------------------------
(* What the steps of the path do to aligned stages.                        *)

\* An interval, as the batch of a stage, and how two of them join.
LEMMA Intervals ==
    ASSUME NEW i \in Nat, NEW j \in Nat, i <= j
    PROVE  /\ (j + 1)..j = {}
           /\ (i + 1)..j = {} => i = j
           /\ (i + 1)..j \cup {j + 1} = (i + 1)..(j + 1)
           /\ 1..i \cup (i + 1)..j = 1..j
<1>1. (j + 1)..j = {}
  OBVIOUS
<1>2. (i + 1)..j = {} => i = j
  <2>1. i # j => j \in (i + 1)..j
    OBVIOUS
  <2> QED
    BY <2>1
<1>3. (i + 1)..j \cup {j + 1} = (i + 1)..(j + 1)
  OBVIOUS
<1>4. 1..i \cup (i + 1)..j = 1..j
  OBVIOUS
<1> QED
  BY <1>1, <1>2, <1>3, <1>4

LEMMA AlignedEmpty == Aligned("none", {}, {}, {}, {}, {}, 0)
<1>1. 1..0 = {} /\ (0 + 1)..0 = {}
  OBVIOUS
<1>2. CutAt(0, 0, 0, 0, 0, "none", {}, {}, {}, {}, {}, 0)
  BY <1>1 DEF CutAt
<1> QED
  BY <1>2 DEF Aligned

\* The accumulated batch goes to the queue, or to the hand of a blocked producer.
LEMMA AlignedSeal ==
    ASSUME NEW n \in Nat, NEW gap, NEW W, NEW K, NEW Q, NEW A,
           Aligned(gap, W, K, Q, {}, A, n)
    PROVE  /\ Aligned(gap, W, K, Q, A, {}, n)
           /\ Q = {} => Aligned(gap, W, K, A, {}, {}, n)
<1> PICK w \in Nat, g \in Nat, k \in Nat, q \in Nat, h \in Nat :
        CutAt(w, g, k, q, h, gap, W, K, Q, {}, A, n)
  BY DEF Aligned
<1> USE DEF CutAt
<1>1. q = h /\ {} = (n + 1)..n
  BY Intervals
<1>2. CutAt(w, g, k, q, n, gap, W, K, Q, A, {}, n)
  BY <1>1
<1>3. Q = {} => CutAt(w, g, k, n, n, gap, W, K, A, {}, {}, n)
  <2>1. Q = {} => k = q
    BY Intervals
  <2> QED
    BY <1>1, <2>1
<1> HIDE DEF CutAt
<1> QED
  BY <1>2, <1>3 DEF Aligned

\* A blocked put finds the slot free.
LEMMA AlignedPut ==
    ASSUME NEW n \in Nat, NEW gap, NEW W, NEW K, NEW H, NEW A,
           Aligned(gap, W, K, {}, H, A, n)
    PROVE  Aligned(gap, W, K, H, {}, A, n)
<1> PICK w \in Nat, g \in Nat, k \in Nat, q \in Nat, h \in Nat :
        CutAt(w, g, k, q, h, gap, W, K, {}, H, A, n)
  BY DEF Aligned
<1> USE DEF CutAt
<1>1. k = q /\ {} = (h + 1)..h
  BY Intervals
<1>2. CutAt(w, g, k, h, h, gap, W, K, H, {}, A, n)
  BY <1>1
<1> HIDE DEF CutAt
<1> QED
  BY <1>2 DEF Aligned

\* A worker that holds nothing takes the queued batch.
LEMMA AlignedGet ==
    ASSUME NEW n \in Nat, NEW gap, NEW W, NEW Q, NEW H, NEW A,
           Aligned(gap, W, {}, Q, H, A, n)
    PROVE  Aligned(gap, W, Q, {}, H, A, n)
<1> PICK w \in Nat, g \in Nat, k \in Nat, q \in Nat, h \in Nat :
        CutAt(w, g, k, q, h, gap, W, {}, Q, H, A, n)
  BY DEF Aligned
<1> USE DEF CutAt
<1>1. g = k /\ {} = (q + 1)..q
  BY Intervals
<1>2. CutAt(w, g, q, q, h, gap, W, Q, {}, H, A, n)
  BY <1>1
<1> HIDE DEF CutAt
<1> QED
  BY <1>2 DEF Aligned

\* The backend commits the worker's batch: it extends what is written.
LEMMA AlignedCommit ==
    ASSUME NEW n \in Nat, NEW W, NEW K, NEW Q, NEW H, NEW A,
           Aligned("none", W, K, Q, H, A, n)
    PROVE  Aligned("none", W \cup K, {}, Q, H, A, n)
<1> PICK w \in Nat, g \in Nat, k \in Nat, q \in Nat, h \in Nat :
        CutAt(w, g, k, q, h, "none", W, K, Q, H, A, n)
  BY DEF Aligned
<1> USE DEF CutAt
<1>1. W \cup K = 1..k /\ {} = (k + 1)..k
  BY Intervals
<1>2. CutAt(k, k, k, q, h, "none", W \cup K, {}, Q, H, A, n)
  BY <1>1
<1> HIDE DEF CutAt
<1> QED
  BY <1>2 DEF Aligned

\* An abort loses the worker's batch, or the tail in the hand of a cancelled producer.
LEMMA AlignedLose ==
    ASSUME NEW n \in Nat, NEW gap, NEW W, NEW K, NEW Q, NEW H, NEW A,
           Aligned(gap, W, K, Q, H, A, n)
    PROVE  /\ Aligned("gap", W, K, Q, H, A, n)
           /\ Aligned("gap", W, {}, Q, H, A, n)
           /\ A = {} => \E m \in Nat : m <= n /\ Aligned(gap, W, K, Q, {}, {}, m)
           /\ K = {} => \E m \in Nat : m <= n /\ Aligned("gap", W, {}, {}, H, {}, m)
<1> PICK w \in Nat, g \in Nat, k \in Nat, q \in Nat, h \in Nat :
        CutAt(w, g, k, q, h, gap, W, K, Q, H, A, n)
  BY DEF Aligned
<1> USE DEF CutAt
<1>1. {} = (k + 1)..k /\ {} = (q + 1)..q /\ {} = (h + 1)..h
  BY Intervals
<1>2. CutAt(w, g, k, q, h, "gap", W, K, Q, H, A, n)
  OBVIOUS
<1>3. CutAt(w, k, k, q, h, "gap", W, {}, Q, H, A, n)
  BY <1>1
<1>4. q <= n /\ CutAt(w, g, k, q, q, gap, W, K, Q, {}, {}, q)
  BY <1>1
<1>5. CutAt(w, q, q, q, h, "gap", W, {}, {}, H, {}, h)
  BY <1>1
<1>6. h <= n
  OBVIOUS
<1> HIDE DEF CutAt
<1>7. Aligned("gap", W, K, Q, H, A, n) /\ Aligned("gap", W, {}, Q, H, A, n)
  BY <1>2, <1>3 DEF Aligned
<1>8. Aligned(gap, W, K, Q, {}, {}, q) /\ Aligned("gap", W, {}, {}, H, {}, h)
  BY <1>4, <1>5 DEF Aligned
<1> QED
  BY <1>4, <1>6, <1>7, <1>8

\* An admitted segment is the next one.
LEMMA AlignedGrow ==
    ASSUME NEW n \in Nat, NEW gap, NEW W, NEW K, NEW Q, NEW H, NEW A,
           Aligned(gap, W, K, Q, H, A, n)
    PROVE  Aligned(gap, W, K, Q, H, A \cup {n + 1}, n + 1)
<1> PICK w \in Nat, g \in Nat, k \in Nat, q \in Nat, h \in Nat :
        CutAt(w, g, k, q, h, gap, W, K, Q, H, A, n)
  BY DEF Aligned
<1> USE DEF CutAt
<1>1. A \cup {n + 1} = (h + 1)..(n + 1) /\ h <= n + 1
  BY Intervals
<1>2. CutAt(w, g, k, q, h, gap, W, K, Q, H, A \cup {n + 1}, n + 1)
  BY <1>1
<1> HIDE DEF CutAt
<1> QED
  BY <1>2 DEF Aligned
-----------------------------------------------------------------------------
(* What the actions leave alone.                                           *)

Ours(d) == <<accumulator[d], queue[d], hand[d], worker[d], written[d], admitted[d],
             retained[d], pc[d], stored[d], abandoned[d]>>

\* The actions of one camera leave the others alone, and life, closing and unwritten.
LEMMA OnlyCamera ==
    ASSUME TypeOK, NEW c \in Camera, Produce(c) \/ Work(c) \/ CallFlush(c) \/ FinishJoin(c)
    PROVE  /\ UNCHANGED <<life, closing, unwritten>>
           /\ \A d \in Camera \ {c} : Ours(d)' = Ours(d)
<1> USE DEF Ours, TypeOK, At, history, backend
<1>1. CASE CallAdd(c) \/ CallFlush(c) \/ FinishJoin(c)
  BY <1>1, SMTT(30) DEF CallAdd, CallFlush, FinishJoin
<1>2. ASSUME NEW k \in Client, CallRotate(c, k) \/ EnterRotate(c, k) \/ Unblock(c, k)
      PROVE  /\ UNCHANGED <<life, closing, unwritten>>
             /\ \A d \in Camera \ {c} : Ours(d)' = Ours(d)
  BY <1>2, SMTT(30) DEF CallRotate, EnterRotate, Unblock, Settle, Leave
<1>3. ASSUME NEW a, NEW q, Reserve(c, a, q), UNCHANGED <<worker, backend>>
      PROVE  \A d \in Camera \ {c} : Ours(d)' = Ours(d)
  BY <1>3, SMTT(30) DEF Reserve, Refuse, AwaitBudget, Admit, Settle, Leave
<1>4. CASE RecheckBudget(c) \/ UnblockSplit(c)
  BY <1>3, <1>4 DEF RecheckBudget, UnblockSplit
<1>5. CASE EnterAdd(c)
  <2>1. \/ \E a, q : Reserve(c, a, q)
        \/ Settle(c, NoBatch, queue[c], accumulator[c]) /\ At(c, "ingest", "putSplit")
           /\ UNCHANGED <<retained, admitted>>
    BY <1>5 DEF EnterAdd, Reserve
  <2>2. UNCHANGED <<life, closing, unwritten, worker, backend>>
    BY <1>5 DEF EnterAdd
  <2> QED
    BY <1>3, <2>1, <2>2 DEF Settle
<1>6. CASE GetBatch(c) \/ WriteFails(c) \/ ReclaimEnds(c) \/ BackoffEnds(c) \/ CancelSwallowed(c)
  BY <1>6 DEF GetBatch, WriteFails, ReclaimEnds, BackoffEnds, CancelSwallowed, WorkerAt
<1>7. CASE WriteSucceeds(c) \/ WorkerUnwinds(c)
  BY <1>7, SMTT(30) DEF WriteSucceeds, WorkerUnwinds, Release
<1>8. CASE Commits(c)
  BY <1>8, SMTT(30) DEF Commits
<1> QED
  BY <1>1, <1>2, <1>4, <1>5, <1>6, <1>7, <1>8, ControlFacts DEF Produce, Work
-----------------------------------------------------------------------------
(* The line of a camera.                                                   *)

\* A step establishes the line by the stages it leaves.
LEMMA LineFrom ==
    ASSUME NEW c \in Camera, NEW gap, NEW W, NEW K, NEW Q, NEW H, NEW A, NEW n \in Nat,
           Gap(c)' = gap, written'[c].segs = W, worker'[c].batch.segs = K,
           queue'[c].batch.segs = Q, hand'[c].segs = H, accumulator'[c].segs = A,
           Aligned(gap, W, K, Q, H, A, n),
           n <= admitted'[c].count, life' \notin Cut => n = admitted'[c].count
    PROVE  LineAt(c)'
<1>1. LineOf(c, n)'
  BY SMTT(30) DEF LineOf, Aligned, CutAt
<1> QED
  BY <1>1 DEF LineAt

\* A step that moves nothing of the camera; the reasons may only get worse.
LEMMA LineStays ==
    ASSUME TypeOK, NEW d \in Camera, LineAt(d),
           written'[d].segs = written[d].segs, worker'[d].batch.segs = worker[d].batch.segs,
           queue'[d].batch.segs = queue[d].batch.segs, hand'[d].segs = hand[d].segs,
           accumulator'[d].segs = accumulator[d].segs, admitted'[d].count = admitted[d].count,
           life' \notin Cut => life \notin Cut,
           Dead(d) => Dead(d)'
    PROVE  LineAt(d)'
<1> PICK n \in Nat :
        /\ n <= admitted[d].count
        /\ life \notin Cut => n = admitted[d].count
        /\ LineOf(d, n)
  BY DEF LineAt
<1>1. Aligned(Gap(d), written[d].segs, worker[d].batch.segs, queue[d].batch.segs,
              hand[d].segs, accumulator[d].segs, n)
  BY DEF LineOf
<1>2. Aligned("gap", written[d].segs, worker[d].batch.segs, queue[d].batch.segs,
              hand[d].segs, accumulator[d].segs, n)
  BY <1>1, AlignedLose
<1>3. CASE Gap(d)' = Gap(d)
  BY <1>1, <1>3, LineFrom
<1>4. CASE Gap(d)' = "gap"
  BY <1>2, <1>4, LineFrom
<1> QED
  BY <1>3, <1>4 DEF Gap

\* A producer's step replaces the three stages before the worker.
LEMMA SettleLine ==
    ASSUME TypeOK, NEW c \in Camera, NEW a, NEW q, NEW h, Settle(c, a, q, h),
           UNCHANGED <<life, worker, written>>, NEW n \in Nat,
           Aligned(Gap(c), written[c].segs, worker[c].batch.segs, q.batch.segs, h.segs, a.segs, n),
           n <= admitted'[c].count, life \notin Cut => n = admitted'[c].count
    PROVE  LineAt(c)'
<1>1. accumulator'[c] = a /\ queue'[c] = q /\ hand'[c] = h
  BY DEF Settle, TypeOK
<1>2. Gap(c)' = Gap(c)
  BY DEF Gap, Dead
<1> QED
  BY <1>1, <1>2, LineFrom

\* The rest of add(), from _reserve on, with nothing in its hand.
LEMMA ReserveLine ==
    ASSUME TypeOK, Shapes, NEW c \in Camera, NEW a \in Batch, NEW q \in QueueSlot,
           Reserve(c, a, q), UNCHANGED <<life, worker, written>>,
           HasRoom(q) => q.batch = NoBatch,
           NEW n \in Nat, n <= admitted[c].count, life \notin Cut => n = admitted[c].count,
           Aligned(Gap(c), written[c].segs, worker[c].batch.segs, q.batch.segs, {}, a.segs, n)
    PROVE  LineAt(c)'
<1>0. NoBatch.segs = {}
  BY SlotShapes
<1>1. CASE Refuse(c, a, q) \/ AwaitBudget(c, a, q)
  <2>1. Settle(c, a, q, NoBatch) /\ UNCHANGED admitted
    BY <1>1 DEF Refuse, AwaitBudget
  <2> QED
    BY <1>0, <2>1, SettleLine
<1>2. CASE Admit(c, a, q)
  <2>1. n = admitted[c].count /\ admitted'[c].count = n + 1
    BY <1>2 DEF Admit, Shapes, TypeOK, Cut
  <2>2. Grown(c, a).segs = a.segs \cup {n + 1}
    BY <2>1 DEF Grown, Merge
  <2>3. Aligned(Gap(c), written[c].segs, worker[c].batch.segs, q.batch.segs, {},
                Grown(c, a).segs, n + 1)
    BY <2>2, AlignedGrow
  <2>4. n + 1 \in Nat /\ n + 1 <= admitted'[c].count
    BY <2>1
  <2>5. CASE Settle(c, Grown(c, a), q, NoBatch)
    BY <1>0, <2>1, <2>3, <2>4, <2>5, SettleLine
  <2>6. CASE HasRoom(q) /\ Settle(c, NoBatch, Queued(Grown(c, a)), NoBatch)
    <3>1. Aligned(Gap(c), written[c].segs, worker[c].batch.segs, Grown(c, a).segs, {}, {}, n + 1)
      BY <1>0, <2>3, <2>4, <2>6, AlignedSeal
    <3>2. Queued(Grown(c, a)).batch = Grown(c, a)
      BY SlotShapes
    <3>3. Aligned(Gap(c), written[c].segs, worker[c].batch.segs, Queued(Grown(c, a)).batch.segs,
                  NoBatch.segs, NoBatch.segs, n + 1)
      BY <1>0, <3>1, <3>2
    <3> QED
      BY <2>1, <2>4, <2>6, <3>3, SettleLine
  <2>7. CASE Settle(c, NoBatch, q, Grown(c, a))
    <3>1. Aligned(Gap(c), written[c].segs, worker[c].batch.segs, q.batch.segs,
                  Grown(c, a).segs, {}, n + 1)
      BY <1>0, <2>3, <2>4, AlignedSeal
    <3> QED
      BY <1>0, <2>1, <2>4, <2>7, <3>1, SettleLine
  <2> QED
    BY <1>2, <2>5, <2>6, <2>7 DEF Admit
<1> QED
  BY <1>1, <1>2 DEF Reserve

\* Whoever runs inside the locked region and is not in a put has an empty hand.
LEMMA EmptyHandLine ==
    ASSUME NEW c \in Camera, LineAt(c), hand[c] = NoBatch
    PROVE  \E n \in Nat :
             /\ n <= admitted[c].count
             /\ life \notin Cut => n = admitted[c].count
             /\ Aligned(Gap(c), written[c].segs, worker[c].batch.segs, queue[c].batch.segs, {},
                        accumulator[c].segs, n)
BY SlotShapes DEF LineAt, LineOf

\* The steps of the producers, at the camera where they run.
LEMMA ProduceLine ==
    ASSUME TypeOK, LockDiscipline, Shapes, NEW c \in Camera, LineAt(c), Produce(c)
    PROVE  LineAt(c)'
<1>0. /\ NoBatch.segs = {} /\ NoBatch \in Batch
      /\ HasRoom(queue[c]) => queue[c].batch = NoBatch
  BY SlotShapes, NoBatchType DEF Shapes, HasRoom
<1>types. /\ accumulator[c] \in Batch /\ queue[c] \in QueueSlot
          /\ Queued(accumulator[c]) \in QueueSlot /\ Queued(hand[c]) \in QueueSlot
          /\ \A b : ~HasRoom(Queued(b)) /\ Queued(b).batch = b
  BY SlotTypes, SlotShapes DEF TypeOK, HasRoom
<1>1. ASSUME NEW k \in Client, CallAdd(c) \/ CallRotate(c, k)
      PROVE  LineAt(c)'
  BY <1>1, LineStays DEF CallAdd, CallRotate, history, Dead
<1>2. CASE EnterAdd(c)
  <2>1. hand[c] = NoBatch
    BY <1>2, EmptyHand, ControlFacts DEF EnterAdd, HoldsLock
  <2> PICK n \in Nat :
             /\ n <= admitted[c].count
             /\ life \notin Cut => n = admitted[c].count
             /\ Aligned(Gap(c), written[c].segs, worker[c].batch.segs, queue[c].batch.segs, {},
                        accumulator[c].segs, n)
    BY <2>1, EmptyHandLine
  <2>2. UNCHANGED <<life, worker, written>>
    BY <1>2 DEF EnterAdd, backend
  <2>3. CASE Reserve(c, accumulator[c], queue[c])
    BY <1>0, <1>types, <2>2, <2>3, ReserveLine
  <2>4. CASE HasRoom(queue[c]) /\ Reserve(c, NoBatch, Queued(accumulator[c]))
    <3>1. Aligned(Gap(c), written[c].segs, worker[c].batch.segs,
                  Queued(accumulator[c]).batch.segs, {}, NoBatch.segs, n)
      BY <1>0, <1>types, <2>4, AlignedSeal
    <3> QED
      BY <1>0, <1>types, <2>2, <2>4, <3>1, ReserveLine
  <2>5. CASE Settle(c, NoBatch, queue[c], accumulator[c]) /\ UNCHANGED admitted
    <3>1. Aligned(Gap(c), written[c].segs, worker[c].batch.segs, queue[c].batch.segs,
                  accumulator[c].segs, NoBatch.segs, n)
      BY <1>0, AlignedSeal
    <3> QED
      BY <2>2, <2>5, <3>1, SettleLine
  <2> QED
    BY <1>2, <2>3, <2>4, <2>5 DEF EnterAdd, Reserve
<1>3. CASE RecheckBudget(c)
  <2>1. hand[c] = NoBatch
    BY <1>3, EmptyHand, ControlFacts DEF RecheckBudget, LockDiscipline, Waiting
  <2> PICK n \in Nat :
             /\ n <= admitted[c].count
             /\ life \notin Cut => n = admitted[c].count
             /\ Aligned(Gap(c), written[c].segs, worker[c].batch.segs, queue[c].batch.segs, {},
                        accumulator[c].segs, n)
    BY <2>1, EmptyHandLine
  <2> QED
    BY <1>0, <1>3, <1>types, ReserveLine DEF RecheckBudget, backend
<1>4. CASE UnblockSplit(c) \/ \E k \in Client : Unblock(c, k)
  <2> PICK n \in Nat :
             /\ n <= admitted[c].count
             /\ life \notin Cut => n = admitted[c].count
             /\ LineOf(c, n)
    BY DEF LineAt
  <2>1. HasRoom(queue[c]) /\ UNCHANGED <<life, worker, written>>
    BY <1>4 DEF UnblockSplit, Unblock, history, backend
  <2>2. Aligned(Gap(c), written[c].segs, worker[c].batch.segs, Queued(hand[c]).batch.segs,
                {}, accumulator[c].segs, n)
    BY <1>0, <1>types, <2>1, AlignedPut, ZenonT(30) DEF LineOf
  <2>3. CASE UnblockSplit(c)
    BY <1>types, <2>1, <2>2, <2>3, ReserveLine DEF UnblockSplit
  <2>4. CASE Settle(c, accumulator[c], Queued(hand[c]), NoBatch) /\ UNCHANGED admitted
    BY <1>0, <2>1, <2>2, <2>4, SettleLine
  <2> QED
    BY <1>4, <2>3, <2>4 DEF Unblock, history
<1>5. ASSUME NEW k \in Client, EnterRotate(c, k)
      PROVE  LineAt(c)'
  <2>1. hand[c] = NoBatch
    BY <1>5, EmptyHand, ControlFacts DEF EnterRotate, HoldsLock
  <2> PICK n \in Nat :
             /\ n <= admitted[c].count
             /\ life \notin Cut => n = admitted[c].count
             /\ Aligned(Gap(c), written[c].segs, worker[c].batch.segs, queue[c].batch.segs, {},
                        accumulator[c].segs, n)
    BY <2>1, EmptyHandLine
  <2>2. UNCHANGED <<life, worker, written, admitted>>
    BY <1>5 DEF EnterRotate, history
  <2>3. CASE Settle(c, accumulator[c], queue[c], NoBatch)
    BY <1>0, <2>2, <2>3, SettleLine
  <2>4. CASE HasRoom(queue[c]) /\ Settle(c, NoBatch, Queued(accumulator[c]), NoBatch)
    <3>1. Aligned(Gap(c), written[c].segs, worker[c].batch.segs,
                  Queued(accumulator[c]).batch.segs, NoBatch.segs, NoBatch.segs, n)
      BY <1>0, <1>types, <2>4, AlignedSeal
    <3> QED
      BY <2>2, <2>4, <3>1, SettleLine
  <2>5. CASE Settle(c, NoBatch, queue[c], accumulator[c])
    <3>1. Aligned(Gap(c), written[c].segs, worker[c].batch.segs, queue[c].batch.segs,
                  accumulator[c].segs, NoBatch.segs, n)
      BY <1>0, AlignedSeal
    <3> QED
      BY <2>2, <2>5, <3>1, SettleLine
  <2> QED
    BY <1>5, <2>3, <2>4, <2>5 DEF EnterRotate
<1> QED
  BY <1>1, <1>2, <1>3, <1>4, <1>5, ControlFacts DEF Produce

\* The steps of the worker, at its camera.
LEMMA WorkLine ==
    ASSUME TypeOK, Shapes, CancelInv, NEW c \in Camera, LineAt(c), Work(c)
    PROVE  LineAt(c)'
<1> PICK n \in Nat :
        /\ n <= admitted[c].count
        /\ life \notin Cut => n = admitted[c].count
        /\ LineOf(c, n)
  BY DEF LineAt
<1>0. NoBatch.segs = {} /\ life' = life
  BY SlotShapes, OnlyCamera
<1>1. CASE GetBatch(c)
  <2>1. worker[c].batch = NoBatch /\ Gap(c) = "none"
    BY <1>1 DEF GetBatch, Shapes, Busy, Gap, Dead
  <2>2. queue'[c].batch = NoBatch /\ worker'[c].batch = queue[c].batch
    BY <1>1, SlotShapes DEF GetBatch, TypeOK, Shapes
  <2>3. Aligned("none", written[c].segs, queue[c].batch.segs, {}, hand[c].segs,
                accumulator[c].segs, n)
    BY <1>0, <2>1, AlignedGet DEF LineOf
  <2>4. Aligned("gap", written[c].segs, queue[c].batch.segs, {}, hand[c].segs,
                accumulator[c].segs, n)
    BY <2>3, AlignedLose
  <2>5. UNCHANGED <<written, hand, accumulator, admitted>>
    BY <1>1 DEF GetBatch, history
  <2>6. Gap(c)' = "none" \/ Gap(c)' = "gap"
    BY DEF Gap
  <2> QED
    BY <1>0, <2>2, <2>3, <2>4, <2>5, <2>6, LineFrom
<1>2. CASE WriteSucceeds(c) \/ WorkerUnwinds(c)
  <2>1. Gap(c) = "none"
    BY <1>2 DEF WriteSucceeds, WorkerUnwinds, Gap, Dead
  <2>2. worker'[c].batch = NoBatch
        /\ UNCHANGED <<queue, hand, accumulator, admitted>>
    BY <1>2, SlotShapes DEF WriteSucceeds, WorkerUnwinds, TypeOK
  <2>3. CASE WriteSucceeds(c)
    <3>0. written'[c] = Merge(written[c], worker[c].batch)
      BY <2>3 DEF WriteSucceeds, TypeOK
    <3>1. written'[c].segs = written[c].segs \cup worker[c].batch.segs
      BY <3>0 DEF Merge
    <3>2. Aligned("none", written[c].segs \cup worker[c].batch.segs, {}, queue[c].batch.segs,
                  hand[c].segs, accumulator[c].segs, n)
      BY <2>1, AlignedCommit DEF LineOf
    <3>3. Aligned("gap", written[c].segs \cup worker[c].batch.segs, {}, queue[c].batch.segs,
                  hand[c].segs, accumulator[c].segs, n)
      BY <3>2, AlignedLose
    <3>4. Gap(c)' = "none" \/ Gap(c)' = "gap"
      BY DEF Gap
    <3> QED
      BY <1>0, <2>2, <3>1, <3>2, <3>3, <3>4, LineFrom
  <2>4. CASE WorkerUnwinds(c)
    <3>0. written' = written
      BY <2>4 DEF WorkerUnwinds
    <3>1. Gap(c)' = "gap"
      <4>1. life' = "aborting"
        BY <1>0, <2>4 DEF WorkerUnwinds, CancelInv
      <4>2. worker'[c].state = "none"
        BY <2>4 DEF WorkerUnwinds, TypeOK, NoWorker
      <4> QED
        BY <4>1, <4>2 DEF Gap, Dead
    <3>2. Aligned("gap", written[c].segs, {}, queue[c].batch.segs,
                  hand[c].segs, accumulator[c].segs, n)
      BY AlignedLose DEF LineOf
    <3> QED
      BY <1>0, <2>2, <3>0, <3>1, <3>2, LineFrom
  <2> QED
    BY <1>2, <2>3, <2>4
<1>3. CASE WriteFails(c) \/ ReclaimEnds(c) \/ BackoffEnds(c) \/ CancelSwallowed(c)
  <2>1. \E s, m : WorkerAt(c, s, m)
    BY <1>3 DEF WriteFails, ReclaimEnds, BackoffEnds, CancelSwallowed
  <2>2. worker'[c].batch = worker[c].batch
    BY <2>1 DEF WorkerAt, TypeOK
  <2>3. UNCHANGED <<queue, hand, accumulator, admitted, written>> /\ ~Dead(c)
    BY <1>3 DEF WriteFails, ReclaimEnds, BackoffEnds, CancelSwallowed, history, Dead
  <2> QED
    BY <1>0, <2>2, <2>3, LineStays
<1>4. CASE Commits(c)
  BY <1>0, <1>4, LineStays DEF Commits, Dead
<1> QED
  BY <1>1, <1>2, <1>3, <1>4 DEF Work

\* A cancelled task loses at most the tail, which it had in its hand.
LEMMA WithdrawLine ==
    ASSUME TypeOK, TailInv, NEW c \in Camera, LineAt(c), NEW k, Withdraw(k),
           UNCHANGED <<accumulator, queue, worker, history>>,
           life' \in Cut, Dead(c)' <=> Dead(c)
    PROVE  LineAt(c)'
<1> PICK n \in Nat :
        /\ n <= admitted[c].count
        /\ life \notin Cut => n = admitted[c].count
        /\ LineOf(c, n)
  BY DEF LineAt
<1>1. hand'[c] = hand[c] \/ (hand[c] # NoBatch /\ hand'[c] = NoBatch)
  BY DEF Withdraw
<1>2. CASE hand'[c] = hand[c]
  BY <1>2, LineStays DEF history
<1>3. CASE hand[c] # NoBatch /\ hand'[c] = NoBatch
  <2>1. accumulator[c].segs = {} /\ hand'[c].segs = {}
    BY <1>3, SlotShapes DEF TailInv
  <2> PICK m \in Nat :
          /\ m <= n
          /\ Aligned(Gap(c), written[c].segs, worker[c].batch.segs, queue[c].batch.segs, {}, {}, m)
    BY <2>1, AlignedLose DEF LineOf
  <2>2. Gap(c)' = Gap(c)
    BY DEF Gap
  <2>3. m <= admitted[c].count /\ admitted[c].count \in Nat
    BY DEF TypeOK
  <2> QED
    BY <2>1, <2>2, <2>3, LineFrom DEF history
<1> QED
  BY <1>1, <1>2, <1>3

\* Every step keeps the line of every camera.
LEMMA LineStep ==
    ASSUME IInv, LineInv, TailInv, CancelInv, [Next]_vars
    PROVE  LineInv'
<1> SUFFICES ASSUME NEW d \in Camera PROVE LineAt(d)'
  BY DEF LineInv
<1>0. TypeOK /\ LockDiscipline /\ Shapes /\ LineAt(d) /\ NoBatch.segs = {}
  BY SlotShapes DEF IInv, LineInv
<1>1. ASSUME NEW c \in Camera, Produce(c) \/ Work(c) \/ CallFlush(c) \/ FinishJoin(c), c # d
      PROVE  LineAt(d)'
  BY <1>0, <1>1, OnlyCamera, LineStays DEF Ours, Dead
<1>2. CASE Produce(d) \/ Work(d)
  BY <1>0, <1>2, ProduceLine, WorkLine
<1>3. CASE CallFlush(d) \/ FinishJoin(d)
  BY <1>0, <1>3, LineStays DEF CallFlush, FinishJoin, history, Dead
<1>4. CASE Start
  BY <1>0, <1>4, LineStays, SlotShapes DEF Start, Shapes, history, Dead, Cut
<1>5. CASE Stop \/ StopReturns \/ UNCHANGED vars
  BY <1>0, <1>5, LineStays DEF Stop, StopReturns, vars, history, Dead, Cut
<1>6. CASE SendPoison
  <2>1. queue'[d].batch.segs = queue[d].batch.segs
    BY <1>0, <1>6, SlotShapes DEF SendPoison, Shapes, HasRoom
  <2> QED
    BY <1>0, <1>6, <2>1, LineStays DEF SendPoison, history, Dead, Cut
<1>7. CASE CancelStop \/ CancelStreams
  <2>1. \E k : Withdraw(k)
    BY <1>7 DEF CancelStop, CancelStreams
  <2>2. life' \in Cut /\ (Dead(d)' <=> Dead(d))
    BY <1>7 DEF CancelStop, CancelStreams, Cut, Dead
  <2>3. UNCHANGED <<accumulator, queue, worker, history>>
    BY <1>7 DEF CancelStop, CancelStreams
  <2> QED
    BY <1>0, <2>1, <2>2, <2>3, WithdrawLine
<1>8. CASE BeginAbort
  <2>1. worker'[d].batch.segs = worker[d].batch.segs
    BY <1>0, <1>8, SlotShapes DEF BeginAbort, Shapes, TypeOK
  <2>2. ~Dead(d) /\ life' \in Cut
    BY <1>8 DEF BeginAbort, Dead, Cut
  <2> QED
    BY <1>0, <1>8, <2>1, <2>2, LineStays DEF BeginAbort, history
<1>9. CASE FinishAbort
  <2> PICK n \in Nat :
          /\ n <= admitted[d].count
          /\ life \notin Cut => n = admitted[d].count
          /\ LineOf(d, n)
    BY <1>0 DEF LineAt
  <2>1. worker[d] = NoWorker /\ worker[d].batch.segs = {}
    BY <1>0, <1>9, SlotShapes DEF FinishAbort
  <2> PICK m \in Nat :
          /\ m <= n
          /\ Aligned("gap", written[d].segs, {}, {}, hand[d].segs, {}, m)
    BY <2>1, AlignedLose DEF LineOf
  <2>2. Gap(d)' = "gap" /\ life' \in Cut
    BY <1>9, <2>1 DEF FinishAbort, Gap, Dead, Cut, NoWorker
  <2>3. /\ queue'[d].batch.segs = {} /\ accumulator'[d].segs = {} /\ worker'[d].batch.segs = {}
        /\ UNCHANGED <<hand, written, admitted>>
    BY <1>0, <1>9, <2>1, SlotShapes DEF FinishAbort, history
  <2>4. m <= admitted[d].count
    BY <1>0 DEF TypeOK
  <2> QED
    BY <2>2, <2>3, <2>4, LineFrom
<1> QED
  BY <1>1, <1>2, <1>3, <1>4, <1>5, <1>6, <1>7, <1>8, <1>9 DEF Next, Shutdown
-----------------------------------------------------------------------------
(* The other parts of the invariant.                                       *)

\* A batch with the offered segment in it is not empty.
LEMMA GrownFull ==
    ASSUME NEW c \in Camera, NEW a
    PROVE  Grown(c, a).segs # {}
BY DEF Grown, Merge

\* The rest of add(), from _reserve on.
LEMMA ReserveTail ==
    ASSUME TypeOK, TailInv, NEW c \in Camera, NEW a, NEW q, Reserve(c, a, q),
           a.segs = {} => a = NoBatch
    PROVE  /\ accumulator'[c].segs = {} => accumulator'[c] = NoBatch
           /\ hand'[c] # NoBatch => accumulator'[c] = NoBatch
<1>1. \E b, s, h : /\ Settle(c, b, s, h)
                   /\ b.segs = {} => b = NoBatch
                   /\ h # NoBatch => b = NoBatch
  <2>1. CASE Settle(c, a, q, NoBatch)
    BY <2>1
  <2>2. CASE Settle(c, Grown(c, a), q, NoBatch)
    BY <2>2, GrownFull
  <2>3. CASE \E s, h : Settle(c, NoBatch, s, h)
    BY <2>3
  <2> QED
    BY <2>1, <2>2, <2>3 DEF Reserve, Refuse, AwaitBudget, Admit
<1> QED
  BY <1>1 DEF Settle, TypeOK

\* A step that leaves the accumulator alone, and the hand or empties it.
LEMMA TailStays ==
    ASSUME TypeOK, TailInv, NEW d \in Camera,
           accumulator'[d] \in {accumulator[d], NoBatch}, hand'[d] \in {hand[d], NoBatch}
    PROVE  /\ accumulator'[d].segs = {} => accumulator'[d] = NoBatch
           /\ hand'[d] # NoBatch => accumulator'[d] = NoBatch
BY DEF TailInv

LEMMA TailStep ==
    ASSUME IInv, TailInv, [Next]_vars
    PROVE  TailInv'
<1> SUFFICES ASSUME NEW d \in Camera
             PROVE  /\ accumulator'[d].segs = {} => accumulator'[d] = NoBatch
                    /\ hand'[d] # NoBatch => accumulator'[d] = NoBatch
  BY DEF TailInv
<1> DEFINE AtEnd == /\ accumulator'[d].segs = {} => accumulator'[d] = NoBatch
                    /\ hand'[d] # NoBatch => accumulator'[d] = NoBatch
<1>0. TypeOK /\ (accumulator[d].segs = {} => accumulator[d] = NoBatch)
  BY DEF IInv, TailInv
<1>1. ASSUME NEW c \in Camera, Produce(c) \/ Work(c) \/ CallFlush(c) \/ FinishJoin(c), c # d
      PROVE  AtEnd
  BY <1>0, <1>1, OnlyCamera, TailStays DEF Ours
<1>2. CASE EnterAdd(d)
  <2>1. \/ Reserve(d, accumulator[d], queue[d])
        \/ Reserve(d, NoBatch, Queued(accumulator[d]))
        \/ Settle(d, NoBatch, queue[d], accumulator[d])
    BY <1>2 DEF EnterAdd, Reserve
  <2>2. CASE Settle(d, NoBatch, queue[d], accumulator[d])
    BY <1>0, <2>2 DEF Settle, TypeOK
  <2> QED
    BY <1>0, <2>1, <2>2, ReserveTail
<1>3. CASE RecheckBudget(d) \/ UnblockSplit(d)
  BY <1>0, <1>3, ReserveTail DEF RecheckBudget, UnblockSplit
<1>4. ASSUME NEW k \in Client, EnterRotate(d, k) \/ Unblock(d, k)
      PROVE  AtEnd
  BY <1>0, <1>4 DEF EnterRotate, Unblock, Settle, TypeOK
<1>5. CASE FinishAbort
  BY <1>0, <1>5, TailStays DEF FinishAbort
<1>6. CASE CancelStop \/ CancelStreams
  BY <1>0, <1>6, TailStays DEF CancelStop, CancelStreams, Withdraw
<1>7. CASE UNCHANGED <<accumulator, hand>>
  BY <1>0, <1>7, TailStays
<1>8. ASSUME NEW k \in Client,
             CallAdd(d) \/ CallRotate(d, k) \/ Work(d) \/ CallFlush(d) \/ FinishJoin(d)
      PROVE  UNCHANGED <<accumulator, hand>>
  BY <1>8 DEF CallAdd, CallRotate, Work, GetBatch, Commits, WriteSucceeds, WriteFails,
     ReclaimEnds, BackoffEnds, WorkerUnwinds, CancelSwallowed, CallFlush, FinishJoin
<1>9. Start \/ Stop \/ SendPoison \/ StopReturns \/ BeginAbort \/ UNCHANGED vars
        => UNCHANGED <<accumulator, hand>>
  BY DEF Start, Stop, SendPoison, StopReturns, BeginAbort, vars
<1> QED
  BY <1>1, <1>2, <1>3, <1>4, <1>5, <1>6, <1>7, <1>8, <1>9, ControlFacts
  DEF Next, Shutdown, Produce

LEMMA CancelStep ==
    ASSUME IInv, CancelInv, [Next]_vars
    PROVE  CancelInv'
<1> SUFFICES ASSUME NEW d \in Camera
             PROVE  worker'[d].state \in {"cancelled", "cancelledWrite"} => life' = "aborting"
  BY DEF CancelInv
<1> USE DEF IInv, CancelInv
<1>1. ASSUME NEW c \in Camera, Produce(c) \/ Work(c) \/ CallFlush(c) \/ FinishJoin(c), c # d
      PROVE  worker'[d] = worker[d] /\ life' = life
  BY <1>1, OnlyCamera DEF Ours
<1>2. CASE Produce(d) \/ CallFlush(d) \/ FinishJoin(d)
  <2>1. worker' = worker
    BY <1>2 DEF Produce, CallAdd, EnterAdd, RecheckBudget, UnblockSplit, CallRotate, EnterRotate,
       Unblock, CallFlush, FinishJoin
  <2> QED
    BY <1>2, <2>1, OnlyCamera
<1>3. CASE Work(d) /\ ~Commits(d)
  <2>1. worker'[d].state \notin {"cancelled", "cancelledWrite"}
    <3>1. CASE GetBatch(d) \/ WriteSucceeds(d) \/ WorkerUnwinds(d)
      BY <3>1 DEF GetBatch, WriteSucceeds, WorkerUnwinds, TypeOK, NoWorker, IdleWorker
    <3>2. CASE WriteFails(d) \/ ReclaimEnds(d) \/ BackoffEnds(d) \/ CancelSwallowed(d)
      BY <3>2 DEF WriteFails, ReclaimEnds, BackoffEnds, CancelSwallowed, WorkerAt, TypeOK
    <3> QED
      BY <1>3, <3>1, <3>2 DEF Work
  <2> QED
    BY <2>1
<1>4. CASE Start
  BY <1>4 DEF Start, IdleWorker
<1>5. CASE BeginAbort
  BY <1>5 DEF BeginAbort
<1>6. CASE FinishAbort
  BY <1>6 DEF FinishAbort, NoWorker
<1>7. CASE \/ Stop \/ SendPoison \/ StopReturns \/ CancelStop \/ CancelStreams
           \/ UNCHANGED vars
  BY <1>7 DEF Stop, SendPoison, StopReturns, CancelStop, CancelStreams, vars
<1>8. CASE Commits(d)
  BY <1>8 DEF Commits
<1> QED
  BY <1>1, <1>2, <1>3, <1>4, <1>5, <1>6, <1>7, <1>8 DEF Next, Shutdown

\* While closing, nothing fills an accumulator that is empty, nor a hand or a queue after it.
LEMMA ClosedProduce ==
    ASSUME TypeOK, TailInv, NEW c \in Camera, Produce(c), closing, accumulator[c] = NoBatch
    PROVE  /\ accumulator'[c] = NoBatch
           /\ hand[c] = NoBatch =>
                hand'[c] = NoBatch /\ queue'[c].batch \in {queue[c].batch, NoBatch}
<1> DEFINE Empties ==
             /\ accumulator'[c] = NoBatch
             /\ hand[c] = NoBatch =>
                  hand'[c] = NoBatch /\ queue'[c].batch \in {queue[c].batch, NoBatch}
<1> SUFFICES Empties
  OBVIOUS
<1> USE DEF TypeOK, Settle
<1>0. \A b : Queued(b).batch = b
  BY SlotShapes
<1>11. CASE UNCHANGED <<accumulator, hand, queue>>
  BY <1>11
<1>1. ASSUME NEW k \in Client, CallRotate(c, k)
      PROVE  Empties
  BY <1>11, <1>1 DEF CallRotate
<1>2. CASE EnterAdd(c)
  <2>1. Settle(c, accumulator[c], queue[c], NoBatch)
    BY <1>2 DEF EnterAdd, Refuse
  <2> QED
    BY <2>1
<1>3. CASE RecheckBudget(c)
  <2>1. Settle(c, accumulator[c], queue[c], NoBatch)
    BY <1>3 DEF RecheckBudget, Reserve, Refuse, AwaitBudget, Admit
  <2> QED
    BY <2>1
<1>4. CASE UnblockSplit(c)
  <2>1. Settle(c, accumulator[c], Queued(hand[c]), NoBatch)
    BY <1>4 DEF UnblockSplit, Reserve, Refuse, AwaitBudget, Admit
  <2> QED
    BY <1>0, <2>1
<1>5. ASSUME NEW k \in Client, EnterRotate(c, k)
      PROVE  Settle(c, accumulator[c], queue[c], NoBatch)
  BY <1>5, SlotShapes DEF EnterRotate
<1>6. ASSUME NEW k \in Client, Unblock(c, k)
      PROVE  Settle(c, accumulator[c], Queued(hand[c]), NoBatch)
  BY <1>6 DEF Unblock
<1>7. \A q : Settle(c, accumulator[c], q, NoBatch) =>
               accumulator'[c] = accumulator[c] /\ queue'[c] = q /\ hand'[c] = NoBatch
  OBVIOUS
<1>8. ASSUME NEW k \in Client, EnterRotate(c, k) \/ Unblock(c, k)
      PROVE  Empties
  BY <1>0, <1>5, <1>6, <1>7, <1>8
<1>9. CASE CallAdd(c) \/ EnterAdd(c) \/ RecheckBudget(c) \/ UnblockSplit(c)
  BY <1>11, <1>2, <1>3, <1>4, <1>9 DEF CallAdd
<1> HIDE DEF Empties, TypeOK, Settle
<1> QED
  BY <1>1, <1>8, <1>9 DEF Produce

\* Where a producer's step leaves the flush of its camera: a rotation leaves no tail.
LEMMA FlushMoves ==
    ASSUME TypeOK, TailInv, NEW c \in Camera, Produce(c)
    PROVE  \/ pc'[c]["stop"] = pc[c]["stop"]
           \/ /\ pc[c]["stop"] \in Putting
              /\ pc'[c]["stop"] = "join"
              /\ accumulator'[c] = accumulator[c] /\ hand'[c] = NoBatch
           \/ /\ pc[c]["stop"] = "rotate"
              /\ pc'[c]["stop"] \in {"putRotate", "join"}
              /\ accumulator'[c] = NoBatch
              /\ pc'[c]["stop"] = "join" => hand'[c] = NoBatch
<1> USE DEF TypeOK, At
<1>1. ASSUME \E l : At(c, "ingest", l)
      PROVE  pc'[c]["stop"] = pc[c]["stop"]
  BY <1>1 DEF Client
<1>2. CASE CallAdd(c) \/ EnterAdd(c) \/ RecheckBudget(c) \/ UnblockSplit(c)
  <2>1. \E l : At(c, "ingest", l)
    BY <1>2 DEF CallAdd, EnterAdd, RecheckBudget, UnblockSplit, Reserve, Refuse, AwaitBudget,
       Admit, Leave
  <2> QED
    BY <1>1, <2>1, SMTT(30)
<1>3. ASSUME NEW k \in Client, k # "stop", CallRotate(c, k) \/ EnterRotate(c, k) \/ Unblock(c, k)
      PROVE  pc'[c]["stop"] = pc[c]["stop"]
  BY <1>3 DEF CallRotate, EnterRotate, Unblock, Leave, Client
<1>4. ~CallRotate(c, "stop")
  BY DEF CallRotate
<1>5. CASE EnterRotate(c, "stop")
  <2>1. accumulator'[c] = NoBatch
    BY <1>5 DEF EnterRotate, Settle, TailInv
  <2>2. \/ pc'[c]["stop"] = "putRotate"
        \/ pc'[c]["stop"] = "join" /\ hand'[c] = NoBatch
    BY <1>5, ControlFacts DEF EnterRotate, Settle, Leave, AfterRotate
  <2> QED
    BY <1>5, <2>1, <2>2 DEF EnterRotate
<1>6. CASE Unblock(c, "stop")
  BY <1>6, ControlFacts DEF Unblock, Settle, Leave, AfterRotate, Putting
<1> QED
  BY <1>2, <1>3, <1>4, <1>5, <1>6 DEF Produce

\* A step that leaves the flush of a camera where it is, and empties at most.
LEMMA FlushStays ==
    ASSUME NEW d \in Camera, FlushAt(d),
           pc'[d]["stop"] = pc[d]["stop"],
           closing => closing',
           accumulator'[d] \in {accumulator[d], NoBatch}, hand'[d] \in {hand[d], NoBatch},
           queue'[d].batch \in {queue[d].batch, NoBatch},
           worker'[d].batch \in {worker[d].batch, NoBatch},
           life' \in {"joining", "stopped"} => life' = life,
           life' = "stopped" => worker'[d] = worker[d]
    PROVE  FlushAt(d)'
BY DEF FlushAt

LEMMA FlushStep ==
    ASSUME IInv, TailInv, FlushInv, [Next]_vars
    PROVE  FlushInv'
<1> SUFFICES ASSUME NEW d \in Camera PROVE FlushAt(d)'
  BY DEF FlushInv
<1>0. TypeOK /\ Shapes /\ FlushAt(d)
  BY DEF IInv, FlushInv
<1>1. ASSUME NEW c \in Camera, Produce(c) \/ Work(c) \/ CallFlush(c) \/ FinishJoin(c), c # d
      PROVE  FlushAt(d)'
  BY <1>0, <1>1, OnlyCamera, FlushStays DEF Ours
<1>2. CASE Produce(d)
  <2>1. UNCHANGED <<life, closing, worker>>
    BY <1>2 DEF Produce, CallAdd, EnterAdd, RecheckBudget, UnblockSplit, CallRotate, EnterRotate,
       Unblock
  <2>2. pc[d]["stop"] \in Putting \cup {"join", "flushed"} =>
          /\ accumulator'[d] = NoBatch
          /\ hand[d] = NoBatch =>
                hand'[d] = NoBatch /\ queue'[d].batch \in {queue[d].batch, NoBatch}
    BY <1>0, <1>2, ClosedProduce, ControlFacts DEF FlushAt
  <2>3. CASE pc'[d]["stop"] = pc[d]["stop"]
    BY <1>0, <2>1, <2>2, <2>3 DEF FlushAt
  <2>4. CASE pc'[d]["stop"] # pc[d]["stop"]
    <3>1. /\ pc[d]["stop"] \in Putting \cup {"rotate"}
          /\ pc'[d]["stop"] \in {"putRotate", "join"}
          /\ accumulator'[d] = NoBatch
          /\ pc'[d]["stop"] = "join" => hand'[d] = NoBatch
      BY <1>0, <1>2, <2>2, <2>4, FlushMoves
    <3>2. pc[d]["stop"] \notin {"idle", "flushed"}
      BY <3>1, ControlFacts
    <3> QED
      BY <1>0, <2>1, <3>1, <3>2 DEF FlushAt
  <2> QED
    BY <2>3, <2>4
<1>3. CASE Work(d) /\ ~Commits(d)
  <2>1. life' = life /\ closing' = closing
    BY <1>0, <1>3, OnlyCamera
  <2>2. life # "stopped"
    BY <1>0, <1>3 DEF FlushAt, NoWorker, Work, GetBatch, WriteSucceeds, WriteFails, ReclaimEnds,
       BackoffEnds, WorkerUnwinds, CancelSwallowed
  <2>3. CASE GetBatch(d)
    <3>1. worker'[d].batch \in {queue[d].batch, NoBatch} /\ queue'[d].batch = NoBatch
      BY <1>0, <2>3, SlotShapes DEF GetBatch, TypeOK
    <3>2. UNCHANGED <<pc, accumulator, hand>>
      BY <2>3 DEF GetBatch
    <3> QED
      BY <1>0, <2>1, <2>2, <3>1, <3>2 DEF FlushAt
  <2>4. CASE WriteSucceeds(d) \/ WorkerUnwinds(d)
    <3>1. pc'[d]["stop"] = pc[d]["stop"]
      BY <1>0, <2>4 DEF WriteSucceeds, WorkerUnwinds, Release, Woken, TypeOK, Client
    <3>2. worker'[d].batch = NoBatch /\ UNCHANGED <<accumulator, hand, queue>>
      BY <1>0, <2>4, SlotShapes DEF WriteSucceeds, WorkerUnwinds, TypeOK
    <3> QED
      BY <1>0, <2>1, <2>2, <3>1, <3>2, FlushStays
  <2>5. CASE WriteFails(d) \/ ReclaimEnds(d) \/ BackoffEnds(d) \/ CancelSwallowed(d)
    <3>1. \E s, m : WorkerAt(d, s, m)
      BY <2>5 DEF WriteFails, ReclaimEnds, BackoffEnds, CancelSwallowed
    <3>2. worker'[d].batch = worker[d].batch
      BY <1>0, <3>1 DEF WorkerAt, TypeOK
    <3>3. UNCHANGED <<queue, hand, accumulator, pc>>
      BY <2>5 DEF WriteFails, ReclaimEnds, BackoffEnds, CancelSwallowed
    <3> QED
      BY <1>0, <2>1, <2>2, <3>2, <3>3, FlushStays
  <2> QED
    BY <1>3, <2>3, <2>4, <2>5 DEF Work
<1>4. CASE CallFlush(d)
  <2>1. pc'[d]["stop"] = "rotate" /\ closing /\ life = "flushing"
    BY <1>0, <1>4 DEF CallFlush, At, TypeOK, Client, Shapes
  <2> QED
    BY <1>0, <1>4, <2>1, ControlFacts DEF CallFlush, FlushAt
<1>5. CASE FinishJoin(d)
  <2>1. pc[d]["stop"] = "join" /\ pc'[d]["stop"] = "flushed"
    BY <1>0, <1>5 DEF FinishJoin, At, TypeOK, Client
  <2>2. queue[d].batch = NoBatch /\ worker[d].batch = NoBatch
    BY <1>0, <1>5 DEF FinishJoin, HasRoom, Shapes
  <2> QED
    BY <1>0, <1>5, <2>1, <2>2 DEF FinishJoin, FlushAt
<1>6. CASE Start
  <2>1. worker'[d].batch = NoBatch /\ ~closing
    BY <1>0, <1>6, SlotShapes DEF Start, Shapes
  <2> QED
    BY <1>0, <1>6, <2>1, FlushStays DEF Start
<1>7. CASE Stop \/ UNCHANGED vars
  BY <1>0, <1>7, FlushStays DEF Stop, vars
<1>8. CASE SendPoison
  BY <1>0, <1>8, SlotShapes DEF SendPoison, FlushAt
<1>9. CASE StopReturns
  BY <1>0, <1>9 DEF StopReturns, FlushAt
<1>10. CASE CancelStop
  <2>1. pc'[d]["stop"] = "idle" /\ life' = "cancelled"
    BY <1>0, <1>10 DEF CancelStop, Withdraw, TypeOK, Client
  <2> QED
    BY <2>1, ControlFacts DEF FlushAt
<1>11. CASE CancelStreams
  <2>1. pc'[d]["stop"] = pc[d]["stop"] /\ hand'[d] \in {hand[d], NoBatch}
    BY <1>0, <1>11 DEF CancelStreams, Withdraw, TypeOK, Client
  <2> QED
    BY <1>0, <1>11, <2>1, FlushStays DEF CancelStreams
<1>12. CASE BeginAbort
  <2>1. worker'[d].batch = worker[d].batch \/ worker'[d].batch = NoBatch
    BY <1>0, <1>12, SlotShapes DEF BeginAbort, TypeOK
  <2> QED
    BY <1>0, <1>12, <2>1, FlushStays DEF BeginAbort
<1>13. CASE FinishAbort
  <2>1. pc'[d]["stop"] = pc[d]["stop"]
    BY <1>0, <1>13 DEF FinishAbort, Woken, TypeOK, Client
  <2> QED
    BY <1>0, <1>13, <2>1, FlushStays, SlotShapes DEF FinishAbort
<1>14. CASE Commits(d)
  BY <1>0, <1>14, FlushStays DEF Commits
<1> QED
  BY <1>1, <1>2, <1>3, <1>4, <1>5, <1>6, <1>7, <1>8, <1>9, <1>10, <1>11, <1>12, <1>13, <1>14
  DEF Next, Shutdown

\* What a step does to the two sides of the account of a camera.
LEMMA BytesMoves ==
    ASSUME IInv, CancelInv, NEW c \in Camera, Produce(c) \/ Work(c)
    PROVE  LET in == admitted[c].bytes  out == written[c].bytes IN
           \/ in' = in /\ out' = out /\ retained'[c] = retained[c]
           \/ \E n \in Nat : /\ ~closing
                             /\ in' = in + n /\ out' = out
                             /\ retained'[c] = retained[c] + n
           \/ \E n \in Nat : /\ in' = in /\ out' = out + n
                             /\ n <= retained[c] /\ retained'[c] = retained[c] - n
           \/ life = "aborting" /\ in' = in /\ out' = out
<1> DEFINE in == admitted[c].bytes
           out == written[c].bytes
<1>0. TypeOK /\ BudgetInv /\ Shapes
  BY DEF IInv
<1>1. ASSUME NEW a, NEW q, Reserve(c, a, q), written' = written
      PROVE  \/ in' = in /\ out' = out /\ retained'[c] = retained[c]
             \/ \E n \in Nat : /\ ~closing
                               /\ in' = in + n /\ out' = out
                               /\ retained'[c] = retained[c] + n
  <2>1. CASE Refuse(c, a, q) \/ AwaitBudget(c, a, q)
    BY <1>1, <2>1 DEF Refuse, AwaitBudget
  <2>2. CASE Admit(c, a, q)
    <3>1. offered[c] \in Nat
      BY <1>0, GrownType, NoBatchType
    <3>2. in' = in + offered[c] /\ retained'[c] = retained[c] + offered[c] /\ ~closing
      BY <1>0, <2>2 DEF Admit, TypeOK
    <3> QED
      BY <1>1, <3>1, <3>2
  <2> QED
    BY <1>1, <2>1, <2>2 DEF Reserve
<1>2. CASE EnterAdd(c) \/ RecheckBudget(c) \/ UnblockSplit(c)
  <2>1. written' = written /\ (\/ \E a, q : Reserve(c, a, q)
                              \/ UNCHANGED <<retained, admitted>>)
    BY <1>2 DEF EnterAdd, RecheckBudget, UnblockSplit, Reserve, backend
  <2> QED
    BY <1>1, <2>1
<1>3. ASSUME NEW k \in Client,
             \/ CallAdd(c) \/ CallRotate(c, k) \/ EnterRotate(c, k) \/ Unblock(c, k)
             \/ GetBatch(c) \/ WriteFails(c) \/ ReclaimEnds(c) \/ BackoffEnds(c)
             \/ CancelSwallowed(c) \/ Commits(c)
      PROVE  UNCHANGED <<admitted, written, retained>>
  BY <1>3 DEF CallAdd, CallRotate, EnterRotate, Unblock, GetBatch, Commits, WriteFails, ReclaimEnds,
     BackoffEnds, CancelSwallowed, history
<1>4. CASE WriteSucceeds(c) \/ WorkerUnwinds(c)
  <2> DEFINE n == worker[c].batch.bytes
  <2>0. n \in Nat /\ retained[c] \in Nat /\ n <= retained[c]
    <3>1. life # "aborted"
      BY <1>0, <1>4 DEF Shapes, WriteSucceeds, WorkerUnwinds, NoWorker
    <3>2. Held(c) <= retained[c] /\ retained[c] \in Nat
      BY <1>0, <3>1 DEF BudgetInv, TypeOK
    <3>3. n \in Nat /\ n <= Held(c) /\ Held(c) \in Nat
      BY <1>0, HeldType DEF Held
    <3> QED
      BY <3>2, <3>3
  <2>1. admitted' = admitted /\ retained'[c] = retained[c] - n
    BY <1>0, <1>4, <2>0 DEF WriteSucceeds, WorkerUnwinds, Release, TypeOK
  <2>2. CASE WriteSucceeds(c)
    <3>1. out' = out + n
      BY <1>0, <2>2 DEF WriteSucceeds, TypeOK, Merge
    <3> QED
      BY <2>0, <2>1, <3>1
  <2>3. CASE WorkerUnwinds(c)
    <3>1. life = "aborting" /\ written' = written
      BY <2>3 DEF WorkerUnwinds, CancelInv
    <3> QED
      BY <2>1, <3>1
  <2> QED
    BY <1>4, <2>2, <2>3
<1> QED
  BY <1>2, <1>3, <1>4, ControlFacts DEF Produce, Work

LEMMA BytesStep ==
    ASSUME IInv, CancelInv, BytesInv, [Next]_vars
    PROVE  BytesInv'
<1> SUFFICES ASSUME NEW d \in Camera PROVE BytesAt(d)'
  BY DEF BytesInv
<1>0. TypeOK /\ Shapes /\ BytesAt(d)
  BY DEF IInv, BytesInv
<1>types. /\ admitted[d].bytes \in Nat /\ written[d].bytes \in Nat
          /\ retained[d] \in Nat /\ unwritten[d] \in Nat
  BY <1>0 DEF TypeOK, Batch
<1>1. ASSUME NEW c \in Camera, Produce(c) \/ Work(c) \/ CallFlush(c) \/ FinishJoin(c), c # d
      PROVE  BytesAt(d)'
  BY <1>0, <1>1, OnlyCamera DEF Ours, BytesAt
<1>2. CASE Produce(d) \/ Work(d)
  <2>1. UNCHANGED <<life, unwritten>>
    BY <1>0, <1>2, OnlyCamera
  <2>2. ~closing => life \notin {"aborting", "aborted"}
    BY <1>0 DEF Shapes
  <2>3. LET in == admitted[d].bytes  out == written[d].bytes IN
           \/ in' = in /\ out' = out /\ retained'[d] = retained[d]
           \/ \E n \in Nat : /\ ~closing
                             /\ in' = in + n /\ out' = out
                             /\ retained'[d] = retained[d] + n
           \/ \E n \in Nat : /\ in' = in /\ out' = out + n
                             /\ n <= retained[d] /\ retained'[d] = retained[d] - n
           \/ life = "aborting" /\ in' = in /\ out' = out
    BY <1>2, BytesMoves
  <2> QED
    BY <1>0, <1>types, <2>1, <2>2, <2>3 DEF BytesAt
<1>3. CASE CallFlush(d) \/ FinishJoin(d)
  BY <1>0, <1>3 DEF CallFlush, FinishJoin, history, BytesAt
<1>4. CASE Start
  BY <1>0, <1>4 DEF Start, history, BytesAt
<1>5. CASE BeginAbort
  BY <1>0, <1>5, <1>types DEF BeginAbort, history, BytesAt, memory_bytes
<1>6. CASE FinishAbort
  BY <1>0, <1>6 DEF FinishAbort, history, BytesAt
<1>7. CASE \/ Stop \/ SendPoison \/ StopReturns \/ CancelStop \/ CancelStreams
           \/ UNCHANGED vars
  BY <1>0, <1>7
  DEF Stop, SendPoison, StopReturns, CancelStop, CancelStreams, vars, history, BytesAt
<1> QED
  BY <1>1, <1>2, <1>3, <1>4, <1>5, <1>6, <1>7 DEF Next, Shutdown

-----------------------------------------------------------------------------
(* What the backend has, against what its writes returned.                 *)

\* What returned and the batch of a worker that still writes make a prefix.
LEMMA WorkPrefix ==
    ASSUME TypeOK, NEW c \in Camera, LineAt(c), ~Dead(c)
    PROVE  Prefix(written[c].segs \cup worker[c].batch.segs, c)
<1> PICK n \in Nat :
        /\ n <= admitted[c].count
        /\ life \notin Cut => n = admitted[c].count
        /\ LineOf(c, n)
  BY DEF LineAt
<1>1. Aligned("none", written[c].segs, worker[c].batch.segs, queue[c].batch.segs,
              hand[c].segs, accumulator[c].segs, n)
  BY DEF LineOf, Gap
<1>2. admitted[c].count \in Nat
  BY DEF TypeOK
<1> PICK w \in Nat, g \in Nat, k \in Nat, q \in Nat, h \in Nat :
        CutAt(w, g, k, q, h, "none", written[c].segs, worker[c].batch.segs,
              queue[c].batch.segs, hand[c].segs, accumulator[c].segs, n)
  BY <1>1 DEF Aligned
<1>3. /\ w <= k /\ k <= admitted[c].count
      /\ written[c].segs = 1..w /\ worker[c].batch.segs = (w + 1)..k
  BY <1>2 DEF CutAt
<1>4. written[c].segs \cup worker[c].batch.segs = 1..k
  BY <1>3, Intervals
<1> QED
  BY <1>3, <1>4 DEF Prefix

\* Merging nothing, or any batch, into a batch.
LEMMA MergeFacts ==
    ASSUME NEW b \in Batch, NEW d \in Batch
    PROVE  /\ Merge(b, NoBatch) = b
           /\ b.segs \subseteq Merge(b, d).segs /\ Merge(b, d).segs = b.segs \cup d.segs
           /\ b.bytes <= Merge(b, d).bytes
BY DEF Batch, Merge, NoBatch

\* A step that leaves the camera's writes alone.
LEMMA StoreStays ==
    ASSUME TypeOK, NEW c \in Camera, StoreAt(c), Dead(c) => Dead(c)',
           written'[c] = written[c], stored'[c] = stored[c], abandoned'[c] = abandoned[c],
           worker'[c].batch = worker[c].batch \/ worker[c].batch = NoBatch,
           admitted'[c].count \in Nat, admitted[c].count <= admitted'[c].count
    PROVE  StoreAt(c)'
<1>1. /\ written[c] \in Batch /\ admitted[c].count \in Nat
  BY DEF TypeOK
<1>2. worker[c].batch = NoBatch => Merge(written[c], worker[c].batch) = written[c]
  BY <1>1, MergeFacts, NoBatchType
<1>3. Prefix(stored[c].segs, c)' /\ (abandoned[c] # NoBatch =>
          Prefix(written[c].segs \cup abandoned[c].segs, c)')
  BY <1>1 DEF StoreAt, Prefix
<1> QED
  BY <1>2, <1>3 DEF StoreAt

\* A producer only adds to what is admitted.
LEMMA ProduceGrows ==
    ASSUME TypeOK, NEW c \in Camera, Produce(c)
    PROVE  /\ UNCHANGED <<life, worker, written, stored, abandoned>>
           /\ admitted'[c].count \in Nat /\ admitted[c].count <= admitted'[c].count
<1>0. admitted[c].count \in Nat
  BY DEF TypeOK
<1>1. ASSUME NEW a, NEW q, Reserve(c, a, q)
      PROVE  admitted'[c].count \in Nat /\ admitted[c].count <= admitted'[c].count
  <2>1. admitted'[c].count \in {admitted[c].count, admitted[c].count + 1}
    BY <1>1 DEF Reserve, Refuse, AwaitBudget, Admit, TypeOK
  <2> QED
    BY <1>0, <2>1
<1>2. CASE EnterAdd(c) \/ RecheckBudget(c) \/ UnblockSplit(c)
  <2>1. UNCHANGED <<life, worker, written, stored, abandoned>>
    BY <1>2 DEF EnterAdd, RecheckBudget, UnblockSplit, backend
  <2>2. (\E a, q : Reserve(c, a, q)) \/ UNCHANGED admitted
    BY <1>2 DEF EnterAdd, RecheckBudget, UnblockSplit, Reserve
  <2> QED
    BY <1>0, <1>1, <2>1, <2>2
<1>3. ASSUME NEW k \in Client,
             CallAdd(c) \/ CallRotate(c, k) \/ EnterRotate(c, k) \/ Unblock(c, k)
      PROVE  UNCHANGED <<life, worker, written, stored, abandoned, admitted>>
  BY <1>3 DEF CallAdd, CallRotate, EnterRotate, Unblock, history
<1> QED
  BY <1>0, <1>2, <1>3, ControlFacts DEF Produce

\* The steps of the worker and of its write, at their camera.
LEMMA WorkStore ==
    ASSUME TypeOK, TypeOK', Shapes, CancelInv, NEW c \in Camera, LineAt(c), StoreAt(c), Work(c)
    PROVE  StoreAt(c)'
<1>0. /\ written[c] \in Batch /\ stored[c] \in Batch /\ abandoned[c] \in Batch
      /\ worker[c].batch \in Batch
      /\ admitted[c].count \in Nat /\ life' = life
  BY OnlyCamera DEF TypeOK
<1>1. CASE GetBatch(c)
  <2>1. worker[c].batch = NoBatch /\ ~Dead(c)
    BY <1>1 DEF GetBatch, Shapes, Busy, Dead
  <2>2. UNCHANGED history
    BY <1>1 DEF GetBatch
  <2> QED
    BY <1>0, <2>1, <2>2, StoreStays DEF history
<1>2. CASE Commits(c)
  <2>1. /\ UNCHANGED <<life, worker, written, abandoned, admitted>>
        /\ stored[c] = written[c]
    BY <1>2 DEF Commits
  <2>2. Dead(c)' <=> Dead(c)
    BY <2>1 DEF Dead
  <2>3. CASE /\ worker[c].state \in {"writing", "cancelledWrite"}
             /\ stored'[c] = Merge(written[c], worker[c].batch)
    <3>1. ~Dead(c)
      BY <2>3 DEF Dead
    <3>2. Prefix(stored'[c].segs, c)
      BY <1>0, <2>3, <3>1, WorkPrefix, MergeFacts
    <3>3. Prefix(stored[c].segs, c)' /\ ~Dead(c)'
      BY <2>1, <2>2, <3>1, <3>2 DEF Prefix
    <3>4. written'[c].segs \subseteq stored'[c].segs /\ written'[c].bytes <= stored'[c].bytes
      BY <1>0, <2>1, <2>3, MergeFacts
    <3>5. stored'[c] \in {written'[c], Merge(written'[c], worker'[c].batch)}
      BY <2>1, <2>3
    <3>6. abandoned'[c] = NoBatch
      BY <2>1, <3>1 DEF StoreAt
    <3> QED
      BY <3>3, <3>4, <3>5, <3>6 DEF StoreAt
  <2>4. CASE /\ abandoned[c] # NoBatch
             /\ stored'[c] = Merge(written[c], abandoned[c])
    <3>1. Dead(c) /\ Prefix(written[c].segs \cup abandoned[c].segs, c)
      BY <2>4 DEF StoreAt
    <3>2. stored'[c].segs = written[c].segs \cup abandoned[c].segs
      BY <1>0, <2>4, MergeFacts
    <3>3. Prefix(stored'[c].segs, c)
      BY <3>1, <3>2
    <3> QED
      BY <1>0, <2>1, <2>2, <2>4, <3>1, <3>3, MergeFacts DEF StoreAt, Prefix
  <2> QED
    BY <1>2, <2>3, <2>4 DEF Commits, TypeOK
<1>3. CASE WriteSucceeds(c)
  <2>1. /\ written'[c] = Merge(written[c], worker[c].batch) /\ stored'[c] = written'[c]
        /\ UNCHANGED <<abandoned, admitted>>
    BY <1>3 DEF WriteSucceeds, TypeOK
  <2>2. ~Dead(c) /\ worker'[c].state = "idle"
    BY <1>3 DEF WriteSucceeds, Dead, TypeOK, IdleWorker
  <2>3. Prefix(stored'[c].segs, c)
    <3>1. ~Dead(c)
      BY <1>3 DEF WriteSucceeds, Dead
    <3>2. stored'[c].segs = written[c].segs \cup worker[c].batch.segs
      BY <1>0, <2>1, MergeFacts
    <3> QED
      BY <3>1, <3>2, WorkPrefix
  <2>4. abandoned'[c] = NoBatch
    BY <2>1, <2>2 DEF StoreAt
  <2>5. written'[c].bytes <= stored'[c].bytes
    <3>1. written'[c] \in Batch
      BY DEF TypeOK
    <3>2. written'[c].bytes \in Nat
      BY <3>1 DEF Batch
    <3> QED
      BY <2>1, <3>2
  <2>6. Prefix(stored[c].segs, c)'
    BY <2>1, <2>3 DEF Prefix
  <2>7. /\ stored'[c] = written'[c]
        /\ written'[c].segs \subseteq stored'[c].segs
    BY <2>1
  <2> QED
    BY <2>4, <2>5, <2>6, <2>7 DEF StoreAt
<1>4. CASE WorkerUnwinds(c)
  <2>1. /\ ~Dead(c) /\ life = "aborting"
    BY <1>4 DEF WorkerUnwinds, Dead, CancelInv
  <2>2. /\ abandoned'[c] \in {NoBatch, worker[c].batch}
        /\ UNCHANGED <<written, stored, admitted>>
    BY <1>4, <2>1 DEF WorkerUnwinds, StoreAt, TypeOK
  <2>3. Dead(c)'
    BY <1>0, <1>4, <2>1 DEF WorkerUnwinds, Dead, TypeOK, NoWorker
  <2>4. Prefix(written[c].segs \cup worker[c].batch.segs, c)
    BY <2>1, WorkPrefix
  <2> QED
    BY <2>2, <2>3, <2>4 DEF StoreAt, Prefix
<1>5. CASE WriteFails(c) \/ ReclaimEnds(c) \/ BackoffEnds(c) \/ CancelSwallowed(c)
  <2>1. \E s, m : WorkerAt(c, s, m)
    BY <1>5 DEF WriteFails, ReclaimEnds, BackoffEnds, CancelSwallowed
  <2>2. worker'[c].batch = worker[c].batch
    BY <2>1 DEF WorkerAt, TypeOK
  <2>3. UNCHANGED history /\ ~Dead(c)
    BY <1>5 DEF WriteFails, ReclaimEnds, BackoffEnds, CancelSwallowed, Dead
  <2> QED
    BY <1>0, <2>2, <2>3, StoreStays DEF history
<1> QED
  BY <1>1, <1>2, <1>3, <1>4, <1>5 DEF Work

LEMMA StoreStep ==
    ASSUME IInv, TypeOK', LineInv, CancelInv, StoreInv, [Next]_vars
    PROVE  StoreInv'
<1> SUFFICES ASSUME NEW d \in Camera PROVE StoreAt(d)'
  BY DEF StoreInv
<1>0. TypeOK /\ Shapes /\ LineAt(d) /\ StoreAt(d) /\ admitted[d].count \in Nat
  BY DEF IInv, LineInv, StoreInv, TypeOK
<1>1. ASSUME NEW c \in Camera, Produce(c) \/ Work(c) \/ CallFlush(c) \/ FinishJoin(c), c # d
      PROVE  StoreAt(d)'
  BY <1>0, <1>1, OnlyCamera, StoreStays DEF Ours, Dead
<1>2. CASE Produce(d)
  BY <1>0, <1>2, ProduceGrows, StoreStays DEF Dead
<1>3. CASE Work(d)
  BY <1>0, <1>3, WorkStore
<1>4. CASE CallFlush(d) \/ FinishJoin(d)
  BY <1>0, <1>4, StoreStays DEF CallFlush, FinishJoin, history, Dead
<1>5. CASE Start
  <2>1. worker[d].batch = NoBatch /\ ~Dead(d)
    BY <1>0, <1>5, SlotShapes DEF Start, Shapes, Dead
  <2> QED
    BY <1>0, <1>5, <2>1, StoreStays DEF Start, history
<1>6. CASE \/ Stop \/ SendPoison \/ StopReturns \/ CancelStop \/ CancelStreams
           \/ UNCHANGED vars
  <2>1. UNCHANGED <<worker, history>> /\ (Dead(d) => Dead(d)')
    BY <1>6 DEF Stop, SendPoison, StopReturns, CancelStop, CancelStreams, vars, history, Dead
  <2> QED
    BY <1>0, <2>1, StoreStays DEF history
<1>7. CASE BeginAbort
  <2>1. worker'[d].batch = worker[d].batch
    BY <1>0, <1>7, SlotShapes DEF BeginAbort, Shapes, TypeOK
  <2>2. ~Dead(d) /\ UNCHANGED history
    BY <1>7 DEF BeginAbort, Dead
  <2> QED
    BY <1>0, <2>1, <2>2, StoreStays DEF history
<1>8. CASE FinishAbort
  <2>1. UNCHANGED <<worker, history>> /\ (Dead(d) => Dead(d)')
    BY <1>8 DEF FinishAbort, Dead
  <2> QED
    BY <1>0, <2>1, StoreStays DEF history
<1> QED
  BY <1>1, <1>2, <1>3, <1>4, <1>5, <1>6, <1>7, <1>8 DEF Next, Shutdown

LEMMA PipelineInductive == Spec => []JInv
<1>1. Init => LineInv /\ TailInv /\ FlushInv /\ CancelInv /\ BytesInv /\ StoreInv
  <2> SUFFICES ASSUME Init, NEW c \in Camera
               PROVE  /\ LineAt(c) /\ FlushAt(c) /\ BytesAt(c) /\ StoreAt(c)
                      /\ accumulator[c].segs = {} => accumulator[c] = NoBatch
                      /\ hand[c] # NoBatch => accumulator[c] = NoBatch
                      /\ worker[c].state \in {"cancelled", "cancelledWrite"} => life = "aborting"
    BY DEF LineInv, TailInv, FlushInv, CancelInv, BytesInv, StoreInv
  <2>1. /\ accumulator[c] = NoBatch /\ hand[c] = NoBatch /\ queue[c].batch = NoBatch
        /\ worker[c] = NoWorker /\ written[c] = NoBatch /\ NoBatch.segs = {}
        /\ admitted[c].count = 0 /\ life = "new" /\ NoBatch.bytes = 0
        /\ NoWorker.batch = NoBatch /\ stored[c] = NoBatch /\ abandoned[c] = NoBatch
    BY SlotShapes DEF Init
  <2>2. LineAt(c)
    <3>1. Gap(c) = "none"
      BY <2>1 DEF Gap, Dead
    <3>2. LineOf(c, 0)
      BY <2>1, <3>1, AlignedEmpty DEF LineOf
    <3> QED
      BY <2>1, <3>2 DEF LineAt
  <2>3. FlushAt(c)
    BY <2>1, ControlFacts DEF Init, FlushAt
  <2>4. BytesAt(c)
    BY <2>1 DEF Init, BytesAt
  <2>5. worker[c].state = "none"
    BY <2>1 DEF NoWorker
  <2>6. StoreAt(c)
    <3>1. 1..0 = {} /\ 0 <= 0
      OBVIOUS
    <3>2. Prefix({}, c)
      BY <2>1, <3>1 DEF Prefix
    <3> QED
      BY <2>1, <3>1, <3>2 DEF StoreAt
  <2> QED
    BY <2>1, <2>2, <2>3, <2>4, <2>5, <2>6
<1>2. /\ IInv /\ LineInv /\ TailInv /\ FlushInv /\ CancelInv /\ BytesInv /\ StoreInv
      /\ [Next]_vars /\ IInv'
      => (LineInv /\ TailInv /\ FlushInv /\ CancelInv /\ BytesInv /\ StoreInv)'
  BY LineStep, TailStep, FlushStep, CancelStep, BytesStep, StoreStep DEF IInv
<1> QED
  BY <1>1, <1>2, Inductive, PTL DEF Spec, JInv
-----------------------------------------------------------------------------
(***************************************************************************)
(* The theorems.                                                           *)
(***************************************************************************)

\* Aligned stages are in order, and without a gap hold everything up to n.
LEMMA AlignedOrder ==
    ASSUME NEW n \in Nat, NEW gap, NEW W, NEW K, NEW Q, NEW H, NEW A,
           Aligned(gap, W, K, Q, H, A, n)
    PROVE  /\ \A x \in W, y \in K \cup Q \cup H \cup A : x < y
           /\ \A x \in K, y \in Q \cup H \cup A : x < y
           /\ \A x \in Q, y \in H \cup A : x < y
           /\ \A x \in H, y \in A : x < y
           /\ gap = "none" => W \cup K \cup Q \cup H \cup A = 1..n
<1> PICK w \in Nat, g \in Nat, k \in Nat, q \in Nat, h \in Nat :
        CutAt(w, g, k, q, h, gap, W, K, Q, H, A, n)
  BY DEF Aligned
<1> USE DEF CutAt
<1>1. \A x \in W, y \in K \cup Q \cup H \cup A : x < y
  OBVIOUS
<1>2. \A x \in K, y \in Q \cup H \cup A : x < y
  OBVIOUS
<1>3. \A x \in Q, y \in H \cup A : x < y
  OBVIOUS
<1>4. \A x \in H, y \in A : x < y
  OBVIOUS
<1>5. gap = "none" => W \cup K \cup Q \cup H \cup A = 1..n
  BY SMTT(30)
<1> QED
  BY <1>1, <1>2, <1>3, <1>4, <1>5

\* Rotation, split, backpressure, retries and both ends of a shutdown keep the footage of
\* every camera in order.  Until a shutdown is cut short they lose none, and the backend
\* is ahead of what its writes returned by the batch being written at most, also when an
\* attempt failed after its commit.
THEOREM FootageInOrder == Spec => []PipelineInOrder
<1>1. ASSUME JInv, NEW c \in Camera
      PROVE  /\ \A i, j \in 1..5 : i < j =>
                  \A x \in Stages(c)[i], y \in Stages(c)[j] : x < y
             /\ life \notin {"cancelled", "aborting", "aborted"} =>
                  /\ UNION {Stages(c)[i] : i \in 1..5} = 1..admitted[c].count
                  /\ stored[c] \in {written[c], Merge(written[c], worker[c].batch)}
  <2> DEFINE W == written[c].segs
             K == worker[c].batch.segs
             Q == queue[c].batch.segs
             H == hand[c].segs
             A == accumulator[c].segs
  <2> PICK n \in Nat :
          /\ n <= admitted[c].count
          /\ life \notin Cut => n = admitted[c].count
          /\ LineOf(c, n)
    BY <1>1 DEF JInv, LineInv, LineAt
  <2>1. Aligned(Gap(c), W, K, Q, H, A, n)
    BY DEF LineOf
  <2>2. /\ Stages(c)[1] = W /\ Stages(c)[2] = K /\ Stages(c)[3] = Q
        /\ Stages(c)[4] = H /\ Stages(c)[5] = A
    BY DEF Stages
  <2>3. 1..5 = {1, 2, 3, 4, 5}
    OBVIOUS
  <2> HIDE DEF W, K, Q, H, A
  <2>4. ASSUME NEW i \in 1..5, NEW j \in 1..5, i < j
        PROVE  \A x \in Stages(c)[i], y \in Stages(c)[j] : x < y
    <3>1. i \in {1, 2, 3, 4} /\ j \in {2, 3, 4, 5}
      BY <2>4
    <3>2. /\ \A x \in W : \A y \in K \cup Q \cup H \cup A : x < y
          /\ \A x \in K : \A y \in Q \cup H \cup A : x < y
          /\ \A x \in Q : \A y \in H \cup A : x < y
          /\ \A x \in H : \A y \in A : x < y
      BY <2>1, AlignedOrder
    <3>3. CASE i = 1
      <4>1. Stages(c)[i] = W /\ Stages(c)[j] \in {K, Q, H, A}
        BY <2>2, <3>1, <3>3
      <4> QED
        BY <3>2, <4>1
    <3>4. CASE i = 2
      <4>1. j \in {3, 4, 5}
        BY <2>4, <3>1, <3>4
      <4>2. Stages(c)[i] = K /\ Stages(c)[j] \in {Q, H, A}
        BY <2>2, <3>4, <4>1
      <4> QED
        BY <3>2, <4>2
    <3>5. CASE i = 3
      <4>1. j \in {4, 5}
        BY <2>4, <3>1, <3>5
      <4>2. Stages(c)[i] = Q /\ Stages(c)[j] \in {H, A}
        BY <2>2, <3>5, <4>1
      <4> QED
        BY <3>2, <4>2
    <3>6. CASE i = 4
      <4>1. j = 5
        BY <2>4, <3>1, <3>6
      <4>2. Stages(c)[i] = H /\ Stages(c)[j] = A
        BY <2>2, <3>6, <4>1
      <4> QED
        BY <3>2, <4>2
    <3> QED
      BY <3>1, <3>3, <3>4, <3>5, <3>6
  <2>5. ASSUME life \notin Cut
        PROVE  UNION {Stages(c)[i] : i \in 1..5} = 1..admitted[c].count
    <3>1. Gap(c) = "none" /\ n = admitted[c].count
      BY <2>5 DEF Gap, Dead, Cut
    <3>2. UNION {Stages(c)[i] : i \in 1..5} = W \cup K \cup Q \cup H \cup A
      BY <2>2, <2>3
    <3> QED
      BY <2>1, <3>1, <3>2, AlignedOrder
  <2>6. ASSUME life \notin Cut
        PROVE  stored[c] \in {written[c], Merge(written[c], worker[c].batch)}
    BY <1>1, <2>6 DEF JInv, StoreInv, StoreAt, Dead, Cut
  <2> QED
    BY <2>4, <2>5, <2>6 DEF Cut
<1>2. JInv => PipelineInOrder
  BY <1>1 DEF PipelineInOrder
<1> QED
  BY <1>2, PipelineInductive, PTL

\* After stop() returned by itself nothing of a camera is left in memory.
LEMMA Drained ==
    ASSUME JInv, life = "stopped", NEW c \in Camera
    PROVE  /\ accumulator[c] = NoBatch /\ hand[c] = NoBatch
           /\ queue[c].batch = NoBatch /\ worker[c] = NoWorker
  BY DEF JInv, FlushInv, FlushAt

\* A worker that ended before an abort has left nothing in doubt.
LEMMA StoredDrained ==
    ASSUME JInv, NEW c \in Camera, worker[c] = NoWorker, life \notin {"aborting", "aborted"}
    PROVE  stored[c] = written[c]
<1>1. StoreAt(c) /\ ~Dead(c) /\ written[c] \in Batch
  BY DEF JInv, StoreInv, IInv, TypeOK, Dead
<1>2. Merge(written[c], NoBatch) = written[c] /\ NoWorker.batch = NoBatch
  BY <1>1, MergeFacts, NoBatchType, SlotShapes
<1> QED
  BY <1>1, <1>2 DEF StoreAt

\* Shutdown hides no loss: a drained one has written every admitted byte, an aborted one
\* has reported those it did not write.
THEOREM LossReported == Spec => []NothingLostUnreported
<1>1. ASSUME JInv, NEW c \in Camera
      PROVE  /\ life = "stopped" => admitted[c].bytes = stored[c].bytes
             /\ life = "aborted" => admitted[c].bytes <= stored[c].bytes + unwritten[c]
  <2>1. BytesAt(c) /\ TypeOK /\ BudgetIsExact /\ StoreAt(c)
    BY <1>1 DEF JInv, BytesInv, IInv, StoreInv
  <2>2. CASE life = "stopped"
    <3>1. Held(c) = 0
      BY <1>1, <2>2, Drained, SlotShapes DEF Held
    <3>2. retained[c] = 0
      BY <2>1, <2>2, <3>1 DEF BudgetIsExact
    <3>3. stored[c] = written[c]
      BY <1>1, <2>2, Drained, StoredDrained
    <3> QED
      BY <2>1, <2>2, <3>2, <3>3 DEF BytesAt, TypeOK, Batch
  <2>3. CASE life = "aborted"
    <3>1. /\ admitted[c].bytes <= written[c].bytes + unwritten[c]
          /\ written[c].bytes <= stored[c].bytes
      BY <2>1, <2>3 DEF BytesAt, StoreAt
    <3>2. /\ admitted[c].bytes \in Nat /\ written[c].bytes \in Nat
          /\ stored[c].bytes \in Nat /\ unwritten[c] \in Nat
      BY <2>1 DEF TypeOK, Batch
    <3> QED
      BY <2>3, <3>1, <3>2
  <2> QED
    BY <2>2, <2>3
<1>2. JInv => NothingLostUnreported
  BY <1>1 DEF NothingLostUnreported
<1> QED
  BY <1>2, PipelineInductive, PTL
-----------------------------------------------------------------------------
(***************************************************************************)
(* The path implements FootageStream, step by step.                        *)
(***************************************************************************)

\* What returned is a prefix of what was admitted.
LEMMA WrittenPrefix ==
    ASSUME TypeOK, NEW c \in Camera, LineAt(c)
    PROVE  Prefix(written[c].segs, c)
<1> PICK n \in Nat :
        /\ n <= admitted[c].count
        /\ life \notin Cut => n = admitted[c].count
        /\ LineOf(c, n)
  BY DEF LineAt
<1> PICK w \in Nat, g \in Nat, k \in Nat, q \in Nat, h \in Nat :
        CutAt(w, g, k, q, h, Gap(c), written[c].segs, worker[c].batch.segs,
              queue[c].batch.segs, hand[c].segs, accumulator[c].segs, n)
  BY DEF LineOf, Aligned
<1>1. admitted[c].count \in Nat
  BY DEF TypeOK
<1>2. w <= admitted[c].count /\ written[c].segs = 1..w
  BY <1>1, SMTT(30) DEF CutAt
<1> QED
  BY <1>2 DEF Prefix

\* A complete drain has written all of it.
LEMMA WrittenAll ==
    ASSUME JInv, NEW c \in Camera, life \in {"joining", "stopped"}, worker[c] = NoWorker
    PROVE  written[c].segs = 1..admitted[c].count /\ stored[c] = written[c]
<1> PICK n \in Nat :
        /\ n <= admitted[c].count
        /\ life \notin Cut => n = admitted[c].count
        /\ LineOf(c, n)
  BY DEF JInv, LineInv, LineAt
<1>1. /\ accumulator[c].segs = {} /\ hand[c].segs = {} /\ queue[c].batch.segs = {}
      /\ worker[c].batch.segs = {}
  BY SlotShapes DEF JInv, FlushInv, FlushAt
<1>2. Gap(c) = "none" /\ n = admitted[c].count
  BY DEF Gap, Dead, Cut
<1>3. Aligned("none", written[c].segs, {}, {}, {}, {}, n)
  BY <1>1, <1>2 DEF LineOf
<1> PICK w \in Nat, g \in Nat, k \in Nat, q \in Nat, h \in Nat :
        CutAt(w, g, k, q, h, "none", written[c].segs, {}, {}, {}, {}, n)
  BY <1>3 DEF Aligned
<1>4. w = g /\ g = k /\ k = q /\ q = h /\ h = n
  <2>1. /\ w = g /\ g <= k /\ k <= q /\ q <= h /\ h <= n
        /\ (g + 1)..k = {} /\ (k + 1)..q = {} /\ (q + 1)..h = {} /\ (h + 1)..n = {}
    BY DEF CutAt
  <2>2. g = k
    BY <2>1, Intervals
  <2>3. k = q
    BY <2>1, Intervals
  <2>4. q = h
    BY <2>1, Intervals
  <2>5. h = n
    BY <2>1, Intervals
  <2> QED
    BY <2>1, <2>2, <2>3, <2>4, <2>5
<1>5. stored[c] = written[c]
  BY StoredDrained
<1> QED
  BY <1>2, <1>4, <1>5 DEF CutAt

Accepted == [c \in Camera |-> admitted[c].count]
Archived == [c \in Camera |-> stored[c].segs]
Confirmed == [c \in Camera |-> written[c].segs]

USE DEF Footage!vars

\* A step that FootageStream does not see.
LEMMA Unseen ==
    ASSUME Accepted' = Accepted, Archived' = Archived, Confirmed' = Confirmed, Phase' = Phase
    PROVE  UNCHANGED Footage!vars
BY DEF Accepted, Archived, Confirmed

\* A step of one camera that admits a segment.
LEMMA SeenAccept ==
    ASSUME TypeOK, Shapes, NEW c \in Camera, ~closing, UNCHANGED <<life, closing, written, stored>>,
           admitted'[c].count = admitted[c].count + 1,
           \A d \in Camera \ {c} : admitted'[d] = admitted[d]
    PROVE  Footage!Accept(c)
<1>1. Phase = "open" /\ Phase' = Phase
  BY DEF Phase, Shapes
<1>2. Accepted' = [Accepted EXCEPT ![c] = @ + 1] /\ Archived' = Archived /\ Confirmed' = Confirmed
  BY DEF Accepted, Archived, Confirmed
<1> QED
  BY <1>1, <1>2 DEF Footage!Accept, Accepted, Archived, Confirmed

\* A longer prefix of the same camera: its last segment is new.
LEMMA LongerPrefix ==
    ASSUME TypeOK, NEW c \in Camera, NEW S, NEW T, Prefix(S, c), Prefix(T, c), S \subseteq T, S # T
    PROVE  \E n \in 1..admitted[c].count : n \notin S /\ T = 1..n
<1> PICK m \in Nat : m <= admitted[c].count /\ S = 1..m
  BY DEF Prefix
<1> PICK n \in Nat : n <= admitted[c].count /\ T = 1..n
  BY DEF Prefix
<1>1. admitted[c].count \in Nat
  BY DEF TypeOK
<1>2. m < n
  <2>1. m \in 1..m => m \in 1..n
    OBVIOUS
  <2>2. m # n
    OBVIOUS
  <2> QED
    BY <2>1, <2>2
<1>3. n \in 1..admitted[c].count /\ n \notin S
  BY <1>1, <1>2
<1> QED
  BY <1>3

\* The backend commits the batch of a write that goes on.
LEMMA SeenCommit ==
    ASSUME JInv, StoreInv', NEW c \in Camera, Commits(c)
    PROVE  Footage!Archive(c) \/ UNCHANGED Footage!vars
<1>0. TypeOK /\ StoreAt(c) /\ StoreAt(c)' /\ FlushAt(c)
  BY DEF JInv, IInv, StoreInv, FlushInv
<1>1. UNCHANGED <<life, closing, written, admitted>> /\ stored[c] = written[c]
  BY DEF Commits
<1>2. Phase' = Phase /\ Accepted' = Accepted /\ Confirmed' = Confirmed
  BY <1>1 DEF Phase, Accepted, Confirmed
<1>3. Phase # "drained"
  <2>1. life # "stopped"
    <3>1. CASE worker[c].state \in {"writing", "cancelledWrite"}
      BY <1>0, <3>1 DEF FlushAt, NoWorker
    <3>2. CASE abandoned[c] # NoBatch
      BY <1>0, <3>2 DEF StoreAt, Dead
    <3> QED
      BY <3>1, <3>2 DEF Commits
  <2> QED
    BY <2>1 DEF Phase
<1>4. Archived[c] = Confirmed[c] /\ Archived[c] = stored[c].segs
  BY <1>1 DEF Archived, Confirmed
<1>5. Archived' = [Archived EXCEPT ![c] = stored'[c].segs]
  BY <1>0 DEF Archived, Commits, TypeOK
<1>6. Prefix(stored[c].segs, c) /\ Prefix(stored'[c].segs, c)
  BY <1>0, <1>1 DEF StoreAt, Prefix
<1>7. stored[c].segs \subseteq stored'[c].segs
  BY <1>0, <1>1 DEF StoreAt
<1>8. CASE stored'[c].segs = stored[c].segs
  <2>1. Archived' = Archived
    BY <1>5, <1>8 DEF Archived
  <2> QED
    BY <1>2, <2>1, Unseen
<1>9. CASE stored'[c].segs # stored[c].segs
  <2> PICK n \in 1..admitted[c].count : n \notin stored[c].segs /\ stored'[c].segs = 1..n
    BY <1>0, <1>6, <1>7, <1>9, LongerPrefix
  <2>1. n \in 1..Accepted[c] /\ n \notin Archived[c] /\ Archived' = [Archived EXCEPT ![c] = 1..n]
    BY <1>4, <1>5 DEF Accepted
  <2> QED
    BY <1>2, <1>3, <1>4, <2>1 DEF Footage!Archive, Accepted, Archived, Confirmed
<1> QED
  BY <1>8, <1>9

\* A write returned.
LEMMA SeenConfirm ==
    ASSUME JInv, StoreInv', NEW c \in Camera, WriteSucceeds(c)
    PROVE  Footage!Confirm(c) \/ UNCHANGED Footage!vars
<1> DEFINE both == Merge(written[c], worker[c].batch)
<1>0. TypeOK /\ Shapes /\ StoreAt(c) /\ StoreAt(c)' /\ FlushAt(c) /\ LineAt(c)
  BY DEF JInv, IInv, StoreInv, FlushInv, LineInv
<1>1. UNCHANGED <<life, closing, admitted>>
  BY DEF WriteSucceeds
<1>2. Phase' = Phase /\ Accepted' = Accepted
  BY <1>1 DEF Phase, Accepted
<1>3. Phase \in {"open", "closing"}
  <2>1. life \notin {"stopped", "aborted"}
    BY <1>0 DEF WriteSucceeds, FlushAt, Shapes, NoWorker
  <2> QED
    BY <2>1 DEF Phase
<1>4. /\ Archived' = [Archived EXCEPT ![c] = both.segs]
      /\ Confirmed' = [Confirmed EXCEPT ![c] = both.segs]
  BY <1>0 DEF Archived, Confirmed, WriteSucceeds, TypeOK
<1>5. stored[c] \in {written[c], both}
  BY <1>0 DEF WriteSucceeds, StoreAt, Dead
<1>6. Archived[c] \in {Confirmed[c], both.segs} /\ Confirmed[c] = written[c].segs
  BY <1>5 DEF Archived, Confirmed
<1>7. Prefix(written[c].segs, c) /\ Prefix(both.segs, c) /\ written[c].segs \subseteq both.segs
  <2>1. written[c] \in Batch /\ worker[c].batch \in Batch
    BY <1>0 DEF TypeOK
  <2>2. written[c].segs \subseteq both.segs
    BY <2>1, MergeFacts
  <2>3. both.segs = written[c].segs \cup worker[c].batch.segs
    BY <2>1, MergeFacts
  <2>4. ~Dead(c)
    BY DEF WriteSucceeds, Dead
  <2>5. Prefix(both.segs, c)
    BY <1>0, <2>3, <2>4, WorkPrefix
  <2>6. Prefix(written[c].segs, c)
    BY <1>0, WrittenPrefix
  <2> QED
    BY <2>2, <2>5, <2>6
<1> HIDE DEF both
<1>8. CASE both.segs = written[c].segs
  <2>1. Archived' = Archived /\ Confirmed' = Confirmed
    BY <1>4, <1>6, <1>8 DEF Archived, Confirmed
  <2> QED
    BY <1>2, <2>1, Unseen
<1>9. CASE both.segs # written[c].segs
  <2> PICK n \in 1..admitted[c].count : n \notin written[c].segs /\ both.segs = 1..n
    BY <1>0, <1>7, <1>9, LongerPrefix
  <2>1. /\ n \in 1..Accepted[c] /\ n \notin Confirmed[c] /\ Archived[c] \in {Confirmed[c], 1..n}
        /\ Archived' = [Archived EXCEPT ![c] = 1..n]
        /\ Confirmed' = [Confirmed EXCEPT ![c] = 1..n]
    BY <1>4, <1>6 DEF Accepted
  <2> QED
    BY <1>2, <1>3, <2>1 DEF Footage!Confirm, Accepted, Archived, Confirmed
<1> QED
  BY <1>8, <1>9

\* The rest of add(), from _reserve on.
LEMMA SeenReserve ==
    ASSUME TypeOK, Shapes, NEW c \in Camera, NEW a, NEW q, Reserve(c, a, q),
           UNCHANGED <<life, closing, written, stored>>
    PROVE  Footage!Next \/ UNCHANGED Footage!vars
<1>1. CASE Refuse(c, a, q) \/ AwaitBudget(c, a, q)
  BY <1>1, Unseen DEF Refuse, AwaitBudget, Accepted, Archived, Confirmed, Phase
<1>2. CASE Admit(c, a, q)
  <2>1. /\ ~closing /\ admitted'[c].count = admitted[c].count + 1
        /\ \A d \in Camera \ {c} : admitted'[d] = admitted[d]
    BY <1>2 DEF Admit, TypeOK
  <2> QED
    BY <2>1, SeenAccept DEF Footage!Next
<1> QED
  BY <1>1, <1>2 DEF Reserve

LEMMA Refines ==
    ASSUME JInv, StoreInv', [Next]_vars
    PROVE  [Footage!Next]_(Footage!vars)
<1>0. TypeOK /\ Shapes
  BY DEF JInv, IInv
<1>1. ASSUME NEW c \in Camera, EnterAdd(c) \/ RecheckBudget(c) \/ UnblockSplit(c)
      PROVE  Footage!Next \/ UNCHANGED Footage!vars
  <2>1. UNCHANGED <<life, closing, written, stored>>
    BY <1>1 DEF EnterAdd, RecheckBudget, UnblockSplit, backend
  <2>2. CASE \E a, q : Reserve(c, a, q)
    BY <1>0, <2>1, <2>2, SeenReserve
  <2>3. CASE UNCHANGED admitted
    BY <2>1, <2>3, Unseen DEF Accepted, Archived, Confirmed, Phase
  <2> QED
    BY <1>1, <2>2, <2>3 DEF EnterAdd, RecheckBudget, UnblockSplit, Reserve
<1>2. ASSUME NEW c \in Camera, Commits(c) \/ WriteSucceeds(c)
      PROVE  Footage!Next \/ UNCHANGED Footage!vars
  BY <1>2, SeenCommit, SeenConfirm DEF Footage!Next
<1>3. CASE UNCHANGED <<life, closing, admitted, written, stored>>
  BY <1>3, Unseen DEF Accepted, Archived, Confirmed, Phase
<1>4. ASSUME NEW c \in Camera,
             \/ CallAdd(c) \/ GetBatch(c) \/ WriteFails(c) \/ ReclaimEnds(c) \/ BackoffEnds(c)
             \/ WorkerUnwinds(c) \/ CancelSwallowed(c) \/ CallFlush(c) \/ FinishJoin(c)
      PROVE  UNCHANGED <<life, closing, admitted, written, stored>>
  BY <1>4 DEF CallAdd, GetBatch, WriteFails, ReclaimEnds, BackoffEnds, WorkerUnwinds,
     CancelSwallowed, CallFlush, FinishJoin, history
<1>5. ASSUME NEW c \in Camera, NEW k \in Client,
             CallRotate(c, k) \/ EnterRotate(c, k) \/ Unblock(c, k)
      PROVE  UNCHANGED <<life, closing, admitted, written, stored>>
  BY <1>5 DEF CallRotate, EnterRotate, Unblock, history
<1>6. CASE Start \/ SendPoison \/ CancelStop \/ CancelStreams \/ UNCHANGED vars
  <2>1. UNCHANGED <<admitted, written, stored>> /\ Phase' = Phase
    BY <1>0, <1>6
    DEF Start, SendPoison, CancelStop, CancelStreams, vars, Phase, history, Shapes
  <2> QED
    BY <2>1, Unseen DEF Accepted, Archived, Confirmed
<1>7. CASE Stop \/ BeginAbort
  <2>1. UNCHANGED history
    BY <1>7 DEF Stop, BeginAbort
  <2>2. Accepted' = Accepted /\ Archived' = Archived /\ Confirmed' = Confirmed
    BY <2>1 DEF Accepted, Archived, Confirmed, history
  <2>3. Phase \in {"open", "closing"} /\ Phase' = "closing"
    BY <1>7 DEF Stop, BeginAbort, Phase
  <2>4. CASE Phase = "open"
    BY <2>2, <2>3, <2>4 DEF Footage!Next, Footage!Close, Accepted, Archived, Confirmed
  <2>5. CASE Phase = "closing"
    BY <2>2, <2>3, <2>5, Unseen
  <2> QED
    BY <2>3, <2>4, <2>5
<1>8. CASE StopReturns
  <2>1. Accepted' = Accepted /\ Archived' = Archived /\ Confirmed' = Confirmed
    BY <1>8 DEF StopReturns, Accepted, Archived, Confirmed, history
  <2>2. \A c \in Camera : Archived[c] = 1..Accepted[c] /\ Confirmed[c] = 1..Accepted[c]
    BY <1>8, WrittenAll DEF StopReturns, Accepted, Archived, Confirmed
  <2>3. Phase = "closing" /\ Phase' = "drained"
    BY <1>0, <1>8 DEF StopReturns, Phase, Shapes
  <2> QED
    BY <2>1, <2>2, <2>3 DEF Footage!Next, Footage!Drain, Accepted, Archived, Confirmed
<1>9. CASE FinishAbort
  <2>1. Accepted' = Accepted /\ Archived' = Archived /\ Confirmed' = Confirmed
    BY <1>9 DEF FinishAbort, Accepted, Archived, Confirmed, history
  <2>2. Phase = "closing" /\ Phase' = "cut"
    BY <1>0, <1>9 DEF FinishAbort, Phase, Shapes
  <2> QED
    BY <2>1, <2>2 DEF Footage!Next, Footage!Cut, Accepted, Archived, Confirmed
<1> QED
  BY <1>1, <1>2, <1>3, <1>4, <1>5, <1>6, <1>7, <1>8, <1>9 DEF Next, Produce, Work, Shutdown

LEMMA RefinesInit == Init => Footage!Init
<1> SUFFICES ASSUME Init PROVE Footage!Init
  OBVIOUS
<1>1. Phase = "open"
  BY DEF Init, Phase
<1>2. /\ Accepted = [c \in Camera |-> 0] /\ Archived = [c \in Camera |-> {}]
      /\ Confirmed = [c \in Camera |-> {}]
  BY SlotShapes DEF Init, Accepted, Archived, Confirmed
<1> QED
  BY <1>1, <1>2 DEF Footage!Init, Accepted, Archived, Confirmed

\* The backend's footage of every camera is at all times a gapless prefix of what add()
\* admitted, ahead of what its writes returned by one write at most.  A clean stop has
\* written all; nothing is admitted after the end, nor committed after it but by one
\* write that an abort left running.
THEOREM StreamImplemented == Spec => ImplementsFootageStream
<1>1. JInv /\ JInv' /\ [Next]_vars => [Footage!Next]_(Footage!vars)
  BY Refines DEF JInv
<1> QED
  BY <1>1, RefinesInit, PipelineInductive, PTL DEF Spec, ImplementsFootageStream, Footage!Spec
=============================================================================
