----------------------------- MODULE ServiceProofs ------------------------------
(***************************************************************************)
(* The shutdown of the service, for every set of cameras and every number  *)
(* of segments: what was answered with 201 and what had reached its lock   *)
(* is archived, or the shutdown says so.                                   *)
(***************************************************************************)
EXTENDS Service, TLAPS

Early == {"new", "running", "retention", "recorders", "locks"}
Step == {"free", "body", "rotate", "add", "put"}

\* A free lock has no segment.
FreeInv == \A c \in Camera : holder[c].step = "free" => holder[c].seg = 0

\* What was admitted is written, or still in memory, or reported.
Safe(s) == s \in written \/ s[2] \in ram[s[1]] \/ reported

KeptInv ==
    /\ \A c \in Camera : holder[c].step = "put" => Safe(<<c, holder[c].seg>>)
    /\ \A s \in acked : Safe(s)

\* The order of stop(): nothing is closed or reported before its turn, and when
\* abort() is done nothing is in memory or gets there.
OrderInv ==
    /\ phase \in Early => ~ingestClosed /\ ~closing /\ ~drained
    /\ phase \in Early \ {"locks"} => passed = {} /\ accepted = {}
    /\ phase \notin {"close", "stopped"} => ~reported
    /\ phase \in {"close", "stopped"} => closing /\ \A c \in Camera : ram[c] = {}

\* stop() has not asked for a lock before it is its turn.
TokenInv ==
    phase \in Early \ {"locks"} =>
        \A c \in Camera : \A i \in 1..Len(queue[c]) : queue[c][i] # StopToken

\* A segment waits for the lock before stop() does.
Ahead(c, n) ==
    \E i \in 1..Len(queue[c]) :
        /\ queue[c][i] = n
        /\ \A j \in 1..Len(queue[c]) : queue[c][j] = StopToken => i < j

Done(s) == s \in written \/ s \in cut \/ s[2] \in ram[s[1]]

\* A segment that had reached its lock is done with, or holds or will get the lock
\* before stop() passes it.
AcceptInv ==
    /\ phase = "locks" =>
         \A s \in accepted :
            Done(s) \/ (s[1] \notin passed /\ (holder[s[1]].seg = s[2] \/ Ahead(s[1], s[2])))
    /\ phase \in {"archive", "drain"} \/ drained =>
         \A s \in accepted : Done(s) \/ reported

\* An archive error sets the event that ends retention's wait.
WakeInv == owedRun => wakeup

IInv == TypeOK /\ FreeInv /\ KeptInv /\ OrderInv /\ TokenInv /\ AcceptInv /\ WakeInv
-----------------------------------------------------------------------------
(* Types.                                                                  *)

USE DEF archiveVars, requestVars, answerVars, stopVars, retentionVars

\* The segments are numbered from 1.
LEMMA SegmentsType == Segments \subseteq Camera \X (Nat \ {0})
  BY ConstantsAssumption DEF Segments

\* A camera's request that ends or goes on leaves the locks' types and the other
\* cameras' locks alone.
LEMMA HolderType ==
    ASSUME TypeOK, FreeInv, NEW c \in Camera
    PROVE  /\ holder' = [holder EXCEPT ![c] = NoHolder]
                => /\ holder' \in [Camera -> [seg : Nat, step : Step]] /\ FreeInv'
                   /\ holder'[c] = NoHolder
                   /\ \A d \in Camera \ {c} : holder'[d] = holder[d]
           /\ \A step \in Step \ {"free"} : GoesOn(c, step)
                => /\ holder' \in [Camera -> [seg : Nat, step : Step]] /\ FreeInv'
                   /\ holder'[c].seg = holder[c].seg /\ holder'[c].step = step
                   /\ \A d \in Camera \ {c} : holder'[d] = holder[d]
  <1>1. NoHolder \in [seg : Nat, step : Step] /\ NoHolder.seg = 0
    BY DEF NoHolder, Step
  <1>2. holder \in [Camera -> [seg : Nat, step : Step]]
    BY DEF TypeOK, Step
  <1> QED
    BY <1>1, <1>2 DEF FreeInv, GoesOn

\* The lock goes to the first who waits.
LEMMA TakeLockType ==
    ASSUME TypeOK, FreeInv, NEW c \in Camera, TakeLock(c)
    PROVE  /\ holder' \in [Camera -> [seg : Nat, step : Step]] /\ FreeInv'
           /\ queue' \in [Camera -> Seq(Nat)]
           /\ holder'[c].seg = Head(queue[c]) /\ holder'[c].step = "body"
           /\ \A d \in Camera \ {c} : holder'[d] = holder[d] /\ queue'[d] = queue[d]
           /\ queue'[c] = Tail(queue[c]) /\ queue[c] # <<>> /\ queue[c] \in Seq(Nat)
  <1> DEFINE taken == [seg |-> Head(queue[c]), step |-> "body"]
  <1>1. queue[c] \in Seq(Nat) /\ queue[c] # <<>> /\ Head(queue[c]) \in Nat
        /\ Tail(queue[c]) \in Seq(Nat)
    BY DEF TakeLock, TypeOK
  <1>2. taken \in [seg : Nat, step : Step] /\ taken.step = "body" /\ taken.seg = Head(queue[c])
    BY <1>1 DEF Step
  <1>3. holder' = [holder EXCEPT ![c] = taken] /\ queue' = [queue EXCEPT ![c] = Tail(@)]
    BY DEF TakeLock
  <1>4. holder \in [Camera -> [seg : Nat, step : Step]] /\ queue \in [Camera -> Seq(Nat)]
    BY DEF TypeOK, Step
  <1> HIDE DEF taken
  <1> QED
    BY <1>1, <1>2, <1>3, <1>4 DEF FreeInv

\* The segment that holds a lock is its camera's.
LEMMA SegmentType ==
    ASSUME TypeOK, NEW c \in Camera
    PROVE  Segment(c) = <<c, holder[c].seg>> /\ Segment(c) \in Camera \X Nat
  BY DEF TypeOK, Segment

\* A queue without the token of stop() is a queue.
LEMMA WithoutType ==
    ASSUME NEW q \in Seq(Nat)
    PROVE  WithoutToken(q) \in Seq(Nat)
  <1>1. CASE \A i \in 1..Len(q) : q[i] # StopToken
    BY <1>1 DEF WithoutToken
  <1>2. CASE \E i \in 1..Len(q) : q[i] = StopToken
    <2>1. Len(q) \in Nat \ {0}
      BY <1>2
    <2>2. \A i \in 1..(Len(q) - 1) :
            (IF \E j \in 1..i : q[j] = StopToken THEN q[i + 1] ELSE q[i]) \in Nat
      BY <2>1, SMTT(30)
    <2>3. WithoutToken(q) \in [1..(Len(q) - 1) -> Nat]
      BY <1>2, <2>2 DEF WithoutToken
    <2> QED
      BY <2>1, <2>3, SMTT(30)
  <1> QED
    BY <1>1, <1>2

Types == TypeOK /\ FreeInv

\* The types by the groups of variables that steps leave alone together.
StopTyped ==
    /\ phase \in Shutdown \cup {"new", "running", "abort", "close", "stopped"}
    /\ passed \subseteq Camera /\ accepted \subseteq Segments
    /\ ingestClosed \in BOOLEAN /\ drained \in BOOLEAN

RequestTyped ==
    /\ sent \in [Camera -> Nat]
    /\ arriving \in [Camera -> Seq(Nat \ {StopToken})]
    /\ queue \in [Camera -> Seq(Nat)]
    /\ holder \in [Camera -> [seg : Nat, step : Step]]

AnswerTyped == acked \subseteq Camera \X Nat /\ refused \subseteq Camera \X Nat /\
               cut \subseteq Camera \X Nat

ArchiveTyped ==
    /\ closing \in BOOLEAN /\ reported \in BOOLEAN /\ backlog \in BOOLEAN
    /\ ram \in [Camera -> SUBSET Nat] /\ written \subseteq Camera \X Nat

RetentionTyped ==
    /\ retention \in {"off", "top", "running", "waiting"}
    /\ wakeup \in BOOLEAN /\ owedRun \in BOOLEAN

RecorderTyped == recorder \in [Camera -> BOOLEAN]

LEMMA TypeGroups ==
    TypeOK <=> /\ StopTyped /\ RequestTyped /\ AnswerTyped /\ ArchiveTyped /\ RetentionTyped
               /\ RecorderTyped
  <1> USE DEF TypeOK, Step
  <1>1. TypeOK => StopTyped /\ AnswerTyped /\ ArchiveTyped /\ RetentionTyped /\ RecorderTyped
    BY DEF StopTyped, AnswerTyped, ArchiveTyped, RetentionTyped, RecorderTyped
  <1>2. TypeOK => RequestTyped
    BY DEF RequestTyped
  <1>3. /\ StopTyped /\ RequestTyped /\ AnswerTyped /\ ArchiveTyped /\ RetentionTyped
        /\ RecorderTyped
        => TypeOK
    BY DEF StopTyped, RequestTyped, AnswerTyped, ArchiveTyped, RetentionTyped, RecorderTyped
  <1> QED
    BY <1>1, <1>2, <1>3

\* A step types what it changes; the rest keeps its types.
LEMMA TypeParts ==
    ASSUME TypeOK,
           UNCHANGED stopVars \/ StopTyped', UNCHANGED requestVars \/ RequestTyped',
           UNCHANGED answerVars \/ AnswerTyped', UNCHANGED archiveVars \/ ArchiveTyped',
           UNCHANGED retentionVars \/ RetentionTyped', UNCHANGED recorder \/ RecorderTyped'
    PROVE  TypeOK'
  <1>1. StopTyped'
    BY TypeGroups DEF StopTyped
  <1>2. RequestTyped'
    BY TypeGroups DEF RequestTyped
  <1>3. AnswerTyped' /\ ArchiveTyped'
    BY TypeGroups DEF AnswerTyped, ArchiveTyped
  <1>4. RetentionTyped' /\ RecorderTyped'
    BY TypeGroups DEF RetentionTyped, RecorderTyped
  <1>5. (StopTyped /\ RequestTyped /\ AnswerTyped /\ ArchiveTyped /\ RetentionTyped /\
         RecorderTyped)'
           => TypeOK'
    BY TypeGroups, PTL
  <1> QED
    BY <1>1, <1>2, <1>3, <1>4, <1>5

\* Every step of an upload keeps the types.
LEMMA UploadType ==
    ASSUME TypeOK, FreeInv, NEW c \in Camera, Send(c) \/ Upload(c) \/ ArchiveWrites(c)
    PROVE  Types'
  <1> USE DEF Types
  <1>0. /\ RequestTyped /\ AnswerTyped /\ ArchiveTyped
        /\ UNCHANGED holder => FreeInv'
    BY TypeGroups DEF FreeInv
  <1>a. ASSUME holder' \in [Camera -> [seg : Nat, step : Step]], UNCHANGED <<sent, arriving, queue>>
        PROVE  RequestTyped'
    BY <1>0, <1>a DEF RequestTyped
  <1>1. CASE Send(c)
    <2>0. UNCHANGED <<archiveVars, queue, holder, answerVars, stopVars, recorder, retentionVars>>
      BY <1>1 DEF Send
    <2>1. sent' \in [Camera -> Nat] /\ sent'[c] \in Nat \ {StopToken}
      BY <1>1, ConstantsAssumption DEF Send, TypeOK, StopToken
    <2>2. arriving' \in [Camera -> Seq(Nat \ {StopToken})]
      BY <1>1, <2>1, SMTT(30) DEF Send, TypeOK
    <2>3. RequestTyped'
      BY <1>0, <2>0, <2>1, <2>2 DEF RequestTyped
    <2> QED
      BY <1>0, <2>0, <2>3, TypeParts
  <1>2. CASE Arrive(c)
    <2>0. UNCHANGED <<archiveVars, sent, holder, answerVars, stopVars, recorder, retentionVars>>
      BY <1>2 DEF Arrive
    <2>1. Head(arriving[c]) \in Nat /\ Tail(arriving[c]) \in Seq(Nat \ {StopToken})
      BY <1>2 DEF Arrive, TypeOK
    <2>2. arriving' \in [Camera -> Seq(Nat \ {StopToken})] /\ queue' \in [Camera -> Seq(Nat)]
      BY <1>2, <2>1, SMTT(30) DEF Arrive, TypeOK
    <2>3. RequestTyped'
      BY <1>0, <2>0, <2>2 DEF RequestTyped
    <2> QED
      BY <1>0, <2>0, <2>3, TypeParts
  <1>3. CASE TakeLock(c)
    <2>0. UNCHANGED <<archiveVars, sent, arriving, answerVars, stopVars, recorder, retentionVars>>
      BY <1>3 DEF TakeLock
    <2>1. /\ holder' \in [Camera -> [seg : Nat, step : Step]] /\ FreeInv'
          /\ queue' \in [Camera -> Seq(Nat)]
      BY <1>3, TakeLockType
    <2>2. RequestTyped'
      BY <1>0, <2>0, <2>1 DEF RequestTyped
    <2> QED
      BY <2>0, <2>1, <2>2, TypeParts
  <1>4. CASE Disconnect(c)
    <2>0. UNCHANGED <<archiveVars, sent, arriving, queue, acked, refused, stopVars, recorder,
                      retentionVars>>
      BY <1>4 DEF Disconnect
    <2>1. holder' \in [Camera -> [seg : Nat, step : Step]] /\ FreeInv'
      BY <1>4, HolderType DEF Disconnect, Answered
    <2>2. cut' = cut \cup {Segment(c)}
      BY <1>4 DEF Disconnect, Answered
    <2>3. RequestTyped' /\ AnswerTyped'
      BY <1>0, <1>a, <2>0, <2>1, <2>2, SegmentType DEF AnswerTyped
    <2> QED
      BY <2>0, <2>1, <2>3, TypeParts
  <1>5. CASE Ingest(c)
    <2>0. UNCHANGED <<archiveVars, sent, arriving, queue, acked, cut, stopVars, recorder,
                      retentionVars>>
      BY <1>5 DEF Ingest
    <2>1. CASE ingestClosed
      <3>1. holder' \in [Camera -> [seg : Nat, step : Step]] /\ FreeInv'
        BY <1>5, <2>1, HolderType DEF Ingest, Answered
      <3>2. refused' = refused \cup {Segment(c)}
        BY <1>5, <2>1 DEF Ingest, Answered
      <3>3. RequestTyped' /\ AnswerTyped'
        BY <1>0, <1>a, <2>0, <3>1, <3>2, SegmentType DEF AnswerTyped
      <3> QED
        BY <2>0, <3>1, <3>3, TypeParts
    <2>2. CASE ~ingestClosed
      <3>1. holder' \in [Camera -> [seg : Nat, step : Step]] /\ FreeInv'
        BY <1>5, <2>2, HolderType DEF Ingest, Step
      <3>2. UNCHANGED refused
        BY <1>5, <2>2 DEF Ingest
      <3> QED
        BY <1>a, <2>0, <3>1, <3>2, TypeParts
    <2> QED
      BY <2>1, <2>2
  <1>6. CASE Rotated(c)
    <2>0. UNCHANGED <<archiveVars, sent, arriving, queue, answerVars, stopVars, recorder,
                      retentionVars>>
      BY <1>6 DEF Rotated
    <2>1. holder' \in [Camera -> [seg : Nat, step : Step]] /\ FreeInv'
      BY <1>6, HolderType DEF Rotated, Step
    <2> QED
      BY <1>a, <2>0, <2>1, TypeParts
  <1>7. CASE Admit(c)
    <2>0. UNCHANGED <<closing, written, reported, backlog, sent, arriving, queue, answerVars,
                      stopVars, recorder, retentionVars>>
      BY <1>7 DEF Admit
    <2>1. holder' \in [Camera -> [seg : Nat, step : Step]] /\ FreeInv'
      BY <1>7, HolderType DEF Admit, Step
    <2>2. ram' \in [Camera -> SUBSET Nat]
      BY <1>7 DEF Admit, TypeOK
    <2>3. ArchiveTyped'
      BY <1>0, <2>0, <2>2 DEF ArchiveTyped
    <2> QED
      BY <1>a, <2>0, <2>1, <2>3, TypeParts
  <1>8. CASE Refuse(c)
    <2>0. UNCHANGED <<archiveVars, sent, arriving, queue, acked, cut, stopVars, recorder,
                      retentionVars>>
      BY <1>8 DEF Refuse
    <2>1. holder' \in [Camera -> [seg : Nat, step : Step]] /\ FreeInv'
      BY <1>8, HolderType DEF Refuse, Answered
    <2>2. refused' = refused \cup {Segment(c)}
      BY <1>8 DEF Refuse, Answered
    <2>3. RequestTyped' /\ AnswerTyped'
      BY <1>0, <1>a, <2>0, <2>1, <2>2, SegmentType DEF AnswerTyped
    <2> QED
      BY <2>0, <2>1, <2>3, TypeParts
  <1>9. CASE Acknowledge(c)
    <2>0. UNCHANGED <<archiveVars, sent, arriving, queue, refused, cut, stopVars, recorder,
                      retentionVars>>
      BY <1>9 DEF Acknowledge
    <2>1. holder' \in [Camera -> [seg : Nat, step : Step]] /\ FreeInv'
      BY <1>9, HolderType DEF Acknowledge, Answered
    <2>2. acked' = acked \cup {Segment(c)}
      BY <1>9 DEF Acknowledge, Answered
    <2>3. RequestTyped' /\ AnswerTyped'
      BY <1>0, <1>a, <2>0, <2>1, <2>2, SegmentType DEF AnswerTyped
    <2> QED
      BY <2>0, <2>1, <2>3, TypeParts
  <1>10. CASE ArchiveWrites(c)
    <2>0. UNCHANGED <<closing, reported, backlog, requestVars, answerVars, stopVars, recorder,
                      retentionVars>>
      BY <1>10 DEF ArchiveWrites
    <2>1. ram' \in [Camera -> SUBSET Nat] /\ written' \subseteq Camera \X Nat
      BY <1>10 DEF ArchiveWrites, TypeOK
    <2>2. ArchiveTyped'
      BY <1>0, <2>0, <2>1 DEF ArchiveTyped
    <2> QED
      BY <1>0, <2>0, <2>2, TypeParts
  <1> QED
    BY <1>1, <1>2, <1>3, <1>4, <1>5, <1>6, <1>7, <1>8, <1>9, <1>10 DEF Upload

\* Every step of stop() keeps the types.
LEMMA StopType ==
    ASSUME TypeOK, StopStep \/ Deadline
    PROVE  TypeOK'
  <1>0. StopTyped /\ RetentionTyped
    BY TypeGroups
  <1>1. CASE RetentionCancelled \/ UploadsDrained \/ BackendClosed
    <2>1. /\ UNCHANGED <<archiveVars, requestVars, answerVars, recorder>>
          /\ UNCHANGED <<passed, ingestClosed, drained, accepted>>
      BY <1>1 DEF RetentionCancelled, UploadsDrained, BackendClosed, retentionVars
    <2>2. phase' \in {"recorders", "abort", "stopped"}
      BY <1>1 DEF RetentionCancelled, UploadsDrained, BackendClosed
    <2>3. StopTyped'
      BY <1>0, <2>1, <2>2 DEF StopTyped, Shutdown
    <2>4. UNCHANGED retentionVars \/ RetentionTyped'
      BY <1>0, <1>1
      DEF RetentionCancelled, UploadsDrained, BackendClosed, RetentionTyped
    <2> QED
      BY <2>1, <2>3, <2>4, TypeParts
  <1>2. CASE RecordersStopped
    BY <1>2 DEF RecordersStopped, AtLock, TypeOK, Shutdown
  <1>3. CASE CloseIngest
    BY <1>3 DEF CloseIngest, TypeOK, Shutdown
  <1>4. CASE ArchiveStopped
    BY <1>4 DEF ArchiveStopped, TypeOK, Shutdown
  <1>5. CASE Abort
    <2>1. reported' \in BOOLEAN
      BY <1>5, Zenon DEF Abort
    <2> QED
      BY <1>5, <2>1 DEF Abort, TypeOK
  <1>6. CASE Deadline
    <2>1. queue' \in [Camera -> Seq(Nat)]
      BY <1>6, WithoutType DEF Deadline, TypeOK
    <2> QED
      BY <1>6, <2>1 DEF Deadline, TypeOK
  <1>7. ASSUME NEW c \in Camera, RecorderStops(c)
        PROVE  TypeOK'
    BY <1>7 DEF RecorderStops, TypeOK
  <1>8. ASSUME NEW c \in Camera, WaitForLock(c)
        PROVE  TypeOK'
    <2>1. Append(queue[c], StopToken) \in Seq(Nat)
      BY <1>8 DEF WaitForLock, TypeOK, StopToken
    <2> QED
      BY <1>8, <2>1, SMTT(30) DEF WaitForLock, TypeOK
  <1>9. ASSUME NEW c \in Camera, PassLock(c)
        PROVE  TypeOK'
    <2>1. Tail(queue[c]) \in Seq(Nat)
      BY <1>9 DEF PassLock, TypeOK
    <2> QED
      BY <1>9, <2>1 DEF PassLock, TypeOK
  <1> QED
    BY <1>1, <1>2, <1>3, <1>4, <1>5, <1>6, <1>7, <1>8, <1>9 DEF StopStep

\* Every step keeps the types.
LEMMA TypesStep ==
    ASSUME TypeOK, FreeInv, Next
    PROVE  Types'
  <1>0. StopTyped /\ RetentionTyped /\ (UNCHANGED holder => FreeInv')
    BY TypeGroups DEF FreeInv
  <1>1. CASE Start \/ Stop
    <2>1. /\ UNCHANGED <<archiveVars, requestVars, answerVars, recorder>>
          /\ UNCHANGED <<passed, ingestClosed, drained, accepted>>
      BY <1>1 DEF Start, Stop
    <2>2. phase' \in {"running", "retention"}
      BY <1>1 DEF Start, Stop
    <2>3. StopTyped'
      BY <1>0, <2>1, <2>2 DEF StopTyped, Shutdown
    <2>4. UNCHANGED retentionVars \/ RetentionTyped'
      BY <1>0, <1>1 DEF Start, Stop, RetentionTyped
    <2> QED
      BY <1>0, <2>1, <2>3, <2>4, TypeParts DEF Types, requestVars
  <1>2. CASE StartRecorders
    <2>1. UNCHANGED <<archiveVars, requestVars, answerVars, stopVars, retentionVars>>
      BY <1>2 DEF StartRecorders
    <2>2. RecorderTyped'
      BY <1>2 DEF StartRecorders, RecorderTyped
    <2> QED
      BY <1>0, <2>1, <2>2, TypeParts DEF Types, requestVars
  <1>3. CASE ArchiveError \/ Retention
    <2>1. UNCHANGED <<archiveVars, requestVars, answerVars, stopVars, recorder>>
      BY <1>3 DEF ArchiveError, Retention, RetentionStarts, RetentionEnds, RetentionWakes
    <2>2. RetentionTyped'
      BY <1>0, <1>3
      DEF ArchiveError, Retention, RetentionStarts, RetentionEnds, RetentionWakes, RetentionTyped
    <2> QED
      BY <1>0, <2>1, <2>2, TypeParts DEF Types, requestVars
  <1>4. CASE StopStep \/ Deadline
    <2>1. UNCHANGED holder
      BY <1>4 DEF StopStep, RetentionCancelled, RecordersStopped, CloseIngest, ArchiveStopped,
         UploadsDrained, Abort, BackendClosed, RecorderStops, WaitForLock, PassLock, Deadline
    <2> QED
      BY <1>4, <2>1, StopType DEF FreeInv, Types
  <1>5. CASE CloudTakes
    <2>1. UNCHANGED <<requestVars, answerVars, stopVars, retentionVars, recorder>>
      BY <1>5 DEF CloudTakes
    <2>2. ArchiveTyped'
      BY <1>5, TypeGroups DEF CloudTakes, ArchiveTyped
    <2> QED
      BY <1>0, <2>1, <2>2, TypeParts DEF Types, requestVars
  <1> QED
    BY <1>1, <1>2, <1>3, <1>4, <1>5, UploadType DEF Next

-----------------------------------------------------------------------------
(* What was acknowledged.                                                  *)

\* Writing, reporting and admitting lose no segment; abort() reports what it drops.
LEMMA SafeStep ==
    ASSUME TypeOK, Next, NEW c \in Camera, NEW n \in Nat, Safe(<<c, n>>)
    PROVE  Safe(<<c, n>>)'
  <1>1. CASE UNCHANGED <<ram, written, reported>>
    BY <1>1 DEF Safe
  <1>2. ASSUME NEW d \in Camera, Admit(d)
        PROVE  Safe(<<c, n>>)'
    BY <1>2 DEF Admit, Safe, TypeOK
  <1>3. ASSUME NEW d \in Camera, ArchiveWrites(d)
        PROVE  Safe(<<c, n>>)'
    BY <1>3 DEF ArchiveWrites, Safe, TypeOK
  <1>4. CASE Abort
    <2>1. n \in ram[c] => reported'
      BY <1>4, Zenon DEF Abort
    <2>2. reported => reported'
      BY <1>4, Zenon DEF Abort
    <2> QED
      BY <1>4, <2>1, <2>2 DEF Abort, Safe
  <1>5. CASE CloseIngest
    BY <1>5 DEF CloseIngest, Safe
  <1> QED
    BY <1>1, <1>2, <1>3, <1>4, <1>5
    DEF Next, Start, StartRecorders, Stop, Send, Upload, Arrive, TakeLock, Disconnect, Ingest,
        Rotated, Refuse, Acknowledge, CloudTakes, ArchiveError, Retention, RetentionStarts,
        RetentionEnds, RetentionWakes, StopStep, RetentionCancelled, RecordersStopped,
        ArchiveStopped, UploadsDrained, BackendClosed, RecorderStops, WaitForLock, PassLock,
        Deadline

\* Every step keeps what was acknowledged, or is about to be.
LEMMA KeptStep ==
    ASSUME TypeOK, FreeInv, KeptInv, Next
    PROVE  KeptInv'
  <1>0. \A d \in Camera : holder[d].seg \in Nat
    BY DEF TypeOK
  <1>1. ASSUME NEW s \in acked
        PROVE  Safe(s)'
    <2>1. s[1] \in Camera /\ s[2] \in Nat /\ s = <<s[1], s[2]>>
      BY DEF TypeOK
    <2>2. Safe(s)
      BY DEF KeptInv
    <2> QED
      BY <2>1, <2>2, SafeStep
  <1>2. ASSUME NEW d \in Camera, NEW n \in Nat, holder[d].step = "put", holder[d].seg = n
        PROVE  Safe(<<d, n>>)'
    <2>1. Safe(<<d, n>>)
      BY <1>2 DEF KeptInv
    <2> QED
      BY <2>1, SafeStep
  <1>3. CASE UNCHANGED <<holder, acked>>
    BY <1>0, <1>1, <1>2, <1>3 DEF KeptInv
  <1>4. ASSUME NEW c \in Camera, holder'[c].step # "put", acked' = acked,
               \A d \in Camera \ {c} : holder'[d] = holder[d]
        PROVE  KeptInv'
    BY <1>0, <1>1, <1>2, <1>4 DEF KeptInv
  <1>5. ASSUME NEW c \in Camera, TakeLock(c) \/ Rotated(c) \/ Disconnect(c) \/ Ingest(c) \/
        Refuse(c)
        PROVE  KeptInv'
    <2>1. /\ holder'[c].step # "put"
          /\ \A d \in Camera \ {c} : holder'[d] = holder[d]
      <3>1. CASE holder' = [holder EXCEPT ![c] = NoHolder]
        BY <3>1, HolderType DEF NoHolder
      <3>2. ASSUME NEW step \in {"rotate", "add"}, GoesOn(c, step)
            PROVE  /\ holder'[c].step # "put"
                   /\ \A d \in Camera \ {c} : holder'[d] = holder[d]
        BY <3>2, HolderType DEF Step
      <3>3. CASE TakeLock(c)
        BY <3>3, TakeLockType
      <3> QED
        BY <1>5, <3>1, <3>2, <3>3 DEF Rotated, Disconnect, Ingest, Refuse, Answered
    <2>2. acked' = acked
      BY <1>5 DEF TakeLock, Rotated, Disconnect, Ingest, Refuse
    <2> QED
      BY <1>4, <2>1, <2>2
  <1>6. ASSUME NEW c \in Camera, Admit(c)
        PROVE  KeptInv'
    <2>1. /\ holder'[c].seg = holder[c].seg /\ acked' = acked
          /\ \A d \in Camera \ {c} : holder'[d] = holder[d]
      BY <1>6, HolderType DEF Admit, Step
    <2>2. \A n \in Nat : holder[c].seg = n => Safe(<<c, n>>)'
      BY <1>6 DEF Admit, Safe, TypeOK
    <2> QED
      BY <1>0, <1>1, <1>2, <2>1, <2>2 DEF KeptInv
  <1>7. ASSUME NEW c \in Camera, Acknowledge(c)
        PROVE  KeptInv'
    <2>1. acked' = acked \cup {<<c, holder[c].seg>>}
      BY <1>7 DEF Acknowledge, Answered, Segment
    <2>2. \A n \in Nat : holder[c].seg = n => Safe(<<c, n>>)'
      BY <1>2, <1>7 DEF Acknowledge, Holds
    <2>3. holder'[c].step # "put" /\ \A d \in Camera \ {c} : holder'[d] = holder[d]
      BY <1>7, HolderType DEF Acknowledge, Answered, NoHolder
    <2> QED
      BY <1>0, <1>1, <1>2, <2>1, <2>2, <2>3 DEF KeptInv
  <1> QED
    BY <1>3, <1>5, <1>6, <1>7
    DEF Next, Start, StartRecorders, Stop, Send, Upload, Arrive, ArchiveWrites, CloudTakes,
        ArchiveError, Retention, RetentionStarts, RetentionEnds, RetentionWakes, StopStep,
        RetentionCancelled, RecordersStopped, CloseIngest, ArchiveStopped, UploadsDrained, Abort,
        BackendClosed, RecorderStops, WaitForLock, PassLock, Deadline

-----------------------------------------------------------------------------
(* The order of stop().                                                    *)

\* Every step keeps the order of stop().
LEMMA OrderStep ==
    ASSUME TypeOK, OrderInv, Next
    PROVE  OrderInv'
  <1> USE DEF OrderInv, Early, Shutdown
  <1>1. CASE Start \/ StartRecorders \/ Stop \/ CloudTakes \/ ArchiveError \/ Retention
    BY <1>1 DEF Start, StartRecorders, Stop, CloudTakes, ArchiveError, Retention, RetentionStarts,
                RetentionEnds, RetentionWakes
  <1>2. ASSUME NEW c \in Camera, Send(c) \/ (Upload(c) /\ ~Admit(c))
        PROVE  OrderInv'
    BY <1>2 DEF Send, Upload, Arrive, TakeLock, Disconnect, Ingest, Rotated, Refuse, Acknowledge
  <1>3. ASSUME NEW c \in Camera, Admit(c)
        PROVE  OrderInv'
    BY <1>3 DEF Admit
  <1>4. ASSUME NEW c \in Camera, ArchiveWrites(c)
        PROVE  OrderInv'
    BY <1>4 DEF ArchiveWrites, TypeOK
  <1>5. CASE RetentionCancelled \/ RecordersStopped \/ CloseIngest \/ ArchiveStopped \/
        UploadsDrained
    BY <1>5 DEF RetentionCancelled, RecordersStopped, CloseIngest, ArchiveStopped, UploadsDrained
  <1>6. CASE Abort
    BY <1>6 DEF Abort
  <1>7. CASE BackendClosed
    BY <1>7 DEF BackendClosed
  <1>9. CASE Deadline
    <2>1. /\ phase \in Shutdown /\ phase' = "abort"
          /\ UNCHANGED <<archiveVars, passed, ingestClosed, drained, accepted>>
      BY <1>9 DEF Deadline
    <2> QED
      BY <2>1
  <1>8. ASSUME NEW c \in Camera, RecorderStops(c) \/ WaitForLock(c) \/ PassLock(c)
        PROVE  OrderInv'
    BY <1>8, SMTT(30) DEF RecorderStops, WaitForLock, PassLock
  <1> QED
    BY <1>1, <1>2, <1>3, <1>4, <1>5, <1>6, <1>7, <1>8, <1>9 DEF Next, StopStep

\* Before its turn stop() asks for no lock.
LEMMA TokenStep ==
    ASSUME TypeOK, FreeInv, TokenInv, Next
    PROVE  TokenInv'
  <1> USE DEF TokenInv, Early
  <1>1. CASE UNCHANGED queue
    <2>1. phase' \in Early \ {"locks"} => phase \in Early \ {"locks"}
      BY SMTT(30)
      DEF Next, Start, StartRecorders, Stop, Send, Upload, Arrive, TakeLock, Disconnect, Ingest,
          Rotated, Admit, Refuse, Acknowledge, ArchiveWrites, CloudTakes, ArchiveError, Retention,
          RetentionStarts, RetentionEnds, RetentionWakes, StopStep, RetentionCancelled,
          RecordersStopped, CloseIngest, ArchiveStopped, UploadsDrained, Abort, BackendClosed,
          RecorderStops, WaitForLock, PassLock, Deadline, TypeOK
    <2> QED
      BY <1>1, <2>1, SMTT(30)
  <1>2. ASSUME NEW c \in Camera, Arrive(c)
        PROVE  TokenInv'
    <2>1. phase' = phase /\ Head(arriving[c]) # StopToken /\ Head(arriving[c]) \in Nat
      BY <1>2 DEF Arrive, TypeOK
    <2>2. /\ queue[c] \in Seq(Nat) /\ queue'[c] = Append(queue[c], Head(arriving[c]))
          /\ \A d \in Camera \ {c} : queue'[d] = queue[d]
      BY <1>2 DEF Arrive, TypeOK
    <2>3. ASSUME \A i \in 1..Len(queue[c]) : queue[c][i] # StopToken
          PROVE  \A i \in 1..Len(queue'[c]) : queue'[c][i] # StopToken
      BY <2>1, <2>2, <2>3
    <2> QED
      BY <2>1, <2>2, <2>3
  <1>3. ASSUME NEW c \in Camera, TakeLock(c)
        PROVE  TokenInv'
    <2>1. phase' = phase
      BY <1>3 DEF TakeLock
    <2>2. /\ queue[c] \in Seq(Nat) /\ queue'[c] = Tail(queue[c]) /\ queue[c] # <<>>
          /\ \A d \in Camera \ {c} : queue'[d] = queue[d]
      BY <1>3, TakeLockType
    <2>3. ASSUME \A i \in 1..Len(queue[c]) : queue[c][i] # StopToken
          PROVE  \A i \in 1..Len(queue'[c]) : queue'[c][i] # StopToken
      <3>1. \A i \in 1..Len(queue'[c]) :
                i + 1 \in 1..Len(queue[c]) /\ queue'[c][i] = queue[c][i + 1]
        BY <2>2
      <3> QED
        BY <2>3, <3>1
    <2> QED
      BY <2>1, <2>2, <2>3
  <1>4. ASSUME NEW c \in Camera, WaitForLock(c) \/ PassLock(c)
        PROVE  TokenInv'
    BY <1>4 DEF WaitForLock, PassLock
  <1>5. CASE Deadline
    BY <1>5 DEF Deadline
  <1> QED
    BY <1>1, <1>2, <1>3, <1>4, <1>5
    DEF Next, Start, StartRecorders, Stop, Send, Upload, Disconnect, Ingest, Rotated, Admit,
        Refuse, Acknowledge, ArchiveWrites, CloudTakes, ArchiveError, Retention, RetentionStarts,
        RetentionEnds, RetentionWakes, StopStep, RetentionCancelled, RecordersStopped,
        CloseIngest, ArchiveStopped, UploadsDrained, Abort, BackendClosed, RecorderStops

-----------------------------------------------------------------------------
(* What had reached its lock.                                              *)

\* A segment that was accepted is one of a camera, with a number.
LEMMA AcceptedType ==
    ASSUME TypeOK, NEW s \in accepted
    PROVE  s[1] \in Camera /\ s[2] \in Nat \ {0} /\ s = <<s[1], s[2]>>
  BY SegmentsType, SMTT(30) DEF TypeOK

\* What is done with stays so, until abort() reports what it drops.
LEMMA DoneStep ==
    ASSUME TypeOK, Next, NEW s, s[1] \in Camera, s = <<s[1], s[2]>>, Done(s)
    PROVE  Done(s)' \/ (Abort /\ reported')
  <1>1. CASE UNCHANGED <<written, ram>>
    <2>1. cut \subseteq cut'
      BY DEF Next, Start, StartRecorders, Stop, Send, Upload, Arrive, TakeLock, Disconnect, Ingest,
         Rotated, Admit, Refuse, Acknowledge, ArchiveWrites, CloudTakes, ArchiveError, Retention,
         Answered, RetentionStarts, RetentionEnds, RetentionWakes, StopStep, RetentionCancelled,
         RecordersStopped, CloseIngest, ArchiveStopped, UploadsDrained, Abort, BackendClosed,
         RecorderStops, WaitForLock, PassLock, Deadline
    <2> QED
      BY <1>1, <2>1, SMTT(30) DEF Done
  <1>2. ASSUME NEW d \in Camera, Admit(d)
        PROVE  Done(s)'
    BY <1>2 DEF Admit, Done, TypeOK
  <1>3. ASSUME NEW d \in Camera, ArchiveWrites(d)
        PROVE  Done(s)'
    BY <1>3 DEF ArchiveWrites, Done, TypeOK
  <1>4. CASE Abort
    <2>1. s[2] \in ram[s[1]] => reported'
      BY <1>4, Zenon DEF Abort
    <2> QED
      BY <1>4, <2>1 DEF Abort, Done
  <1> QED
    BY <1>1, <1>2, <1>3, <1>4
    DEF Next, Start, StartRecorders, Stop, Send, Upload, Arrive, TakeLock, Disconnect, Ingest,
        Rotated, Refuse, Acknowledge, CloudTakes, ArchiveError, Retention, RetentionStarts,
        RetentionEnds, RetentionWakes, StopStep, RetentionCancelled, RecordersStopped,
        CloseIngest, ArchiveStopped, UploadsDrained, BackendClosed, RecorderStops, WaitForLock,
        PassLock, Deadline

\* The accepted segment s of camera c still goes before stop().
Pending(s) ==
    s[1] \notin passed /\ (holder[s[1]].seg = s[2] \/ Ahead(s[1], s[2]))

\* What joins a queue does so at its end.
LEMMA AppendAhead ==
    ASSUME TypeOK, NEW c \in Camera, NEW n \in Nat, Ahead(c, n), NEW k \in Nat,
           queue'[c] = Append(queue[c], k)
    PROVE  Ahead(c, n)'
  <1>1. queue[c] \in Seq(Nat)
    BY DEF TypeOK
  <1>2. PICK i \in 1..Len(queue[c]) :
            /\ queue[c][i] = n
            /\ \A j \in 1..Len(queue[c]) : queue[c][j] = StopToken => i < j
    BY DEF Ahead
  <1>3. /\ Len(queue'[c]) = Len(queue[c]) + 1 /\ queue'[c][i] = n
        /\ \A j \in 1..Len(queue[c]) : queue'[c][j] = queue[c][j]
    BY <1>1, <1>2
  <1>4. \A j \in 1..Len(queue'[c]) : queue'[c][j] = StopToken => i < j
    BY <1>1, <1>2, <1>3
  <1>5. i \in 1..Len(queue'[c])
    BY <1>1, <1>3
  <1> QED
    BY <1>3, <1>4, <1>5 DEF Ahead

\* Who is ahead gets the lock, or still is when another one got it.
LEMMA TailAhead ==
    ASSUME TypeOK, NEW c \in Camera, NEW n \in Nat, Ahead(c, n), queue'[c] = Tail(queue[c])
    PROVE  Head(queue[c]) = n \/ Ahead(c, n)'
  <1>1. queue[c] \in Seq(Nat)
    BY DEF TypeOK
  <1>2. PICK i \in 1..Len(queue[c]) :
            /\ queue[c][i] = n
            /\ \A j \in 1..Len(queue[c]) : queue[c][j] = StopToken => i < j
    BY DEF Ahead
  <1>3. Len(queue'[c]) = Len(queue[c]) - 1
        /\ \A j \in 1..Len(queue'[c]) : queue'[c][j] = queue[c][j + 1]
    BY <1>1, <1>2
  <1>4. CASE i = 1
    BY <1>1, <1>2, <1>4
  <1>5. CASE i # 1
    <2>1. i - 1 \in 1..Len(queue'[c]) /\ queue'[c][i - 1] = n
      BY <1>1, <1>2, <1>3, <1>5
    <2>2. \A j \in 1..Len(queue'[c]) : queue'[c][j] = StopToken => i - 1 < j
      BY <1>1, <1>2, <1>3
    <2> QED
      BY <2>1, <2>2 DEF Ahead
  <1> QED
    BY <1>4, <1>5

\* stop() does not get a lock before those ahead of it.
LEMMA TokenAhead ==
    ASSUME TypeOK, NEW c \in Camera, NEW n \in Nat \ {0}, Ahead(c, n)
    PROVE  queue[c] # <<>> /\ Head(queue[c]) # StopToken
  BY DEF TypeOK, Ahead, StopToken

\* While stop() takes the locks, an accepted segment is done with or pending.
LEMMA PendingStep ==
    ASSUME TypeOK, FreeInv, KeptInv, OrderInv, Next, phase = "locks", phase' = "locks",
           NEW s \in accepted, Done(s) \/ Pending(s)
    PROVE  Done(s)' \/ Pending(s)'
  <1>1. s[1] \in Camera /\ s[2] \in Nat \ {0} /\ s = <<s[1], s[2]>>
    BY AcceptedType
  <1>2. ~ingestClosed /\ ~closing /\ ~reported
    BY DEF OrderInv, Early
  <1>3. CASE Done(s)
    <2>1. ~Abort
      BY DEF Abort
    <2> QED
      BY <1>1, <1>3, <2>1, DoneStep
  <1>4. SUFFICES ASSUME Pending(s), ~Done(s)
                 PROVE  Done(s)' \/ Pending(s)'
    BY <1>3
  <1>5. CASE UNCHANGED <<queue, holder, passed>>
    BY <1>4, <1>5 DEF Pending, Ahead
  <1>6. ASSUME NEW c \in Camera, TakeLock(c) \/ Disconnect(c) \/ Ingest(c) \/ Rotated(c)
                                 \/ Admit(c) \/ Acknowledge(c) \/ Arrive(c) \/ WaitForLock(c)
                                 \/ PassLock(c), s[1] # c
        PROVE  Pending(s)'
    <2>1. /\ holder'[s[1]] = holder[s[1]] /\ queue'[s[1]] = queue[s[1]]
      BY <1>1, <1>6 DEF TakeLock, Disconnect, Ingest, Rotated, Admit, Acknowledge, Arrive,
         WaitForLock, PassLock, GoesOn, Answered, TypeOK
    <2>2. s[1] \notin passed'
      BY <1>4, <1>6 DEF Pending, TakeLock, Disconnect, Ingest, Rotated, Admit, Acknowledge, Arrive,
         WaitForLock, PassLock
    <2> QED
      BY <1>4, <2>1, <2>2 DEF Pending, Ahead
  <1>7. ASSUME NEW k \in Nat, queue'[s[1]] = Append(queue[s[1]], k), UNCHANGED <<holder, passed>>
        PROVE  Pending(s)'
    BY <1>1, <1>4, <1>7, AppendAhead DEF Pending
  <1>8. ASSUME holder'[s[1]].seg = holder[s[1]].seg, UNCHANGED <<queue, passed>>
        PROVE  Pending(s)'
    BY <1>4, <1>8 DEF Pending, Ahead
  <1>9. CASE Arrive(s[1])
    <2>1. Head(arriving[s[1]]) \in Nat
      BY <1>1, <1>9 DEF Arrive, TypeOK
    <2> QED
      BY <1>1, <1>7, <1>9, <2>1 DEF Arrive, TypeOK
  <1>10. CASE WaitForLock(s[1])
    <2>1. StopToken \in Nat
      BY DEF StopToken
    <2> QED
      BY <1>1, <1>7, <1>10, <2>1 DEF WaitForLock, TypeOK
  <1>a. CASE TakeLock(s[1])
    <2>1. holder[s[1]].seg # s[2]
      BY <1>1, <1>a DEF TakeLock, NoHolder
    <2>2. Ahead(s[1], s[2])
      BY <1>4, <2>1 DEF Pending
    <2>3. /\ holder'[s[1]].seg = Head(queue[s[1]]) /\ queue'[s[1]] = Tail(queue[s[1]])
      BY <1>1, <1>a, TakeLockType
    <2>4. passed' = passed
      BY <1>a DEF TakeLock
    <2> QED
      BY <1>1, <1>4, <2>2, <2>3, <2>4, TailAhead DEF Pending
  <1>12. CASE Disconnect(s[1])
    <2>1. holder[s[1]].seg = s[2] => s \in cut'
      BY <1>1, <1>12 DEF Disconnect, Answered, Segment
    <2>2. UNCHANGED <<queue, passed>>
      BY <1>12 DEF Disconnect
    <2> QED
      BY <1>4, <2>1, <2>2 DEF Pending, Done, Ahead
  <1>13. CASE Ingest(s[1]) \/ Rotated(s[1]) \/ Admit(s[1])
    <2>1. holder'[s[1]].seg = holder[s[1]].seg
      BY <1>1, <1>2, <1>13, HolderType DEF Ingest, Rotated, Admit, Step
    <2>2. UNCHANGED <<queue, passed>>
      BY <1>13 DEF Ingest, Rotated, Admit
    <2> QED
      BY <1>8, <2>1, <2>2
  <1>14. CASE Acknowledge(s[1])
    <2>1. holder[s[1]].seg = s[2] => Safe(s)
      BY <1>1, <1>14 DEF Acknowledge, Holds, KeptInv
    <2>2. holder[s[1]].seg # s[2]
      BY <1>2, <1>4, <2>1 DEF Safe, Done
    <2>3. UNCHANGED <<queue, passed>>
      BY <1>14 DEF Acknowledge
    <2> QED
      BY <1>4, <2>2, <2>3 DEF Pending, Ahead
  <1>15. CASE PassLock(s[1])
    <2>1. holder[s[1]].seg # s[2]
      BY <1>1, <1>15 DEF PassLock, NoHolder
    <2>2. FALSE
      BY <1>1, <1>4, <1>15, <2>1, TokenAhead DEF Pending, PassLock
    <2> QED
      BY <2>2
  <1>16. ASSUME NEW c \in Camera, Refuse(c)
         PROVE  FALSE
    BY <1>2, <1>16 DEF Refuse
  <1>17. CASE Deadline
    BY <1>17 DEF Deadline
  <1> QED
    BY <1>5, <1>6, <1>9, <1>10, <1>a, <1>12, <1>13, <1>14, <1>15, <1>16, <1>17
    DEF Next, Start, StartRecorders, Stop, Send, Upload, ArchiveWrites, CloudTakes, ArchiveError,
        Retention, RetentionStarts, RetentionEnds, RetentionWakes, StopStep, RetentionCancelled,
        RecordersStopped, CloseIngest, ArchiveStopped, UploadsDrained, Abort, BackendClosed,
        RecorderStops

\* When the recorders have stopped, whoever is at a lock is ahead of stop().
LEMMA AcceptStarts ==
    ASSUME TypeOK, FreeInv, OrderInv, TokenInv, RecordersStopped, NEW s \in accepted'
    PROVE  Pending(s)'
  <1>1. s \in AtLock /\ UNCHANGED <<queue, holder, passed>>
    BY DEF RecordersStopped
  <1>2. passed = {} /\ \A c \in Camera : \A i \in 1..Len(queue[c]) : queue[c][i] # StopToken
    BY DEF RecordersStopped, OrderInv, TokenInv, Early
  <1>3. s[1] \in Camera /\ queue[s[1]] \in Seq(Nat)
    BY <1>1, SegmentsType DEF AtLock, TypeOK
  <1>4. CASE holder[s[1]].seg = s[2]
    BY <1>1, <1>2, <1>4 DEF Pending
  <1>5. CASE s[2] \in ToSet(queue[s[1]])
    <2>1. PICK i \in 1..Len(queue[s[1]]) : queue[s[1]][i] = s[2]
      <3>1. DOMAIN queue[s[1]] = 1..Len(queue[s[1]])
        BY <1>3
      <3> QED
        BY <1>5, <3>1 DEF ToSet
    <2>2. Ahead(s[1], s[2])
      BY <1>2, <1>3, <2>1 DEF Ahead
    <2> QED
      BY <1>1, <1>2, <2>2 DEF Pending, Ahead
  <1> QED
    BY <1>1, <1>4, <1>5 DEF AtLock

\* Every step keeps what the recorders left at the locks.
LEMMA AcceptStep ==
    ASSUME TypeOK, FreeInv, KeptInv, OrderInv, TokenInv, AcceptInv, Next
    PROVE  AcceptInv'
  <1>1. CASE RecordersStopped
    <2>1. phase' = "locks" /\ ~drained'
      BY <1>1 DEF RecordersStopped, OrderInv, Early
    <2> QED
      BY <1>1, <2>1, AcceptStarts DEF AcceptInv, Pending
  <1>2. ASSUME ~RecordersStopped
        PROVE  /\ accepted' = accepted
               /\ phase' = "locks" => phase = "locks"
    BY <1>2
    DEF Next, Start, StartRecorders, Stop, Send, Upload, Arrive, TakeLock, Disconnect, Ingest,
        Rotated, Admit, Refuse, Acknowledge, ArchiveWrites, CloudTakes, ArchiveError, Retention,
        RetentionStarts, RetentionEnds, RetentionWakes, StopStep, RetentionCancelled, CloseIngest,
        ArchiveStopped, UploadsDrained, Abort, BackendClosed, RecorderStops, WaitForLock,
        PassLock, Deadline
  <1>3. ASSUME ~RecordersStopped, phase' = "locks", NEW s \in accepted'
        PROVE  Done(s)' \/ Pending(s)'
    <2>1. s \in accepted /\ phase = "locks"
      BY <1>2, <1>3
    <2>2. Done(s) \/ Pending(s)
      BY <2>1 DEF AcceptInv, Pending
    <2> QED
      BY <1>3, <2>1, <2>2, PendingStep
  <1>4. ASSUME ~RecordersStopped, phase' \in {"archive", "drain"} \/ drained', NEW s \in accepted'
        PROVE  Done(s)' \/ reported'
    <2>1. s \in accepted
      BY <1>2, <1>4
    <2>2. s[1] \in Camera /\ s = <<s[1], s[2]>>
      BY <2>1, AcceptedType
    <2>3. reported => reported'
      <3>1. CASE Abort
        BY <3>1, Zenon DEF Abort
      <3>2. CASE ~Abort
        BY <3>2
        DEF Next, Start, StartRecorders, Stop, Send, Upload, Arrive, TakeLock, Disconnect, Ingest,
            Rotated, Admit, Refuse, Acknowledge, ArchiveWrites, CloudTakes, ArchiveError,
            Retention, RetentionStarts, RetentionEnds, RetentionWakes, StopStep,
            RetentionCancelled, RecordersStopped, CloseIngest, ArchiveStopped, UploadsDrained,
            BackendClosed, RecorderStops, WaitForLock, PassLock, Deadline
      <3> QED
        BY <3>1, <3>2
    <2>4. CASE phase \in {"archive", "drain"} \/ drained
      <3>1. Done(s) \/ reported
        BY <2>1, <2>4 DEF AcceptInv
      <3> QED
        BY <2>2, <2>3, <3>1, DoneStep
    <2>5. CASE ~(phase \in {"archive", "drain"} \/ drained)
      <3>1. CloseIngest
        BY <1>4, <2>5, SMTT(30)
        DEF Next, Start, StartRecorders, Stop, Send, Upload, Arrive, TakeLock, Disconnect, Ingest,
            Rotated, Admit, Refuse, Acknowledge, ArchiveWrites, CloudTakes, ArchiveError,
            Retention, RetentionStarts, RetentionEnds, RetentionWakes, StopStep,
            RetentionCancelled, RecordersStopped, ArchiveStopped, UploadsDrained, Abort,
            BackendClosed, RecorderStops, WaitForLock, PassLock, Deadline
      <3>2. Done(s)
        BY <2>1, <2>2, <3>1 DEF CloseIngest, AcceptInv
      <3> QED
        BY <3>1, <3>2 DEF CloseIngest, Done
    <2> QED
      BY <2>4, <2>5
  <1>5. CASE ~RecordersStopped
    BY <1>3, <1>4, <1>5, SMTT(30) DEF AcceptInv, Pending
  <1> QED
    BY <1>1, <1>5

\* Every step keeps the event of an archive error set until retention begins.
LEMMA WakeStep ==
    ASSUME WakeInv, Next
    PROVE  WakeInv'
  <1>1. CASE ArchiveError
    BY <1>1 DEF ArchiveError, WakeInv
  <1>2. CASE RetentionStarts
    BY <1>2 DEF RetentionStarts, WakeInv
  <1>3. CASE UNCHANGED <<owedRun, wakeup>>
    BY <1>3 DEF WakeInv
  <1> QED
    BY <1>1, <1>2, <1>3
    DEF Next, Start, StartRecorders, Stop, Send, Upload, Arrive, TakeLock, Disconnect, Ingest,
        Rotated, Admit, Refuse, Acknowledge, ArchiveWrites, CloudTakes, Retention, RetentionEnds,
        RetentionWakes, StopStep, RetentionCancelled, RecordersStopped, CloseIngest,
        ArchiveStopped, UploadsDrained, Abort, BackendClosed, RecorderStops, WaitForLock,
        PassLock, Deadline

-----------------------------------------------------------------------------
(* The theorems.                                                           *)

\* The inductive invariant holds in every reachable state.
LEMMA Inductive == Spec => []IInv
  <1>1. Init => IInv
    <2> SUFFICES ASSUME Init PROVE IInv
      OBVIOUS
    <2>1. TypeOK
      <3>1. NoHolder \in [seg : Nat, step : {"free", "body", "rotate", "add", "put"}]
        BY DEF NoHolder
      <3>2. <<>> \in Seq(Nat) /\ <<>> \in Seq(Nat \ {StopToken})
        OBVIOUS
      <3>3. /\ ingestClosed \in BOOLEAN /\ closing \in BOOLEAN /\ drained \in BOOLEAN
            /\ reported \in BOOLEAN /\ wakeup \in BOOLEAN /\ owedRun \in BOOLEAN
            /\ backlog \in BOOLEAN
        BY Zenon DEF Init
      <3> QED
        BY <3>1, <3>2, <3>3 DEF Init, TypeOK
    <2>2. FreeInv /\ KeptInv /\ WakeInv
      BY DEF Init, FreeInv, KeptInv, WakeInv, NoHolder
    <2>3. OrderInv /\ TokenInv /\ AcceptInv
      BY DEF Init, OrderInv, TokenInv, AcceptInv, Early
    <2> QED
      BY <2>1, <2>2, <2>3 DEF IInv
  <1>2. IInv /\ [Next]_vars => IInv'
    <2> SUFFICES ASSUME IInv, [Next]_vars PROVE IInv'
      OBVIOUS
    <2>1. CASE Next
      BY <2>1, TypesStep, KeptStep, OrderStep, TokenStep, AcceptStep, WakeStep DEF IInv, Types
    <2>2. CASE UNCHANGED vars
      <3>1. /\ UNCHANGED <<archiveVars, requestVars, answerVars, stopVars, retentionVars>>
            /\ UNCHANGED recorder
        BY <2>2 DEF vars
      <3>2. TypeOK'
        BY <3>1, TypeParts DEF IInv
      <3>3. FreeInv' /\ WakeInv' /\ TokenInv'
        BY <3>1 DEF requestVars, stopVars, retentionVars, IInv, FreeInv, WakeInv, TokenInv
      <3>4. OrderInv'
        BY <3>1 DEF archiveVars, requestVars, stopVars, IInv, OrderInv
      <3>5. KeptInv' /\ AcceptInv'
        BY <2>2 DEF vars, IInv, KeptInv, Safe, AcceptInv, Done, Ahead
      <3> QED
        BY <3>2, <3>3, <3>4, <3>5 DEF IInv
    <2> QED
      BY <2>1, <2>2
  <1> QED
    BY <1>1, <1>2, PTL DEF Spec

\* Types of the variables in every reachable state.
THEOREM TypeCorrect == Spec => []TypeOK
  BY Inductive, PTL DEF IInv

\* A segment answered with 201 is written or reported, wherever the deadline of
\* stop() strikes.
THEOREM AckedKept == Spec => []AckedIsKept
  <1>1. IInv => AckedIsKept
    <2> SUFFICES ASSUME IInv, phase = "stopped", ~reported, NEW s \in acked
                 PROVE  s \in written
      BY DEF AckedIsKept
    <2>1. s[1] \in Camera
      BY DEF IInv, TypeOK
    <2> QED
      BY <2>1 DEF IInv, KeptInv, OrderInv, Safe
  <1> QED
    BY <1>1, Inductive, PTL

\* A complete drain has archived every upload that had reached its lock.
THEOREM AcceptedArchived == Spec => []AcceptedIsArchived
  <1>1. IInv => AcceptedIsArchived
    <2> SUFFICES ASSUME IInv, phase = "stopped", drained, ~reported, NEW s \in accepted
                 PROVE  s \in written \cup cut
      BY DEF AcceptedIsArchived
    <2>1. s[1] \in Camera
      BY AcceptedType DEF IInv
    <2> QED
      BY <2>1 DEF IInv, AcceptInv, OrderInv, Done
  <1> QED
    BY <1>1, Inductive, PTL

\* An archive error ends retention's wait, whenever it comes.
THEOREM ErrorWakes == Spec => []ErrorWakesRetention
  <1>1. IInv => ErrorWakesRetention
    BY DEF IInv, WakeInv, ErrorWakesRetention
  <1> QED
    BY <1>1, Inductive, PTL
=============================================================================
