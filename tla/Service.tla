------------------------------- MODULE Service --------------------------------
(***************************************************************************)
(* The service: how it starts, how segments come in over HTTP while it     *)
(* runs, and how stop() ends recorders, uploads, archive and backend in    *)
(* order under one deadline.  The archive is seen from outside: it admits  *)
(* a segment or refuses it, and writes what it admitted in its own time;   *)
(* behind it is the outbox, which the cloud empties in its own time and    *)
(* which counts only once stop() waits for it.                             *)
(***************************************************************************)
EXTENDS Naturals, Sequences, SequencesExt

CONSTANTS Camera,
          MaxSegments \* bound: the segments each camera uploads

ASSUME ConstantsAssumption == MaxSegments \in [Camera -> Nat]

VARIABLES
    phase,      \* "new", "running", the steps of stop(), "stopped"
    passed,     \* cameras whose upload lock stop() has passed
    recorder,   \* [Camera -> FFmpeg runs]
    sent,       \* [Camera -> segments FFmpeg began to upload]
    arriving,   \* [Camera -> Seq] requests that have not reached the lock
    queue,      \* [Camera -> Seq] who waits for upload_locks[c]
    holder,     \* [Camera -> [seg, step]] the request that holds it
    ingestClosed,
    closing,    \* the archive manager's _closing
    ram,        \* [Camera -> segments admitted and not written]
    backlog,    \* the outbox that drain_uploads() found is not empty yet
    written, acked, refused, cut, \* sets of segments
    accepted,   \* history: at a lock when the recorders had stopped
    drained,    \* drain_complete
    reported,   \* unwritten_bytes is not zero
    retention,  \* where _retention_loop is
    wakeup,     \* _retention_wakeup is set
    owedRun     \* history: an archive error since retention last began

archiveVars == <<closing, ram, written, reported, backlog>>
requestVars == <<sent, arriving, queue, holder>>
answerVars == <<acked, refused, cut>>
stopVars == <<phase, passed, ingestClosed, drained, accepted>>
retentionVars == <<retention, wakeup, owedRun>>
vars == <<archiveVars, requestVars, answerVars, stopVars, recorder, retentionVars>>

StopToken == 0 \* stop() itself, waiting for the lock
NoHolder == [seg |-> 0, step |-> "free"]
Shutdown == {"retention", "recorders", "locks", "archive", "drain"}
-----------------------------------------------------------------------------
Init ==
    /\ phase = "new" /\ passed = {}
    /\ recorder = [c \in Camera |-> FALSE]
    /\ sent = [c \in Camera |-> 0]
    /\ arriving = [c \in Camera |-> <<>>]
    /\ queue = [c \in Camera |-> <<>>]
    /\ holder = [c \in Camera |-> NoHolder]
    /\ ingestClosed = FALSE /\ closing = FALSE
    /\ ram = [c \in Camera |-> {}] /\ backlog = FALSE
    /\ written = {} /\ acked = {} /\ refused = {} /\ cut = {}
    /\ accepted = {}
    /\ drained = FALSE /\ reported = FALSE
    /\ retention = "off" /\ wakeup = FALSE /\ owedRun = FALSE

\* start(): the backend, the archive manager, the retention task.  When one fails
\* those before it are closed again.
Start ==
    /\ phase = "new"
    /\ phase' = "running"
    /\ retention' = "top"
    /\ UNCHANGED <<archiveVars, requestVars, answerVars, passed, ingestClosed, drained, accepted,
                   recorder, wakeup, owedRun>>

\* start_supervisors_after(): the lifespan delays the recorders.
StartRecorders ==
    /\ phase = "running"
    /\ recorder = [c \in Camera |-> FALSE]
    /\ recorder' = [c \in Camera |-> TRUE]
    /\ UNCHANGED <<archiveVars, requestVars, answerVars, stopVars, retentionVars>>
-----------------------------------------------------------------------------
(* One upload: the handler takes the camera's lock before it reads the     *)
(* body, and keeps it until the archive has taken the segment.             *)

Send(c) ==
    /\ recorder[c]
    /\ sent[c] < MaxSegments[c]
    /\ sent' = [sent EXCEPT ![c] = @ + 1]
    /\ arriving' = [arriving EXCEPT ![c] = Append(@, sent'[c])]
    /\ UNCHANGED <<archiveVars, queue, holder, answerVars, stopVars, recorder, retentionVars>>

Arrive(c) ==
    /\ arriving[c] # <<>>
    /\ queue' = [queue EXCEPT ![c] = Append(@, Head(arriving[c]))]
    /\ arriving' = [arriving EXCEPT ![c] = Tail(@)]
    /\ UNCHANGED <<archiveVars, sent, holder, answerVars, stopVars, recorder, retentionVars>>

Holds(c, step) == holder[c].step = step
GoesOn(c, step) == holder' = [holder EXCEPT ![c].step = step]

Segment(c) == <<c, holder[c].seg>>

Answered(c, answers) ==
    /\ answers' = answers \cup {Segment(c)}
    /\ holder' = [holder EXCEPT ![c] = NoHolder]

TakeLock(c) ==
    /\ holder[c] = NoHolder
    /\ queue[c] # <<>> /\ Head(queue[c]) # StopToken
    /\ holder' = [holder EXCEPT ![c] = [seg |-> Head(queue[c]), step |-> "body"]]
    /\ queue' = [queue EXCEPT ![c] = Tail(@)]
    /\ UNCHANGED <<archiveVars, sent, arriving, answerVars, stopVars, recorder, retentionVars>>

\* Fault: a connection that ends keeps the lock.
DisconnectKeepsLock(c) ==
    /\ Holds(c, "body") /\ ~recorder[c]
    /\ GoesOn(c, "cut")
    /\ UNCHANGED <<archiveVars, sent, arriving, queue, answerVars, stopVars, recorder,
                   retentionVars>>

\* ClientDisconnect: 499.  Only an FFmpeg that ends leaves a body unfinished.
Disconnect(c) ==
    /\ Holds(c, "body") /\ ~recorder[c]
    /\ Answered(c, cut)
    /\ UNCHANGED <<archiveVars, sent, arriving, queue, acked, refused, stopVars, recorder,
                   retentionVars>>

\* ingest_upload: closed, or on to the live buffer and the archive; the first
\* segment of another stream rotates the archive before.
Ingest(c) ==
    /\ Holds(c, "body")
    /\ IF ingestClosed THEN Answered(c, refused)
       ELSE /\ \E step \in {"rotate", "add"} : GoesOn(c, step)
            /\ UNCHANGED refused
    /\ UNCHANGED <<archiveVars, sent, arriving, queue, acked, cut, stopVars, recorder,
                   retentionVars>>

Rotated(c) ==
    /\ Holds(c, "rotate")
    /\ GoesOn(c, "add")
    /\ UNCHANGED <<archiveVars, sent, arriving, queue, answerVars, stopVars, recorder,
                   retentionVars>>

\* The budget lets it in; a batch this completes may still have to wait.
Admit(c) ==
    /\ Holds(c, "add") /\ ~closing
    /\ ram' = [ram EXCEPT ![c] = @ \cup {holder[c].seg}]
    /\ GoesOn(c, "put")
    /\ UNCHANGED <<closing, written, reported, backlog, sent, arriving, queue, answerVars,
                   stopVars, recorder, retentionVars>>

\* archive_manager.add raises.
Refuse(c) ==
    /\ Holds(c, "add") /\ closing
    /\ Answered(c, refused)
    /\ UNCHANGED <<archiveVars, sent, arriving, queue, acked, cut, stopVars, recorder,
                   retentionVars>>

Acknowledge(c) ==
    /\ Holds(c, "put")
    /\ Answered(c, acked)
    /\ UNCHANGED <<archiveVars, sent, arriving, queue, refused, cut, stopVars, recorder,
                   retentionVars>>

ArchiveWrites(c) ==
    /\ ram[c] # {}
    /\ \E n \in ram[c] :
          /\ \A k \in ram[c] : n <= k
          /\ ram' = [ram EXCEPT ![c] = @ \ {n}]
          /\ written' = written \cup {<<c, n>>}
    /\ UNCHANGED <<closing, reported, backlog, requestVars, answerVars, stopVars, recorder,
                   retentionVars>>
-----------------------------------------------------------------------------
(* _retention_loop.                                                        *)

\* _on_archive_error with the policy "retry".
ArchiveError ==
    /\ phase \notin {"new", "stopped"}
    /\ \E c \in Camera : ram[c] # {}
    /\ wakeup' = TRUE /\ owedRun' = TRUE
    /\ UNCHANGED <<archiveVars, requestVars, answerVars, stopVars, recorder, retention>>

RetentionStarts ==
    /\ retention = "top"
    /\ retention' = "running"
    /\ wakeup' = FALSE /\ owedRun' = FALSE
    /\ UNCHANGED <<archiveVars, requestVars, answerVars, stopVars, recorder>>

\* Fault: what woke it is cleared after the run.
RetentionEndsAndClears ==
    /\ retention = "running"
    /\ retention' = "waiting"
    /\ wakeup' = FALSE
    /\ UNCHANGED <<archiveVars, requestVars, answerVars, stopVars, recorder, owedRun>>

\* A failed run is recorded and goes on in the same way.
RetentionEnds ==
    /\ retention = "running"
    /\ retention' = "waiting"
    /\ UNCHANGED <<archiveVars, requestVars, answerVars, stopVars, recorder, wakeup, owedRun>>

\* The event, or retention_check_seconds.
RetentionWakes ==
    /\ retention = "waiting"
    /\ retention' = "top"
    /\ UNCHANGED <<archiveVars, requestVars, answerVars, stopVars, recorder, wakeup, owedRun>>
-----------------------------------------------------------------------------
(* stop().                                                                 *)

Stop ==
    /\ phase = "running"
    /\ phase' = "retention"
    /\ UNCHANGED <<archiveVars, requestVars, answerVars, passed, ingestClosed, drained, accepted,
                   recorder, retentionVars>>

RetentionCancelled ==
    /\ phase = "retention"
    /\ phase' = "recorders"
    /\ retention' = "off"
    /\ UNCHANGED <<archiveVars, requestVars, answerVars, passed, ingestClosed, drained, accepted,
                   recorder, wakeup, owedRun>>

\* supervisors.stop() lets each FFmpeg upload its last segment.
RecorderStops(c) ==
    /\ phase = "recorders" /\ recorder[c]
    /\ recorder' = [recorder EXCEPT ![c] = FALSE]
    /\ UNCHANGED <<archiveVars, requestVars, answerVars, stopVars, retentionVars>>

Segments == UNION {{c} \X (1..MaxSegments[c]) : c \in Camera}

AtLock == {s \in Segments : holder[s[1]].seg = s[2] \/ s[2] \in ToSet(queue[s[1]])}

RecordersStopped ==
    /\ phase = "recorders"
    /\ \A c \in Camera : ~recorder[c]
    /\ phase' = "locks"
    /\ accepted' = AtLock
    /\ UNCHANGED <<archiveVars, requestVars, answerVars, passed, ingestClosed, drained, recorder,
                   retentionVars>>

Waiting(c) == StopToken \in ToSet(queue[c])

\* async with lock, one camera after the other.
WaitForLock(c) ==
    /\ phase = "locks" /\ c \notin passed
    /\ \A d \in Camera : ~Waiting(d)
    /\ queue' = [queue EXCEPT ![c] = Append(@, StopToken)]
    /\ UNCHANGED <<archiveVars, sent, arriving, holder, answerVars, stopVars, recorder,
                   retentionVars>>

PassLock(c) ==
    /\ phase = "locks"
    /\ holder[c] = NoHolder
    /\ queue[c] # <<>> /\ Head(queue[c]) = StopToken
    /\ queue' = [queue EXCEPT ![c] = Tail(@)]
    /\ passed' = passed \cup {c}
    /\ UNCHANGED <<archiveVars, sent, arriving, holder, answerVars, phase, ingestClosed, drained,
                   accepted, recorder, retentionVars>>

\* Fault: ingest is closed without waiting for the locks.
CloseAtOnce ==
    /\ phase = "locks"
    /\ phase' = "archive"
    /\ ingestClosed' = TRUE /\ closing' = TRUE
    /\ UNCHANGED <<ram, written, reported, backlog, requestVars, answerVars, passed, drained,
                   accepted, recorder, retentionVars>>

\* _ingest_closed, and archive_manager.stop() begins.
CloseIngest ==
    /\ phase = "locks" /\ passed = Camera
    /\ phase' = "archive"
    /\ ingestClosed' = TRUE /\ closing' = TRUE
    /\ UNCHANGED <<ram, written, reported, backlog, requestVars, answerVars, passed, drained,
                   accepted, recorder, retentionVars>>

\* Flushed and joined.  What the cloud has not taken by then, of this run or an
\* earlier one, is in the outbox.
ArchiveStopped ==
    /\ phase = "archive"
    /\ \A c \in Camera : ram[c] = {} /\ ~Holds(c, "put")
    /\ phase' = "drain"
    /\ drained' = TRUE
    /\ backlog' \in BOOLEAN
    /\ UNCHANGED <<closing, ram, written, reported, requestVars, answerVars, passed, ingestClosed,
                   accepted, recorder, retentionVars>>

\* _replay uploads the last entry of the outbox.
CloudTakes ==
    /\ backlog /\ phase # "stopped"
    /\ backlog' = FALSE
    /\ UNCHANGED <<closing, ram, written, reported, requestVars, answerVars, stopVars, recorder,
                   retentionVars>>

\* drain_uploads() returns when the outbox is empty, and not before.
UploadsDrained ==
    /\ phase = "drain" /\ ~backlog
    /\ phase' = "abort"
    /\ UNCHANGED <<archiveVars, requestVars, answerVars, passed, ingestClosed, drained, accepted,
                   recorder, retentionVars>>

\* stop() waits in a queue once, or not at all.
WithoutToken(q) ==
    IF \A i \in 1..Len(q) : q[i] # StopToken THEN q
    ELSE [i \in 1..(Len(q) - 1) |-> IF \E j \in 1..i : q[j] = StopToken THEN q[i + 1] ELSE q[i]]

\* asyncio.timeout.  The wait for a lock is cancelled.
Deadline ==
    /\ phase \in Shutdown
    /\ phase' = "abort"
    /\ queue' = [c \in Camera |-> WithoutToken(queue[c])]
    /\ retention' = "off"
    /\ UNCHANGED <<archiveVars, sent, arriving, holder, answerVars, passed, ingestClosed, drained,
                   accepted, recorder, wakeup, owedRun>>

\* Fault: the bytes are counted once the queues are empty.
AbortCountsNothing ==
    /\ phase = "abort"
    /\ phase' = "close"
    /\ ingestClosed' = TRUE /\ closing' = TRUE
    /\ ram' = [c \in Camera |-> {}]
    /\ recorder' = [c \in Camera |-> FALSE]
    /\ UNCHANGED <<written, reported, backlog, requestVars, answerVars, passed, drained,
                   accepted, retentionVars>>

\* The finally clause: archive_manager.abort() reports what it drops.
Abort ==
    /\ phase = "abort"
    /\ phase' = "close"
    /\ ingestClosed' = TRUE /\ closing' = TRUE
    /\ reported' = (reported \/ \E c \in Camera : ram[c] # {})
    /\ ram' = [c \in Camera |-> {}]
    /\ recorder' = [c \in Camera |-> FALSE]
    /\ UNCHANGED <<written, backlog, requestVars, answerVars, passed, drained, accepted,
                   retentionVars>>

\* close() of the backend, at most five seconds.
BackendClosed ==
    /\ phase = "close"
    /\ phase' = "stopped"
    /\ UNCHANGED <<archiveVars, requestVars, answerVars, passed, ingestClosed, drained, accepted,
                   recorder, retentionVars>>
-----------------------------------------------------------------------------
Upload(c) == \/ Arrive(c) \/ TakeLock(c) \/ Disconnect(c) \/ Ingest(c) \/ Rotated(c)
             \/ Admit(c) \/ Refuse(c) \/ Acknowledge(c)

Retention == RetentionStarts \/ RetentionEnds \/ RetentionWakes

StopStep == \/ RetentionCancelled \/ RecordersStopped \/ CloseIngest \/ ArchiveStopped
            \/ UploadsDrained \/ Abort \/ BackendClosed
            \/ \E c \in Camera : RecorderStops(c) \/ WaitForLock(c) \/ PassLock(c)

Next ==
    \/ Start \/ StartRecorders \/ Stop
    \/ \E c \in Camera : Send(c) \/ Upload(c) \/ ArchiveWrites(c)
    \/ CloudTakes \/ ArchiveError \/ Retention
    \/ StopStep \/ Deadline

\* The event loop runs what is ready, a body ends or its connection does, and the
\* archive writes.  Nothing is assumed of the deadline.  That the outbox becomes empty
\* is the cloud's doing and is assumed apart.
LoopFairness ==
    /\ WF_vars(StopStep)
    /\ \A c \in Camera : WF_vars(Upload(c)) /\ WF_vars(ArchiveWrites(c))

CloudWorks == WF_vars(CloudTakes)

Spec == Init /\ [][Next]_vars /\ LoopFairness /\ CloudWorks
-----------------------------------------------------------------------------
(* Properties.                                                             *)

\* Types of the variables.
TypeOK ==
    /\ phase \in Shutdown \cup {"new", "running", "abort", "close", "stopped"}
    /\ passed \subseteq Camera
    /\ recorder \in [Camera -> BOOLEAN]
    /\ sent \in [Camera -> Nat]
    /\ arriving \in [Camera -> Seq(Nat \ {StopToken})]
    /\ queue \in [Camera -> Seq(Nat)]
    /\ holder \in [Camera -> [seg : Nat, step : {"free", "body", "rotate", "add", "put"}]]
    /\ ram \in [Camera -> SUBSET Nat]
    /\ written \subseteq Camera \X Nat /\ acked \subseteq Camera \X Nat
    /\ refused \subseteq Camera \X Nat /\ cut \subseteq Camera \X Nat
    /\ accepted \subseteq Segments
    /\ ingestClosed \in BOOLEAN /\ closing \in BOOLEAN /\ drained \in BOOLEAN
    /\ reported \in BOOLEAN /\ backlog \in BOOLEAN /\ wakeup \in BOOLEAN /\ owedRun \in BOOLEAN
    /\ retention \in {"off", "top", "running", "waiting"}

\* A segment answered with 201 is written, or the shutdown says that bytes were not
\* committed, whatever the deadline cuts off.
AckedIsKept ==
    phase = "stopped" => acked \subseteq written \/ reported

\* A shutdown that reports a complete drain has archived every upload that had
\* reached its lock when the recorders were stopped, in the order it passes the
\* locks, unless FFmpeg left its body unfinished (service.py:185).
AcceptedIsArchived ==
    phase = "stopped" /\ drained /\ ~reported => accepted \subseteq written \cup cut

\* As long as the archive writes and the cloud empties the outbox, stop() ends
\* without its deadline: it waits for a lock, the holder of the lock for the archive,
\* then for the cloud, and nobody for stop().  Without the cloud only the deadline
\* ends the drain (service.py:193).
StopGoesOn == (phase = "retention") ~> (phase = "stopped")

\* An archive error is never forgotten: until retention has begun anew the event that
\* ends its wait is set, also when the error comes while retention runs.
ErrorWakesRetention ==
    owedRun /\ retention = "waiting" => wakeup
=============================================================================
