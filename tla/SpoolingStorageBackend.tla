----------------------- MODULE SpoolingStorageBackend ------------------------
(***************************************************************************)
(* The disk outbox in front of the WebDAV backend: a batch is committed to *)
(* a directory of its own before write_batch answers, and one replay task  *)
(* uploads the directories and removes them.  The process may be killed or *)
(* lose power between any two steps and be started again.                  *)
(*                                                                         *)
(* An entry is one recording, identified and ordered by its camera and     *)
(* relative path; every entry has size 1.  The remote side is what the     *)
(* replay task observes of it: which of the two final objects count as     *)
(* committed, and requests that were cut off and may still take effect.    *)
(***************************************************************************)
EXTENDS Naturals, FiniteSets

CONSTANTS Entry,        \* recordings, as numbers in replay order
          SpoolMax,     \* spool_max_gb, in entries
          MaxRestarts,  \* bound: times the process ends and starts again
          DeleteOldest, \* write_failure_policy = "delete_oldest"
          Trouble       \* bound: which troubles an instance includes

ASSUME ConstantsAssumption ==
    /\ Entry \subseteq Nat
    /\ IsFiniteSet(Entry)
    /\ SpoolMax \in Nat
    /\ MaxRestarts \in Nat
    /\ DeleteOldest \in BOOLEAN
    /\ Trouble \subseteq {"crash", "rot", "quota", "late", "cancel"}

VARIABLES
    proc,       \* "down" | "opening" | "up"
    restarts,   \* times the process ended
    dir,        \* [Entry -> DirState] the directory as the file system shows it
    survivors,  \* [Entry -> SUBSET DirState] what a power loss may leave of it
    rotten,     \* {<<entry, part>>} files whose content no longer has its hash
    todo,       \* directories that _open has still to scan
    entries,    \* _entries
    blocked,    \* _blocked
    orphans,    \* directories counted in _orphan_bytes
    used,       \* _used_bytes
    writer,     \* [Entry -> WriterState] write_batch of the entry's batch
    cancelled,  \* entries whose write_batch was cancelled while its thread ran
    acked,      \* history: entries whose write_batch returned
    lock,       \* owner of _lock: "free", "writer" or "replay"
    replay,     \* [at, entry] the replay task
    failures,   \* its failure counter
    backoff,    \* time.monotonic() < _next_retry
    wake,       \* _wake
    empty,      \* _empty
    draining,   \* _draining
    remote,     \* [Entry -> "none" | "media" | "pair"] final objects
    late,       \* {<<entry, part>>} cut-off MOVEs the server may still perform
    full        \* the cloud account is out of quota (HTTP 507)

diskVars == <<dir, survivors>>
indexVars == <<entries, blocked, orphans, used>>
replayVars == <<replay, failures, backoff>>
cloudVars == <<remote, late, full>>
lifeVars == <<proc, restarts, todo>>

vars == <<lifeVars, diskVars, rotten, indexVars, writer, cancelled, acked, lock,
          replayVars, wake, empty, draining, cloudVars>>
-----------------------------------------------------------------------------
(* The directory of an entry: a .partial without all its files, a complete *)
(* .partial, the final directory, or the dot-directory that marks an       *)
(* uploaded entry.                                                         *)

DirState == {"none", "filling", "sealed", "stored", "committed"}
Part == {"media", "metadata"}
Threaded == {"filling", "sealed", "renamed", "resync"}
WriterState == {"idle", "waiting", "retry", "acked", "dropped", "lost"} \cup Threaded
Uploading == {"media", "metadata"}
Removing == {"removing", "syncing", "deleting"}
ReplayAt == {"off", "look", "asleep", "dozing", "finishing", "reclaim"} \cup Uploading \cup Removing

Least(S) == CHOOSE e \in S : \A f \in S : e <= f

\* A rename, mkdir or rmdir: visible at once, durable only after a sync.
Becomes(e, d) ==
    /\ dir' = [dir EXCEPT ![e] = d]
    /\ survivors' = [survivors EXCEPT ![e] = @ \cup {d}]

\* _sync_directory(self.directory), with entry e in state d.
SyncedAs(e, d) ==
    /\ dir' = [dir EXCEPT ![e] = d]
    /\ survivors' = [f \in Entry |-> IF f = e THEN {d} ELSE {dir[f]}]

\* Fault: a drain is not told of the new entry.
RegisterKeepsEmpty(e) ==
    /\ entries' = entries \cup {e}
    /\ used' = IF e \in entries THEN used ELSE used + 1
    /\ wake' = TRUE
    /\ UNCHANGED <<blocked, orphans, empty>>

\* Fault: the replay task is not woken.
RegisterSilently(e) ==
    /\ entries' = entries \cup {e}
    /\ used' = IF e \in entries THEN used ELSE used + 1
    /\ empty' = FALSE
    /\ UNCHANGED <<blocked, orphans, wake>>

\* _register
Register(e) ==
    /\ entries' = entries \cup {e}
    /\ used' = IF e \in entries THEN used ELSE used + 1
    /\ empty' = FALSE
    /\ wake' = TRUE
    /\ UNCHANGED <<blocked, orphans>>
-----------------------------------------------------------------------------
Init ==
    /\ proc = "down" /\ restarts = 0 /\ todo = {}
    /\ dir = [e \in Entry |-> "none"]
    /\ survivors = [e \in Entry |-> {"none"}]
    /\ rotten = {}
    /\ entries = {} /\ blocked = {} /\ orphans = {} /\ used = 0
    /\ writer = [e \in Entry |-> "idle"]
    /\ cancelled = {} /\ acked = {}
    /\ lock = "free"
    /\ replay = [at |-> "off", entry |-> 0]
    /\ failures = 0 /\ backoff = FALSE
    /\ wake = FALSE /\ empty = TRUE /\ draining = FALSE
    /\ remote = [e \in Entry |-> "none"]
    /\ late = {} /\ full = FALSE
-----------------------------------------------------------------------------
(* start() and _open.                                                      *)

Open ==
    /\ proc = "down"
    /\ proc' = "opening"
    /\ todo' = {e \in Entry : dir[e] # "none"}
    /\ UNCHANGED <<restarts, diskVars, rotten, indexVars, writer, cancelled, acked, lock,
                   replayVars, wake, empty, draining, cloudVars>>

\* A committed marker is finished off, a complete transaction is moved to its
\* final name, a final directory is taken as it is.
Adopt(e) ==
    /\ dir[e] \in {"sealed", "stored"}
    /\ IF dir[e] = "sealed" THEN SyncedAs(e, "stored") ELSE UNCHANGED diskVars
    /\ entries' = entries \cup {e}
    /\ used' = used + 1
    /\ UNCHANGED orphans

FinishRemoval(e) ==
    /\ dir[e] = "committed"
    /\ SyncedAs(e, "none")
    /\ UNCHANGED <<entries, used, orphans>>

\* An incomplete transaction is kept and counted.
Retain(e) ==
    /\ dir[e] = "filling"
    /\ orphans' = orphans \cup {e}
    /\ used' = used + 1
    /\ UNCHANGED <<diskVars, entries>>

Scan(e) ==
    /\ proc = "opening"
    /\ e \in todo
    /\ todo' = todo \ {e}
    /\ Adopt(e) \/ FinishRemoval(e) \/ Retain(e)
    /\ UNCHANGED <<proc, restarts, rotten, blocked, writer, cancelled, acked, lock, replayVars,
                   wake, empty, draining, cloudVars>>

Opened ==
    /\ proc = "opening"
    /\ todo = {}
    /\ proc' = "up"
    /\ empty' = (entries = {})
    /\ replay' = [replay EXCEPT !.at = "look"]
    /\ UNCHANGED <<restarts, todo, diskVars, rotten, indexVars, writer, cancelled, acked, lock,
                   failures, backoff, wake, draining, cloudVars>>
-----------------------------------------------------------------------------
(* write_batch and _persist.                                               *)

WriteBatch(e) ==
    /\ proc = "up"
    /\ writer[e] \in {"idle", "retry"}
    /\ writer' = [writer EXCEPT ![e] = "waiting"]
    /\ UNCHANGED <<lifeVars, diskVars, rotten, indexVars, cancelled, acked, lock, replayVars,
                   wake, empty, draining, cloudVars>>

\* The thread leaves _persist with an error.  If the awaiting task was
\* cancelled meanwhile, the error replaces the cancellation: either way the
\* caller sees a failed write and may call again.
Raise(e) ==
    /\ lock' = "free"
    /\ writer' = [writer EXCEPT ![e] = "retry"]
    /\ cancelled' = cancelled \ {e}

\* _persist up to mkdir.
BeginPersist(e) ==
    /\ proc = "up"
    /\ writer[e] = "waiting"
    /\ lock = "free"
    /\ dir[e] = "none"
    /\ used + 1 <= SpoolMax
    /\ Becomes(e, "filling")
    /\ writer' = [writer EXCEPT ![e] = "filling"]
    /\ lock' = "writer"
    /\ UNCHANGED <<lifeVars, rotten, indexVars, cancelled, acked, replayVars, wake, empty,
                   draining, cloudVars>>

\* The destination exists: an earlier attempt failed after its rename.
BeginResync(e) ==
    /\ proc = "up"
    /\ writer[e] = "waiting"
    /\ lock = "free"
    /\ dir[e] = "stored"
    /\ writer' = [writer EXCEPT ![e] = "resync"]
    /\ lock' = "writer"
    /\ UNCHANGED <<lifeVars, diskVars, rotten, indexVars, cancelled, acked, replayVars, wake,
                   empty, draining, cloudVars>>

\* No capacity, no free space, a .partial in the way, or mkdir fails.
RefuseWrite(e) ==
    /\ proc = "up"
    /\ writer[e] = "waiting"
    /\ lock = "free"
    /\ dir[e] # "stored"
    /\ Raise(e)
    /\ UNCHANGED <<lifeVars, diskVars, rotten, indexVars, acked, replayVars, wake, empty,
                   draining, cloudVars>>

\* media, metadata and entry.json are written and synced.
WriteFiles(e) ==
    /\ writer[e] = "filling"
    /\ Becomes(e, "sealed")
    /\ writer' = [writer EXCEPT ![e] = "sealed"]
    /\ UNCHANGED <<lifeVars, rotten, indexVars, cancelled, acked, lock, replayVars, wake, empty,
                   draining, cloudVars>>

RenamePartial(e) ==
    /\ writer[e] = "sealed"
    /\ Becomes(e, "stored")
    /\ writer' = [writer EXCEPT ![e] = "renamed"]
    /\ UNCHANGED <<lifeVars, rotten, indexVars, cancelled, acked, lock, replayVars, wake, empty,
                   draining, cloudVars>>

\* Fault: the rename is not synced before write_batch answers.
PersistEndsUnsynced(e) ==
    /\ writer[e] \in {"renamed", "resync"}
    /\ Register(e)
    /\ lock' = "free"
    /\ writer' = [writer EXCEPT ![e] = IF e \in cancelled THEN "dropped" ELSE "acked"]
    /\ acked' = IF e \in cancelled THEN acked ELSE acked \cup {e}
    /\ UNCHANGED <<lifeVars, diskVars, rotten, cancelled, replayVars, draining, cloudVars>>

\* The final sync; then the task registers the entry, cancelled or not.
PersistEnds(e) ==
    /\ writer[e] \in {"renamed", "resync"}
    /\ SyncedAs(e, "stored")
    /\ Register(e)
    /\ lock' = "free"
    /\ writer' = [writer EXCEPT ![e] = IF e \in cancelled THEN "dropped" ELSE "acked"]
    /\ acked' = IF e \in cancelled THEN acked ELSE acked \cup {e}
    /\ UNCHANGED <<lifeVars, rotten, cancelled, replayVars, draining, cloudVars>>

\* An OSError removes the failed attempt, unless removing fails too or the
\* error is of another class; after the rename there is nothing to remove.
PersistFails(e) ==
    /\ writer[e] \in Threaded
    /\ \/ writer[e] \in {"filling", "sealed"} /\ \E d \in {"none", "filling"} : Becomes(e, d)
       \/ writer[e] \in {"renamed", "resync"} /\ UNCHANGED diskVars
    /\ Raise(e)
    /\ UNCHANGED <<lifeVars, rotten, indexVars, acked, replayVars, wake, empty, draining, cloudVars>>

\* The archive manager aborts: a write that waits for the lock ends at once, a
\* running thread is awaited.
CancelWrite(e) ==
    /\ "cancel" \in Trouble
    /\ proc = "up"
    /\ \/ writer[e] = "waiting" /\ writer' = [writer EXCEPT ![e] = "dropped"] /\ UNCHANGED cancelled
       \/ writer[e] \in Threaded /\ cancelled' = cancelled \cup {e} /\ UNCHANGED writer
    /\ UNCHANGED <<lifeVars, diskVars, rotten, indexVars, acked, lock, replayVars, wake, empty,
                   draining, cloudVars>>
-----------------------------------------------------------------------------
(* _replay.                                                                *)

Candidates == entries \ blocked
ReplayGoes(at) == replay' = [replay EXCEPT !.at = at]

\* Top of the loop.
Look ==
    /\ replay.at = "look"
    /\ wake' = FALSE
    /\ \/ Candidates = {} /\ ReplayGoes("asleep")
       \/ Candidates # {} /\ backoff /\ ReplayGoes("dozing")
       \/ Candidates # {} /\ ~backoff /\ replay' = [at |-> "media", entry |-> Least(Candidates)]
    /\ UNCHANGED <<lifeVars, diskVars, rotten, indexVars, writer, cancelled, acked, lock,
                   failures, backoff, empty, draining, cloudVars>>

Awake ==
    /\ \/ replay.at \in {"asleep", "dozing"} /\ wake /\ UNCHANGED backoff
       \/ replay.at = "dozing" /\ backoff' = FALSE
    /\ ReplayGoes("look")
    /\ UNCHANGED <<lifeVars, diskVars, rotten, indexVars, writer, cancelled, acked, lock,
                   failures, wake, empty, draining, cloudVars>>

Current == replay.entry

\* Fault: the sidecar is not uploaded.
UploadMediaOnly ==
    /\ replay.at = "media"
    /\ <<Current, "media">> \notin rotten
    /\ ~full
    /\ remote' = [remote EXCEPT ![Current] = IF @ = "none" THEN "media" ELSE @]
    /\ ReplayGoes("finishing")
    /\ UNCHANGED <<lifeVars, diskVars, rotten, indexVars, writer, cancelled, acked, lock,
                   failures, backoff, wake, empty, draining, late, full>>

\* An object that already exists with these bytes counts as moved.
UploadMedia ==
    /\ replay.at = "media"
    /\ <<Current, "media">> \notin rotten
    /\ ~full
    /\ remote' = [remote EXCEPT ![Current] = IF @ = "none" THEN "media" ELSE @]
    /\ ReplayGoes("metadata")
    /\ UNCHANGED <<lifeVars, diskVars, rotten, indexVars, writer, cancelled, acked, lock,
                   failures, backoff, wake, empty, draining, late, full>>

UploadMetadata ==
    /\ replay.at = "metadata"
    /\ <<Current, "metadata">> \notin rotten
    /\ ~full
    /\ remote' = [remote EXCEPT ![Current] = "pair"]
    /\ ReplayGoes("finishing")
    /\ UNCHANGED <<lifeVars, diskVars, rotten, indexVars, writer, cancelled, acked, lock,
                   failures, backoff, wake, empty, draining, late, full>>

\* The bytes read do not have the manifest's hash: the upload stops before MOVE.
UploadCorrupt ==
    /\ replay.at \in Uploading
    /\ <<Current, replay.at>> \in rotten
    /\ blocked' = blocked \cup {Current}
    /\ ReplayGoes("look")
    /\ UNCHANGED <<lifeVars, diskVars, rotten, entries, orphans, used, writer, cancelled, acked,
                   lock, failures, backoff, wake, empty, draining, cloudVars>>

\* failures, as far as the code tells it apart from 0 and 1.
OneMore == IF failures < 2 THEN failures + 1 ELSE 2
Reclaims == OneMore = 1 /\ ~draining /\ DeleteOldest

\* Fault: a timeout after the media counts as an upload.
UploadTimeoutAccepted ==
    /\ replay.at \in Uploading
    /\ UNCHANGED late
    /\ failures' = OneMore
    /\ backoff' = TRUE
    /\ ReplayGoes(IF replay.at = "metadata" THEN "finishing" ELSE "look")
    /\ UNCHANGED <<lifeVars, diskVars, rotten, indexVars, writer, cancelled, acked, lock, wake,
                   empty, draining, remote, full>>

\* Timeout, outage or refusal; a MOVE that was under way may still happen.
UploadFails ==
    /\ replay.at \in Uploading
    /\ \/ UNCHANGED late
       \/ /\ "late" \in Trouble
          /\ ~full /\ <<Current, replay.at>> \notin rotten
          /\ late' = late \cup {<<Current, replay.at>>}
    /\ failures' = OneMore
    /\ backoff' = TRUE
    /\ ReplayGoes("look")
    /\ UNCHANGED <<lifeVars, diskVars, rotten, indexVars, writer, cancelled, acked, lock, wake,
                   empty, draining, remote, full>>

\* HTTP 507.
UploadQuota ==
    /\ replay.at \in Uploading
    /\ full
    /\ failures' = OneMore
    /\ IF Reclaims THEN ReplayGoes("reclaim") /\ UNCHANGED backoff
       ELSE ReplayGoes("look") /\ backoff' = TRUE
    /\ UNCHANGED <<lifeVars, diskVars, rotten, indexVars, writer, cancelled, acked, lock, wake,
                   empty, draining, cloudVars>>

\* Oldest recordings of the cloud are deleted, or that fails as well.
Reclaim ==
    /\ replay.at = "reclaim"
    /\ full' \in {full, FALSE}
    /\ backoff' = TRUE
    /\ ReplayGoes("look")
    /\ UNCHANGED <<lifeVars, diskVars, rotten, indexVars, writer, cancelled, acked, lock,
                   failures, wake, empty, draining, remote, late>>

BeginRemoval ==
    /\ replay.at = "finishing"
    /\ lock = "free"
    /\ lock' = "replay"
    /\ ReplayGoes("removing")
    /\ UNCHANGED <<lifeVars, diskVars, rotten, indexVars, writer, cancelled, acked, failures,
                   backoff, wake, empty, draining, cloudVars>>

\* The rename to the dot-name.
MarkCommitted ==
    /\ replay.at = "removing"
    /\ Becomes(Current, "committed")
    /\ ReplayGoes("syncing")
    /\ UNCHANGED <<lifeVars, rotten, indexVars, writer, cancelled, acked, lock, failures,
                   backoff, wake, empty, draining, cloudVars>>

MarkFails ==
    /\ replay.at = "removing"
    /\ lock' = "free"
    /\ failures' = OneMore
    /\ backoff' = TRUE
    /\ ReplayGoes("look")
    /\ UNCHANGED <<lifeVars, diskVars, rotten, indexVars, writer, cancelled, acked, wake, empty,
                   draining, cloudVars>>

SyncMark ==
    /\ replay.at = "syncing"
    /\ SyncedAs(Current, "committed")
    /\ ReplayGoes("deleting")
    /\ UNCHANGED <<lifeVars, rotten, indexVars, writer, cancelled, acked, lock, failures,
                   backoff, wake, empty, draining, cloudVars>>

\* Fault: a waiting drain is not told of the empty queue.
ForgetQuietly ==
    /\ entries' = entries \ {Current}
    /\ used' = used - 1
    /\ lock' = "free"
    /\ failures' = 0
    /\ backoff' = FALSE
    /\ ReplayGoes("look")
    /\ UNCHANGED <<lifeVars, rotten, blocked, orphans, writer, cancelled, acked, wake, empty,
                   draining, cloudVars>>

\* The entry leaves the index, whatever became of its marker.
Forget ==
    /\ entries' = entries \ {Current}
    /\ used' = used - 1
    /\ lock' = "free"
    /\ failures' = 0
    /\ backoff' = FALSE
    /\ empty' = IF entries' = {} THEN TRUE ELSE empty
    /\ ReplayGoes("look")
    /\ UNCHANGED <<lifeVars, rotten, blocked, orphans, writer, cancelled, acked, wake, draining,
                   cloudVars>>

DeleteMarked ==
    /\ replay.at = "deleting"
    /\ SyncedAs(Current, "none")
    /\ Forget

\* An OSError after the rename is only logged.  (The SpoolCorruptionError of lines 390
\* and 395 is none: it takes a foreign file in the marked directory, and is left out.)
CleanupFails ==
    /\ replay.at \in {"syncing", "deleting"}
    /\ UNCHANGED diskVars
    /\ Forget
-----------------------------------------------------------------------------
(* drain_uploads, close, and what the process does not decide.             *)

BeginDrain ==
    /\ proc = "up"
    /\ ~draining
    /\ entries # {}
    /\ draining' = TRUE
    /\ backoff' = FALSE
    /\ wake' = TRUE
    /\ UNCHANGED <<lifeVars, diskVars, rotten, indexVars, writer, cancelled, acked, lock,
                   replay, failures, empty, cloudVars>>

\* The process ends: its memory is gone, and so is a batch not yet acknowledged.
ProcessEnds ==
    /\ proc' = "down"
    /\ restarts' = restarts + 1
    /\ todo' = {} /\ entries' = {} /\ blocked' = {} /\ orphans' = {} /\ used' = 0
    /\ writer' = [e \in Entry |->
         IF writer[e] \in {"waiting", "retry"} \cup Threaded THEN "lost" ELSE writer[e]]
    /\ cancelled' = {}
    /\ lock' = "free"
    /\ replay' = [replay EXCEPT !.at = "off"]
    /\ failures' = 0 /\ backoff' = FALSE
    /\ wake' = FALSE /\ empty' = TRUE /\ draining' = FALSE
    /\ UNCHANGED <<rotten, acked, cloudVars>>

\* Killed, or power is lost: a change not yet synced may be undone.
Crash ==
    /\ "crash" \in Trouble
    /\ proc \in {"opening", "up"}
    /\ restarts < MaxRestarts
    /\ \E left \in [Entry -> DirState] :
         /\ \A e \in Entry : left[e] \in survivors[e]
         /\ dir' = left
         /\ survivors' = [e \in Entry |-> {left[e]}]
    /\ ProcessEnds

\* close(), or an error in _open that ends the process.  The replay task is
\* cancelled wherever it is; what a removal thread still does is a step it
\* took before.
Close ==
    /\ \/ proc = "up" /\ \A e \in Entry : writer[e] \notin Threaded
       \/ proc = "opening"
    /\ restarts < MaxRestarts
    /\ UNCHANGED diskVars
    /\ ProcessEnds

LateCommit(e, part) ==
    /\ <<e, part>> \in late
    /\ late' = late \ {<<e, part>>}
    /\ remote' = [remote EXCEPT ![e] =
         IF part = "metadata" THEN "pair" ELSE IF @ = "none" THEN "media" ELSE @]
    /\ UNCHANGED <<lifeVars, diskVars, rotten, indexVars, writer, cancelled, acked, lock,
                   replayVars, wake, empty, draining, full>>

Rot(e, part) ==
    /\ dir[e] = "stored"
    /\ "rot" \in Trouble
    /\ rotten = {}
    /\ rotten' = {<<e, part>>}
    /\ UNCHANGED <<lifeVars, diskVars, indexVars, writer, cancelled, acked, lock, replayVars,
                   wake, empty, draining, cloudVars>>

QuotaExhausted ==
    /\ "quota" \in Trouble
    /\ ~full
    /\ full' = TRUE
    /\ UNCHANGED <<lifeVars, diskVars, rotten, indexVars, writer, cancelled, acked, lock,
                   replayVars, wake, empty, draining, remote, late>>
-----------------------------------------------------------------------------
Write(e) ==
    \/ WriteBatch(e) \/ BeginPersist(e) \/ BeginResync(e) \/ RefuseWrite(e)
    \/ WriteFiles(e) \/ RenamePartial(e) \/ PersistEnds(e) \/ PersistFails(e)
    \/ CancelWrite(e)

Upload == UploadMedia \/ UploadMetadata \/ UploadCorrupt \/ UploadFails \/ UploadQuota \/ Reclaim
Removal == BeginRemoval \/ MarkCommitted \/ MarkFails \/ SyncMark \/ DeleteMarked \/ CleanupFails
Environment ==
    \/ Crash \/ Close \/ BeginDrain \/ QuotaExhausted
    \/ \E e \in Entry, part \in Part : LateCommit(e, part) \/ Rot(e, part)

Next ==
    \/ Open \/ Opened \/ Look \/ Awake \/ Upload \/ Removal \/ Environment
    \/ \E e \in Entry : Scan(e) \/ Write(e)

Spec == Init /\ [][Next]_vars

\* A process that ended is started again; its replay task and its threads run.
Opening == Open \/ Opened \/ \E e \in Entry : Scan(e)
Replaying == Look \/ Awake \/ Upload \/ MarkCommitted \/ MarkFails \/ SyncMark
                  \/ DeleteMarked \/ CleanupFails
Persisting == \E e \in Entry : WriteFiles(e) \/ RenamePartial(e) \/ PersistEnds(e) \/ PersistFails(e)

LoopFairness ==
    /\ WF_vars(Opening) /\ WF_vars(Replaying) /\ WF_vars(Persisting)
    /\ SF_vars(BeginRemoval)        \* asyncio.Lock is first come, first served

\* A cloud that is reached again and again stores an upload or reports its
\* quota, reclaiming frees some, and a local rename does not fail for ever.
CloudRecovers ==
    /\ SF_vars(UploadMedia) /\ SF_vars(UploadMetadata) /\ SF_vars(UploadQuota)
    /\ SF_vars(Reclaim /\ ~full')
    /\ SF_vars(MarkCommitted)

\* The archive manager repeats a failed write, and the disk takes writes again.
DiskRecovers ==
    \A e \in Entry :
        /\ WF_vars(writer[e] = "retry" /\ WriteBatch(e))
        /\ SF_vars(BeginPersist(e)) /\ SF_vars(BeginResync(e))
        /\ SF_vars(WriteFiles(e)) /\ SF_vars(RenamePartial(e)) /\ SF_vars(PersistEnds(e))

RecoveringSpec == Spec /\ LoopFairness /\ CloudRecovers
DiskRecoveringSpec == RecoveringSpec /\ DiskRecovers
-----------------------------------------------------------------------------
(* Properties.                                                             *)

\* Types of the variables.
TypeOK ==
    /\ proc \in {"down", "opening", "up"}
    /\ restarts \in 0..MaxRestarts
    /\ dir \in [Entry -> DirState]
    /\ survivors \in [Entry -> SUBSET DirState]
    /\ rotten \subseteq Entry \X Part
    /\ todo \subseteq Entry
    /\ entries \subseteq Entry /\ blocked \subseteq Entry /\ orphans \subseteq Entry
    /\ used \in Nat
    /\ writer \in [Entry -> WriterState]
    /\ cancelled \subseteq Entry /\ acked \subseteq Entry
    /\ lock \in {"free", "writer", "replay"}
    /\ replay \in [at : ReplayAt, entry : Nat]
    /\ failures \in 0..2
    /\ backoff \in BOOLEAN /\ wake \in BOOLEAN /\ empty \in BOOLEAN
    /\ draining \in BOOLEAN /\ full \in BOOLEAN
    /\ remote \in [Entry -> {"none", "media", "pair"}]
    /\ late \subseteq Entry \X Part

\* Once write_batch returned, a power loss at any point leaves the recording in
\* the outbox, or write_prepared has both parts on the remote side (README.md:417-418,
\* 454).  Whether they are what was sent is the matter of WebDAVArchive.
AckedIsDurable ==
    \A e \in acked : remote[e] = "pair" \/ survivors[e] = {"stored"}

\* The marker that startup deletes without looking further can only be found
\* for an entry whose two remote objects were committed (spool.py:225,377).
MarkerMeansDelivered ==
    \A e \in Entry : "committed" \in survivors[e] => remote[e] = "pair"

\* Whoever gets the lock finds the index and the disk in agreement: a recording
\* it lists can be opened locally, playback and export find every acknowledged one
\* (README.md:421), the drain is only told of an empty queue, and the capacity counts
\* what is listed and retained.
IndexMatchesDisk ==
    proc = "up" /\ lock = "free" =>
        /\ \A e \in entries : dir[e] = "stored"
        /\ \A e \in acked : e \in entries \/ remote[e] = "pair"
        /\ empty <=> entries = {}
        /\ used = Cardinality(entries \cup orphans)

\* The outbox implements DurableOutbox, crashes and power losses included.
Outbox == INSTANCE DurableOutbox
            WITH local <- {e \in Entry : survivors[e] = {"stored"}},
                 delivered <- {e \in Entry : remote[e] = "pair"}

ImplementsDurableOutbox == Outbox!Spec

\* While the cloud comes back again and again, every acknowledged recording
\* that is intact is uploaded and its local copy removed from the index.
AckedIsDelivered ==
    \A e \in Entry :
        (e \in acked /\ rotten = {}) ~> (rotten # {} \/ (remote[e] = "pair" /\ e \notin entries))

\* A drain with a reachable cloud ends.
DrainEnds == draining ~> (~draining \/ rotten # {} \/ empty)

\* "Remove only this failed attempt's incomplete copies, so a freed disk can be
\* retried." (spool.py:341-342) A write that failed succeeds once the disk does.
FreedDiskIsRetried ==
    \A e \in Entry : (writer[e] = "retry") ~> (writer[e] # "retry" /\ writer[e] # "waiting")
=============================================================================
