# A verification project for CamVault

CamVault records IP cameras. One FFmpeg process per camera pushes short HLS
segments over loopback HTTP into the service, which shows them live, gathers
them into batches in memory, and archives the batches in a local directory or,
through a disk outbox, on a WebDAV server. This directory holds TLA+ models of
the parts where concurrency, crashes and failing I/O meet, the TLC runs that
check them, and TLAPS proofs about them.

Source paths below are relative to `src/`; `archive.py` stands for
`src/camvault/archive.py`, and so on.

## 1. Inventory

| Component | State | Operations | Talks to |
|---|---|---|---|
| ArchiveManager (`archive.py` 296-662) | accumulators, one-slot queues, worker tasks, retained bytes, ingest locks, `_closing`, `unwritten_bytes` | `start`, `add`, `rotate_camera`, `flush_*`, `stop`, `abort`, `_worker` | called by ingest, supervisors and `stop()`; calls the backend, `on_reclaim` |
| Disk outbox (`spool.py`) | directories on disk, `_entries`, `_blocked`, `_used_bytes`, `_lock`, `_wake`, `_empty`, retry time | `start`/`_open`, `write_batch`/`_persist`, `_replay`, `_remove_committed`, `drain_uploads`, `close`, reads | called by the workers; calls the WebDAV backend |
| WebDAV backend (`storage.py` 390-1360) | remote objects, ensured collections, record cache, managed bytes | `write_prepared`, `list_records`, `retention`, ranged reads | HTTP to AList or another server |
| Local archive (`archive.py` 665-845, `retention.py`) | media and sidecar files | `write_archive_batch`, `scan_archive_records`, `apply_retention` | file system |
| Service (`service.py`, `server.py`) | `_started`, `_stopping`, `_ingest_closed`, upload locks, sessions, retention task | `start`, `stop`, `ingest_upload`, `run_retention`, callbacks | owns all of the above |
| Supervisor (`supervisor.py`, `runtime.py`) | process, task, stop event, backoff | `start`, `stop`, `abort`, `_run`, `_watch_process`, `_terminate` | FFmpeg; `_on_stream_end` |
| HTTP (`web.py`) | sessions, login limiter, `download_slot` | ingest, API, downloads | service |
| Live buffer (`buffer.py`) | sliding window of segments, playlist | `add_segment`, `apply_playlist`, renders | ingest, players |
| Config store (`config_store.py`, `config.py`) | file, backup | `read`, `validate`, `write` | file system |
| Encryption and names (`crypto.py`, `archive.py` 206-293) | none | chunk arithmetic, file names, audio tags | archive, outbox, WebDAV |
| Logging (`logging_setup.py`) | pending lines, ring of recent lines | `emit`, `flush`, `close` | file system |
| FFmpeg arguments, ONVIF, discovery, security, CLI, self-test, dashboard | none worth a model | | |

What makes each correct:

* **ArchiveManager** - memory never exceeds the camera's budget; accepted
  segments reach the backend in order and with no gap, and none is given up before a
  write of it returned; backpressure ends when the backend recovers; shutdown drains everything or reports what it did not;
  shutdown ends.
* **Outbox** - an acknowledged recording survives any crash; a local copy goes
  only after both remote objects exist; the index, the capacity and the drain's
  event agree with the disk; everything is uploaded in the end.
* **WebDAV backend** - a pair is complete or invisible, what an upload reports as
  delivered is what was sent, retries are idempotent, retention deletes neither what is
  being uploaded nor what has no other copy. (Two of these have an exception: findings 3
  and 5.)
* **Listing and reads** - no recording is missing from an answer while it moves
  from the outbox to the cloud, nor at a boundary of hours; a player gets the bytes it
  asked for, and an error only where bytes are lost.
* **Downloads** - one at a time, and each gives the slot back, with nothing of it left.
* **Local archive** - a returned record stays listed until retention deletes it;
  nothing a failed attempt leaves behind blocks the next one.
* **Service** - an accepted upload is archived or reported; no error is forgotten
  by the retention loop; `stop()` goes on without its deadline.
* **Supervisor** - one FFmpeg at a time, ended once, its tail sealed before the
  next one, restarted while wanted, none left over.
* **Live buffer** - the rendered playlist numbers segments consistently and gives
  each the duration FFmpeg announced.
* **Config store** - nobody's save is lost unread.
* **Log file** - it loses lines at its oldest end only.

What is hard: all tasks share one event loop but threads finish on their own;
cancellation can arrive at any `await`; a write can fail, hang, or succeed after
its caller gave up; the process can die between any two file system calls; the
same budget, lock and queue are used by ingest, reconnect and shutdown at once.
`PROJECT.json` lists each hazard at its line with the property that covers it,
or says why none does.

## 2. Modules

| Module | Role |
|---|---|
| `ArchiveManager` | the in-memory archive path, its properties and the plausible faults |
| `FootageStream` | what it promises: the committed footage is a gapless, growing prefix of what was accepted, one unconfirmed write ahead of what was confirmed at most |
| `SpoolingStorageBackend` | the disk outbox with crashes, and its properties |
| `DurableOutbox` | what it promises: an acknowledged recording always has a durable copy |
| `WebDAVArchive` | one recording on the server: upload transaction against retention |
| `RemotePair` | what it promises the outbox: media, then sidecar, once and for all, and what was sent unless the server's word was wrongly taken for it |
| `Service` | start, uploads under their locks, the retention loop, `stop()` under its deadline |
| `CameraSupervisor` | one camera's FFmpeg: launch, watchdog, termination, stop and abort |
| `LiveBuffer` | one camera's sliding window and playlist |
| `BatchName` | what an archive batch's name depends on; extends `LiveBuffer` |
| `LocalArchive` | the local backend's files: writer against retention, crashes, power failures |
| `RecordListing` | listings against uploads, deletions and the record cache |
| `ListingWindow` | which hours a listing of a window scans, and what its cached result answers |
| `RangeRead` | an encrypted recording: sealed chunk by chunk, read in ranges from the cloud and from the outbox |
| `Download` | the export of a time range: feeder, FFmpeg, response, the one slot |
| `ConfigStore` | the configuration file, its backup and its editors |
| `LogFile` | the buffered, rotated log file |
| `Recorder` | `Service`, `CameraSupervisor`, `LiveBuffer`, `LogFile` and `ConfigStore` side by side, see section 3 |
| `Recordings` | `LocalArchive`, `RecordListing`, `ListingWindow`, `RangeRead` and `Download` side by side |
| `MCArchiveManager`, `MCSpoolingStorageBackend`, `MCWebDAVArchive`, `MCBatchName`, `MCRecorder`, `MCRecordings` | instances for TLC |
| `ArchiveManagerProofs`, `ArchivePipelineProofs` | theorems about `ArchiveManager`; the second, built on the first, about footage and `FootageStream` |
| `SpoolingStorageBackendProofs`, `WebDAVArchiveProofs`, `ServiceProofs`, `CameraSupervisorProofs` | theorems about the module each is named after |
| `RecorderProofs` | theorems about `ConfigStore`, `LogFile`, `LiveBuffer`, the supervisor's under the names of `Recorder`, and about `Recorder` |
| `RecordingsProofs` | theorems about `LocalArchive`, `RecordListing`, `ListingWindow`, `RangeRead`, `Download`, and about `Recordings` |

A definition whose comment begins with "Fault:" is no part of the model: it is a
wrong version of the definition after it, which the properties are tested with.

### 2.1 ArchiveManager

asyncio interleaves tasks only where they suspend, so **one action is what one
task does between two suspension points**. A `queue.put` on a free slot, an
uncontended lock and an uncontended condition do not suspend; a put on a full
slot, a held lock and an unmet budget do.

| Code | Model |
|---|---|
| `accumulators[c]`, `queues[c]` | `accumulator`, `queue` (empty, a batch, or the poison `None`) |
| the local `batch` of a task blocked in `queue.put` | `hand`; the ingest lock makes one per camera enough |
| `_worker`'s local state | `worker`: state, batch, attempt (0, 1, more) |
| `_retained_bytes`, `unwritten_bytes` | `retained`, `unwritten` |
| `_ingest_locks[c]` | `holder` and the FIFO `waiters` |
| the suspension point of each client | `pc[c]["ingest"]`, `["stream"]` (the supervisor's callback), `["stop"]` (the flush task) |
| `add` | `CallAdd`, then `EnterAdd`; it may go on in `UnblockSplit`, `RecheckBudget`, `Unblock` |
| `rotate_camera`, `flush_camera` | `CallRotate`/`CallFlush`, `EnterRotate`, `Unblock`, `FinishJoin` |
| `_worker` | `GetBatch`, `Commits`, `WriteSucceeds`, `WriteFails`, `ReclaimEnds`, `BackoffEnds`, `WorkerUnwinds`, `CancelSwallowed` |
| `stop`, the service's deadline, `abort` | `Stop`, `SendPoison`, `StopReturns`, `CancelStop`, `BeginAbort`, `FinishAbort`, `CancelStreams` |

`life` counts the phases of `stop()` and `abort()`. `admitted` and `written` are
history variables: what the budget let in, and what a write returned for.

The backend's side of a write has a step of its own. `stored` is what has been
committed; `Commits` may add the batch that is being written to it at any moment before
the result of the attempt is known. The attempt may then return (`WriteSucceeds`), raise
(`WriteFails`: the rename of `spool.py` 337 is done and the sync of 338 fails, which
`archive.py` 750 provides for) and be retried, or be cancelled. A cancelled worker leaves
its write running in a thread (`archive.py` 605): the batch is then `abandoned`, and
`Commits` may store it long after `abort()`, and the service's `stop()`, have returned.

Abstractions: a segment is its position and its size; durations, the adaptive
target and the memory probe are a free choice of when a batch below the budget
is sealed (`Admit`, `MaySealFirst`), which includes every choice the code makes.
`_budget_conditions` keeps one waiter since only the owner of the ingest lock
gets there. `BackendHonoursCancel` says what kind of backend is behind the
worker: FALSE for the disk outbox, whose `write_batch` may answer a cancellation
with an error (`spool.py` 356-367). Refused oversized segments do not change
state. A manager is started once, as the service does.

### 2.2 SpoolingStorageBackend

An entry is one recording. Its directory is in one of five states, `dir`; what a
power loss may make of it is the set `survivors`. A rename, mkdir or rmdir adds a
possible survivor, the directory's sync leaves only the current state
(`Becomes`, `SyncedAs`). `Crash` ends the process at any step and picks any
survivor; recovery (`Open`, `Scan`, `Opened`) can itself be interrupted.

| Code | Model |
|---|---|
| `_lock` | `lock`; the thread of `_persist` runs in steps while it is held |
| `write_batch`, `_persist` | `WriteBatch`, `BeginPersist`/`BeginResync`/`RefuseWrite`, `WriteFiles`, `RenamePartial`, `PersistEnds`/`PersistFails`, `CancelWrite` |
| `_register` | `Register` |
| `_replay` | `Look`, `Awake`, `UploadMedia`, `UploadMetadata`, `UploadCorrupt`, `UploadFails`, `UploadQuota`, `Reclaim` |
| `_remove_committed`, `_cleanup_committed` | `BeginRemoval`, `MarkCommitted`/`MarkFails`, `SyncMark`, `DeleteMarked`/`CleanupFails`, `Forget` |
| `drain_uploads`, `close` | `BeginDrain`, `Close` |
| remote pair, cut-off MOVEs, HTTP 507 | `remote`, `late` and `LateCommit`, `full` |

The size of every entry is one; `failures` stops at 2 (the code tells 0, 1 and
more apart; beyond that only the delay grows). Retry delays are free. The cloud
is seen as the replay task sees it: "pair" means that both parts have their final names
and `write_prepared` takes them for what was sent. That is as much as `RemotePair`
promises, its exception included (finding 5), and a final object is never replaced by
other bytes (`Overwrite: F`); so content is not modelled here. `WebDAVArchive` looks inside
the transaction.

Left out: a foreign file in a directory marked as committed. `_cleanup_committed` answers
it with `SpoolCorruptionError`, which is no `OSError`: it blocks the entry after its upload
(`spool.py` 441) and keeps the next `_open` from succeeding (227). The directory is the
program's own and locked, and nothing in the code puts such a file there.

### 2.3 WebDAVArchive

The replay task and the retention task share the server and no lock. One action
is one request and what follows it up to the next `await`; the server answers, or
does not, and a request nobody waits for may be performed at any later time
(`late`, `LateEffect`). An object is absent, cut (what arrived of a body that
broke off) or whole. A PUT without an answer, at once or late, may store either
(`Arrives`): the body may have been cut off by the upload's timeout (`spool.py` 419).

| Code | Model |
|---|---|
| final and `.camvault-partial` names | `Part`, `Partial`: the same in every attempt |
| `write_prepared` | `BeginAttempt`, then for media and sidecar `PutSucceeds`/`PutFails` and `_move` |
| `_move`, `_object_matches` | `MoveSucceeds`, `MoveRefused` (404, 405, 409, 412), `MoveUnanswered` (no answer, 5xx), `MoveDenied`; `CheckMatches`/`CheckFails`; `DropPartial` |
| the `except Exception` clean-up | `CleanMedia`, `CleanSide` |
| `asyncio.timeout` of `_replay`, a restart | `AttemptCutOff`: a cancellation is no `Exception`, nothing is cleaned up |
| `_replay` after the upload returned: a restart, or a rename to the marker that fails, repeats it | `UploadAgain` |
| `retention` | `List`, `CleanStale`, `ChooseRecord`, `DeleteRecordMedia`, `DeleteRecordSidecar`; a request that fails ends the run (`RunFails`) |
| `getlastmodified` older than `partial_max_age_hours` | `old`, `Age` |

Objects age only between attempts: an attempt is bounded by
`spool_upload_timeout` (60 s by default), the age by at least one hour
(`config.py` 180, 197). Which records age, size, free space or an emergency
choose is a free choice. `expired` and `orphaned` are history variables: what
retention deleted, and why. `torn` is one, too: the parts whose MOVE was answered with
success although it moved a cut object. This can happen because all attempts share the
partial names: what had arrived of an earlier attempt's PUT is stored late, between this
attempt's PUT and its MOVE, whose answer is believed without a look at the object (finding
5). Objects of which retention never asks the age do not age (`Aging`).

The transaction is shown to implement `RemotePair` (`ImplementsRemotePair`), which is what
the outbox relies on when it removes its copy: the final names are given once, the
media's first, an upload returns only with both, and nothing is undone or changed, by no
clean-up of an attempt that repeats what has succeeded either. Three outcomes are not
hidden. A part may get its name and be cut, by a late MOVE for example: nothing then
returns, since the attempts compare and refuse it. It may be cut and believed (`torn`,
`mistaken` in `RemotePair`): this is the only way in which an upload returns with a part
that is not what was sent. And what retention deletes is given up. `DeliveredIsExact` and
`VisibleIsPlayable` have the second and the third as their exceptions, and no other.
Collections (MKCOL is repeated and harmless), quotas and the non-atomic upload are left
out.

### 2.4 Service

The archive is seen from outside here (`ArchiveManager` is its inside): it admits
a segment, which may then wait for the queue (`put`), refuses it, and writes what
it admitted when it likes. Behind it is the outbox: `backlog` says that it was not empty
when `drain_uploads()` looked, and `CloudTakes` is the upload of its last entry, for which
the drain waits (`spool.py` 489-495). With local storage there is no outbox, and the drain
returns at once.

| Code | Model |
|---|---|
| `upload_locks[c]`, first come first served | `queue[c]`, `holder[c]`; `StopToken` is `stop()` in that queue |
| `PUT /_ingest` and `ingest_upload` | `Arrive`, `TakeLock`, `Disconnect` (499), `Ingest`, `Rotated`, `Admit`/`Refuse`, `Acknowledge` |
| `_retention_loop`, `_on_archive_error` | `RetentionStarts`, `RetentionEnds`, `RetentionWakes`, `ArchiveError` |
| `stop()` | `phase` from "retention" to "stopped"; `UploadsDrained` waits for the cloud; `Deadline` cuts it at any step, `Abort` is the `finally` clause |

`accepted` is a history variable: the uploads at their lock when the recorders had
been stopped, which is what the comment at `service.py` 185 speaks of. An upload
that was answered with 201 is in `acked`.

### 2.5 CameraSupervisor

`_run` is one state per `await` (`run`), `stop()` and `abort()` are `caller`, and
both may be inside `_terminate` (`terminate`, one entry for each), whose lock makes
the second wait. FFmpeg is good (it delivers segments), hung or dead. The
watchdog's two clocks are flags that time may set; a good FFmpeg delivers before
they are set, except when a segment of its predecessor arrives late (`late`), which
misleads the watchdog once. A deadline cancels `stop()` between any two steps, and
`abort()` comes later. `backoff` is computed as in the code, in tenths of a second.

### 2.6 LiveBuffer and BatchName

FFmpeg makes segments and playlists; the requests that carry them are lost,
overtaken and sent again (`requests`). A segment's duration is "default" until a
playlist announces its "own". `_duration_hints` is a sequence since the order of
the dictionary decides what is dropped; `Hinted` takes a playlist's names one by one, since
a hint that was dropped may be given again by a later line. `BatchName` adds the tail and the worker:
`archive_relative_path` is a function of the durations at the moment of the attempt
(`Path`).

### 2.7 LocalArchive

One camera's writer, one batch at a time, and retention, each a thread; one action
is one call on the disk. `final` and `partial` are the files, `unsynced` the
batches whose renames a power failure may undo, `young` the directories it may take
with all they hold, since nobody syncs their own entries. `excused` records these
two exceptions and an error that `_best_effort_fsync_directory` hides. The model
has `fsync` on (`config.py`); with it off a power failure may undo anything that
was not written back.

### 2.8 RecordListing and ListingWindow

Recordings move from `outbox` to `cloud`; a request takes the outbox's entries
first, then asks the cloud or its cache (`List`, `Evaluate`, `Fill`). `missing` and
`excused` are history: what a cached listing lacked when it was cached. That a
listing evaluated before an upload may be cached after its invalidation is in the
model, as in the code (`storage.py` 586-602 against 1038).

`ListingWindow` looks at another side of the same function: recordings lie in a
directory for each hour, `_hour_paths` (`Hours`) says which of them a window needs, and
the key of the cache (`Key`) which other windows the result answers. `reach` is a history variable, the time from which on a scan has looked. An
entry expires or is evicted at any time; windows may be open, and longer ones than
`targeted_scan_max_hours` scan everything. Time zones are whole hours here, and the limit
of a listing is left out.

### 2.9 RangeRead

The stored object is a sequence of bytes of which each knows its chunk and its place, so
that a chunk is authentic exactly if it is whole and in its place. Sealing is incremental:
the source comes in fragments of any length, full chunks are sealed as soon as they are
there, the last one at the end. Reading resolves the range, asks for the bytes of the
chunks that cover it, and hands on of each chunk what the range has of it.

| Code | Model |
|---|---|
| `encrypted_size`, announced before the body is sent | `EncryptedSize`, from `ChunkCount` and `CipherBytes` |
| the encrypting iterator of the upload | `SealFragment`, `SealChunk`, `SealLast` |
| a player's range, the header, the request | `Ask`, `ReadHeader`, `RequestRange` |
| `_decrypt_remote_range` | `Receive` (a fragment of the response), `OpenChunk`, `EndOfResponse`, `ConnectionBreaks` |
| `_local_read` of the outbox | `ReadLocalChunk`, `EndOfLocal` |

The server may ignore the range, may cut the response anywhere, and the object may have
lost its end. Unencrypted objects are passed through by the code and are not modelled.

### 2.10 Download

Per browser: the response's generator (`stream`), the tasks `feeder` and `listener`,
FFmpeg and its three pipes. A pipe holds one piece; FFmpeg, which is external, reads
a piece and then may have something to put out or to complain of, and blocks until
the pipe has room. `Exit` is an FFmpeg that has what it needs, fails, or obeys a TERM;
nothing assumes that it does.

| Code | Model |
|---|---|
| `download_recording` | `Ask` (a taken slot answers 429 and changes nothing), `Launch`/`LaunchFails` |
| `_feed_download_input` | `Feed`, `FeedingEnds`/`FeedingFails`, `CloseInput`, `Flushed` |
| `_read_process_stderr` | `Hear` |
| `_stream_download` | `ReadChunk`, `Sent`, `EndOfOutput`, `Finished`; `Leave` is the browser going away; then `CleanUp`, `Terminated`/`Kill`, `Release` |

`Leave` takes the disconnection as one cancellation of the generator, which is what
asyncio promises. A framework that cancels each further `await` of the `finally`
clause too would skip `slot.release()`, and so would one that drops a response before it
first asks the generator for a chunk; which one serves the application is outside the
repository's source, and the properties say nothing about it. Nor do they about a
request that is cancelled while FFmpeg is being launched: `except Exception` (`web.py` 798)
lets a `CancelledError` pass without giving the slot back, but there only the end of the
server cancels a request (`cli.py` 488), and the slot ends with it. `OneExport` is the safety
side: whoever is under way has the slot, and who does not have it has left no FFmpeg, no
feeder and no listener behind. Which recordings
are fed, and how the range is clipped to them, is left out.

### 2.11 ConfigStore and LogFile

A revision is a hash of the content and is modelled by it. `Compare`, `BackUp` and
`Replace` run under the store's lock; an editor outside the program has none
(`edited`). In `LogFile` a handler's lock makes `emit`, `flush` and `close` one
action each; a rotation may fail between any two of its renames (`Shifted`).

## 3. Runs

`archive_pipeline`, `archive_deadline` and `archive_swallowed` use `MCArchiveManager`, `outbox_*` use `MCSpoolingStorageBackend`,
`webdav_*` use `MCWebDAVArchive`.

| Run | Question | Answer |
|---|---|---|
| `archive_pipeline` | budget, order, writes that commit and fail or commit after an abort, no deadlock, refinement of `FootageStream`; do backpressure and `stop()` end when the backend recovers? | holds |
| `archive_deadline` | with two cameras, does a shutdown lose nothing unreported, and end with a backend that never answers? | holds if it can be cancelled |
| `archive_swallowed` | and with the disk outbox as backend? | **no** (finding) |
| `outbox_durability` | is an acknowledged recording safe through any three crashes, and is `DurableOutbox` implemented? | holds |
| `outbox_delivery` | do index and disk agree, is everything uploaded, and does a drain end, through a crash at any step? | holds |
| `outbox_freed_disk` | does a failed write succeed once the disk does? | **no** (finding) |
| `webdav_transaction` | is nothing incomplete visible, and the transaction `RemotePair`, whatever fails, is late, is repeated or is cleaned up? | holds, but for a cut part whose MOVE was believed (finding 5) |
| `webdav_completion` | does a transaction get past the success of its own earlier attempts? | holds |
| `webdav_orphan` | does the clean-up leave delivered recordings alone? | **no** (finding) |
| `recorder` | while it runs and stops: is every acknowledged segment written or reported, is FFmpeg ended once and started again, do the playlist, the log and the configuration stay consistent? | holds |
| `recordings` | is what was archived listed, found in its window, readable in ranges whenever it is stored, and safe from retention, failed attempts and power failures? is there one export at a time, and does each end? | holds |
| `archive_renamed` | does a batch keep one name through its retries? | **no** (finding) |

**Several components in one run.** `Recorder` holds `Service`,
`CameraSupervisor`, `LiveBuffer`, `LogFile` and `ConfigStore`, and `Recordings`
`LocalArchive`, `RecordListing`, `ListingWindow`, `RangeRead` and `Download`. They share no
state, so the
variable `subject` picks one in the initial state and the others rest in theirs:
the state space is the sum of the instances, not their product, and a property of
one is checked on exactly its own behaviours. Nothing that is assumed fair is
enabled in a component at rest: a conjunction of their fairness assumptions
therefore asks of each behaviour only what its own component assumes. The theorems
`Composition` (section 4) say that what is checked so is each component itself.

**Bounds.** `MaxBytes = 3` with segments of 1 and 2 gives batches of one to three
segments, splits, full and nearly full budgets. Four places can hold footage
(accumulator, slot, hand, worker), so `MaxSegments` 3 or 4 fills all that the
budget allows at once and the one that waits behind it. Two cameras share
nothing but the shutdown, so one segment each is enough to let the flush, the
poison and the abort of one meet the other while it still writes or retries;
blocked producers are the matter of `archive_pipeline`. In
the outbox one entry goes through every step with three restarts (write,
recovery and removal can each be cut once); two entries meet in the index, the
lock and the drain with one restart or crash. `SpoolMax = 2` lets both in.
`Trouble` bounds which troubles an instance includes, so that each run stays
small; `rot` corrupts one file in a run. On the server `MaxLate` bounds the
requests under way without a client: one meets every step of both tasks, and two
(in `webdav_completion`, without retention) meet each other. Attempts and retention runs
are not bounded.

In `recorder` two cameras upload two segments and one: enough for an upload
that waits behind another at its lock, and for a lock `stop()` passes while the
other camera still uploads. `RestartMin = 1`, `RestartMax = 3` let the backoff grow
and reach its limit; launches are not bounded. Five segments of three FFmpeg runs
and a window of two evict by number and by size, and change the stream twice; one
segment is larger than the buffer. `HintLimit = 4` and `RecentNames = 3`, below the
code's four and eight windows, are the least that `BufferAssumption` allows for this window
and lag, so that hints and names are dropped. With one hint or one name less TLC refutes
`DurationIsAnnounced`, in seven segments of one stream.
Five lines through files of two with two backups rotate the oldest file out. Two
browsers and an editor with three contents, one not valid, give every comparison.
In `recordings` two batches share an hour directory, so that pruning and syncing
concern both; one recording and two readers meet in the cache (one fills what the
other invalidated); objects of up to five bytes in chunks of two have none to three
chunks, whole and not, and fragments of up to four bytes cross chunk borders. Two hours
of four units with an interval of two, four times to ask for and two cache entries let a
recording reach into the next hour from within the interval and from beyond it, and an
entry answer a window other than its own. Three
pieces are one more than the input pipe and FFmpeg hold when the output is full, so
that the feeder blocks; two browsers compete for the slot.
`archive_renamed` has four segments in batches of two.

**What is not a run of its own.** `TypeOK` of each module and the inductive invariants of
section 4 were checked on the same instances before they were proved. `DeliveredIsExact`
follows from `ImplementsRemotePair`, whose abstract upload returns only with both parts accepted, and is
proved besides. Each property of a run has a fault of the code that violates it (`Fault:`
in the modules).

**Deadlock.** The `archive_pipeline` and `archive_deadline` runs check it: rotations can
be called at any time, so a state without a successor would be a real one. So do
the `webdav_*` runs with retention. The outbox is quiescent when all is uploaded,
a delivered recording without retention stays as it is, a service that has stopped,
a read that is over and a log with all its lines stop, and a run that ends in a
finding asks another question: those say `CHECK_DEADLOCK FALSE`.

**Fairness.** The event loop runs every ready task and timers fire
(`LoopFairness`, weak, as asyncio's ready queue is first in, first out);
`asyncio.Lock` is first come, first served, which is strong fairness of taking it
(`BeginRemoval`). Nothing is assumed of callers. `BackendRecovers` and
`CloudRecovers` are assumptions of the properties that need them: a backend that
is tried again and again succeeds again and again. `DeadlineSpec` assumes instead
only that `asyncio.timeout` fires, and not that the backend ever answers.
`DiskRecovers` says the same of the local disk; `outbox_freed_disk` is violated
although it holds. `ServerRecovers` says of each request of an attempt that it
succeeds now and then if it is possible again and again; without it a server may
refuse for ever.

`Service` assumes that the event loop runs, that a request's body ends or its
connection does, that the archive writes (`LoopFairness`) and that the cloud empties the
outbox (`CloudWorks`); of the deadline it assumes nothing, so `StopGoesOn` is about
`stop()` itself. The last assumption is needed: without it TLC finds a `stop()` that waits
in `drain_uploads()` for ever, as it does in the code while the server is down or an
entry is blocked (`spool.py` 442); the deadline is what ends it then. `CameraSupervisor` assumes timers, KILL,
and (`CameraWorks`, for `CameraComesBack` only) that the camera can be resolved and
FFmpeg works again and again. `LocalArchive` assumes of the disk that from some
time on it refuses only what is impossible. `RecordListing` assumes that somebody
keeps looking and that the cloud answers now and then. `Download` assumes that the
tasks run, that FFmpeg works on what it has (not that it obeys a TERM), that reading
a recording ends, and that a browser reads on or leaves.

## 4. Proofs

All theorems hold for every value of the constants: any set of cameras, any number
of segments, recordings, batches, requests, crashes and restarts. The only
assumptions are those named in each part, and each is one the code enforces, but for the
lag of a request in 4.6, which is the environment's. Every
theorem is about `Spec` as it is checked. Each invariant below was checked by TLC on
the instances of section 3 before it was proved, so none is empty or too strong.

The proofs share one shape: an inductive invariant, one lemma for each of its parts
with one case for each action (or for the actions that touch the same state), and
theorems that follow from it. Where many actions do the same to the state a part is
about, a lemma classifies the steps first.

### 4.1 ArchiveManagerProofs: the memory budget

* `TypeCorrect` - `Spec => []TypeOK`;
* `BudgetSafe` - `Spec => []BudgetHolds`: what is held for a camera never
  exceeds its budget, shutdown and abort included;
* `BudgetExact` - `Spec => []BudgetIsExact`: reserved is held, until a shutdown
  is cut short.

The assumption is `ConstantsAssumption`: the budget is positive and
segments larger than it are refused (`archive.py` 451).

`BudgetHolds` alone is not inductive. After an abort, `retained` is 0 while a
blocked producer still has a batch (finding 7), so the argument
cannot run over `retained` alone. The invariant `IInv` adds

* `LockDiscipline`: whoever is suspended inside the locked region owns the
  ingest lock, so at most one batch per camera is in a hand;
* `Shapes`: an idle worker and a slot without a batch hold no bytes, `closing`
  goes with the phases of shutdown, and after an abort there is neither a worker
  nor an accumulated tail;
* `BudgetInv`: `retained` is within the budget and covers what is held until the
  abort has released it.

`AccountsStep` classifies every step: it
keeps held and retained bytes (`Keeps`), admits a segment that fits (`Admits`),
gives both back alike (`Releases`), or belongs to an abort (`Abandons`).
`BudgetStep` then needs only these four cases. `Held` never grows after
`closing` since `Admit` requires it unset, which is why the budget still holds
when `retained` no longer tells.

### 4.2 ArchivePipelineProofs: order, loss, and the refinement of FootageStream

* `FootageInOrder` - `Spec => []PipelineInOrder`;
* `LossReported` - `Spec => []NothingLostUnreported`;
* `StreamImplemented` - `Spec => ImplementsFootageStream`: the initial states map to
  the initial states of `FootageStream`, every step to one of its steps or a stutter.

`JInv` extends `IInv` by six parts. `LineInv`: the five stages of a camera (written,
worker, slot, hand, accumulator) hold adjacent intervals of its segments, but for one
gap after those written, the batch that an abort lost; nothing is ever written behind
it. `TailInv`: what is in a hand is the latest of its camera. `FlushInv`: what the
flush of `stop()` has achieved at each of its awaits. `CancelInv`: only `abort()`
cancels a worker. `BytesInv`: what was admitted is written or reserved, and an aborted
shutdown has reported the difference. `StoreInv`: the backend has what returned, or that
and the one batch which is being written or was abandoned, which follows it directly.
`PipelineInOrder` says only that the stages are
disjoint and ordered; that they are *adjacent* is what a step needs, since a batch
moving from one stage to the next must close up with it. None of the three theorems says
that a batch is stored once: an attempt that commits and then fails is repeated. What they
say is that this concerns the one batch in doubt, that nothing is stored ahead of it, and
that after an abort no more than this one write still arrives.

### 4.3 SpoolingStorageBackendProofs: the outbox through crashes

* `TypeCorrect` (`TypeOK`), `AckedSurvives` (`AckedIsDurable`), `MarkerSafe`
  (`MarkerMeansDelivered`), `IndexAgrees` (`IndexMatchesDisk`, which says also that what
  was acknowledged can be opened, on the disk or in the cloud);
* `OutboxImplemented` - `Spec => ImplementsDurableOutbox`, step by step.

`IInv` consists of `LockInv` (one thread of `_persist` under the lock; the replay task
holds it exactly while it removes), `ProcInv` (what is in memory while there is a
process), `DiskInv` (the state of a directory is among its survivors, and a survivor
that is a marker stands for a delivered entry), `IndexInv` (entries, blocked entries and
used bytes against the directories), `ReplayInv` (the entry the replay task works on is
listed, and complete at the remote while it is removed) and `AckInv`: an acknowledged
recording is remote, or `stored` is the **only** survivor of its directory and it is
listed or about to be. `AckedIsDurable` speaks of the disk as it is; only a statement
about all survivors is kept by `Crash`, which may choose any of them. The step of the
refinement needs `ReplayInv` for the same reason: a local copy becomes worthless only
for an entry that is complete at the remote. The assumptions are that recordings are
a finite set of numbers and the bounds natural numbers.

### 4.4 WebDAVArchiveProofs: upload against clean-up

* `TypeCorrect`, `DeliveredExact` (`DeliveredIsExact`), `VisiblePlayable`
  (`VisibleIsPlayable`);
* `RemoteImplemented` - `Spec => ImplementsRemotePair`: the transaction implements
  `RemotePair`, step by step, for any number of late requests and repetitions.

Both invariants except what retention deleted (finding 3) and a part whose MOVE was
believed (finding 5); `Sound(p)` states the second exception: a final object is what was
sent, or it is there and in `torn`. `IInv` consists of `DoneIsLast` and, while retention
has deleted nothing of the recording (`Untouched`), of `NoFinalDelete` (nobody deletes a
final object, now or by a late request), `MediaFirst` (the sidecar is begun, or its MOVE
late, only when the media is `Sound`) and `Committed` (what was compared is whole, and a
done attempt has a sound sidecar). Nothing is said about the partials: a late PUT, whole
or cut, or a late DELETE may hit them at any time. A late request may be performed at any
time; that none of them can delete a final object is what makes this harmless to it, and
nothing in the code says it in one place.

The refinement needs three things more of a step: that it gives at most one object its
final name (`MovesAtMost`: a MOVE of the attempt, or a late one, moves one part), that
an object with its final name is not changed (`Overwrite: F`; no PUT writes to a final
name), and that `torn` grows only by the part that the step commits, and only by a cut
one (`TornStep`). With `MediaFirst` and `Committed` each step is then `CommitMedia`,
`CommitSidecar` (which may be the one with which the upload returns), `Return`,
`UploadAgain` or none (`Committing`).
The outbox model of 4.3 has the same order of the two commits built in (`UploadMedia`,
`UploadMetadata`, `LateCommit`); `RemotePair` states it once, and the theorem says that
`write_prepared` provides it.

### 4.5 ServiceProofs: uploads against stop()

* `TypeCorrect`, `AckedKept` (`AckedIsKept`), `AcceptedArchived`
  (`AcceptedIsArchived`), `ErrorWakes` (`ErrorWakesRetention`).

`FreeInv`: a free lock has no segment. `KeptInv`: what is acknowledged, or waits for
the archive's queue, is written, in memory or reported. `OrderInv`: `stop()` closes and
reports nothing before its turn, and nothing gets into memory afterwards. `TokenInv`:
`stop()` asks for no lock before that. `AcceptInv`: an upload that had reached its lock
is done, or holds the lock, or waits *ahead of* `stop()` in the queue. `WakeInv`: an error
that still needs a run of retention has set its event. `AcceptedIsArchived` rests on the
order of the queue, which `AcceptInv` states position by position. None of these needs
the cloud or any other fairness. The assumption is
that each camera has a natural number of segments.

### 4.6 CameraSupervisorProofs, RecorderProofs: FFmpeg, configuration, log, playlist

* `NoOrphan` (`NoneLeftOver`), `TailSealed` (`SealedBetweenLaunches`), `TermOnce`
  (`OneTerm`), from `OneHolder` (one call of `_terminate` inside its lock), `CallInv`
  (where such a call can come from), `OwedInv`, and `TermInv`, which counts the TERMs
  that a live FFmpeg can have got by the calls that were cancelled and the one under
  way. `CameraSupervisorProofs` proves the invariant; `RecorderProofs` states the
  theorems under the names the run checks. `TypeCorrect` adds that the pause stays
  within its limits and assumes `RestartMin <= RestartMax` (`config.py` 271-272).
* `NoSaveLost` - `Store!Spec => NoLostUpdate`, an action property: between comparison
  and replacement one client holds the lock (`OneSave`), and what it compared stays
  true unless an editor outside the program came (`Compared`).
* `LogComplete` - `NoLineMissing`, by `Followed`: every later line than one in a file is
  in the same file, a newer one, or in memory; a rotation keeps that between any two of its
  renames. Assumes that the number of backups is a natural
  number (`config.py` 288).
* `PlaylistCounts` - `PlaylistNumbersSegments`, by `Numbered`: from any segment to any
  later one, numbers count on by one and discontinuity numbers by the cardinality of the set of
  changes between them; and the last segment has the counters' numbers. The property
  speaks of the first segment only, and eviction makes another one the first. Assumes
  that the streams are natural numbers.
* `DurationKept` - `DurationIsAnnounced`, by `HintInv`: what was announced for a segment
  that may still be sent is hinted or its name is remembered, and one in the buffer is
  remembered. That has to survive the forgetting at both limits, hence `Spread`: no name is
  in a sequence twice, and none is a lag (for hints, a lag and a window, less one) or more
  ahead of a later one. Then only as many names as fit between the two bounds can come after
  one that is still needed (`NewestKeeps`, by cardinalities). A playlist is an induction over
  its names (`UpTo`, stated for a set; `HintedDefined` shows that the recursion has a
  solution). `BufferAssumption` says what the limits have to be: with the code's four windows
  of hints and eight windows of names, requests may lag by one and a half windows. Nothing in
  the code limits the lag: beyond it the default duration can be what is played.
* `Composition` - a behaviour of `RecorderSpec` is one of all five components with
  their fairness.

### 4.7 RecordingsProofs: local archive, listing, range reads, export

* `AckedStaysListed` - `AckedIsListed`: by `OnlyCommitted` (retention finds nothing in
  the making), `MediaWentFirst`, `CommittedKept` and `AckedSynced` (no power failure
  undoes the renames of an acknowledged batch, but for the excuses of section 2.7).
* `AnswerComplete` - `AnswerHasNoGap`: by `InCloudFirst` (what is being removed from the
  outbox is in the cloud), `CacheCovers` (a cached listing has all that the outbox does not
  have, but for what it lacked from the start) and `RequestCovers`, which says at each
  await of a request what it will find. The property is about answers only; between the look
  into the outbox and the one into the cloud the recording moves.
* `ReachListed` - `ReachedIsListed`: by `CoversHours`, which says of a cached entry what it has for
  *every* window of its hours, not for the one it was filled by. `HoursInOrder` gives the
  monotonicity of the division, also below zero, where the look back of a first hour ends.
* `RangeIsServed` (`BodyIsRange`), `WholeIsServed` (`StoredIsServed`), `SealedSize`
  (`SealedAsAnnounced`), for chunks, headers, tags, recordings and fragments of any length.
* `OneExportOnly` - `OneExport`: by `ExportInv`, which adds that the second task hears
  FFmpeg to its end (`HeardToTheEnd`): the response may release the slot because a dead
  FFmpeg and a finished feeder leave nothing else running.
* `Composition` - as above, for `RecordingsSpec`.

`BodyIsRange` and its companions are not inductive, since they say nothing about what is
half received. `RangeInv` says, at each await, which bytes each variable holds:

* `SealedInPlace`: every chunk that is finished lies, as far as the object reaches, at its
  place in the layout, however the fragments fell; `Sealing`: what is pending is the source
  from the next chunk on up to what was taken, and the object as long as it was promised;
* `ResponseInPlace`: `pending` is what is stored from chunk `index` on; the `response` goes
  on from there, or `skip` bytes before when the server ignored the range; and `remaining`
  counts what the range still needs;
* `BodyGrows`: the body is the range cut off where chunk `index` begins, and a reading that
  failed has met the end of the object before the end of the range.

The lemmas below it are about the layout: chunk offsets are multiples of the cipher's
chunk size, each chunk but the last is full, the last chunk of a range is the quotient of
its end, and what `Selected` takes of a chunk is the part of the range in it. A sequence
is always described by its length and by what is at each index, so that concatenations
and slices are facts of arithmetic and no induction over sequences is needed.

The assumptions are that each batch has an hour directory (`Directory`), that chunks,
recordings and fragments have a positive length (`RangeAssumption`; `crypto.py` 16,
`config.py`), that `Nobody` is no browser, and that an hour has a positive length and
times count from the epoch (`WindowAssumption`).

### 4.8 Forms chosen for the proofs

Nothing is proved here about a filter or a fold of a sequence, whose definitions take an
operator. `LiveBuffer` therefore takes a hint out with `RemoveFirst`, has a playlist's names as
a set and goes through them with a function (`Hinted`). `LocalArchive` therefore keeps the files that retention has listed as a set, of which
it takes the oldest, and `Service` takes `stop()`'s turn out of a lock's queue with
`WithoutToken`. `LiveBuffer.Evict` stops at an empty buffer as the code's
`while self._segments` does: without that case nothing could be said of a buffer whose
limits let nothing in.

The names of states in `ConfigStore` and `LocalArchive` are single words: the SMT backend
fails on a string with a blank. In `ServiceProofs` the types are grouped as the actions
leave variables alone (`TypeParts`), and `UploadEffect` of `SpoolingStorageBackendProofs`
says once what an upload step changes, so that each step types or preserves only what it
touches. Leaves that take the solvers longest name a limit of 30 seconds.

## 5. Only model-checked

* Liveness (`AddReturns`, `StopDrains`, `ShutdownEnds`, `AckedIsDelivered`,
  `DrainEnds`, `UploadCompletes`, `StopGoesOn`, `StopEnds`, `CameraComesBack`,
  `RetrySucceeds`, `DeliveredIsListed`, `SlotComesBack`) is out of the prover's
  reach, as is `ENABLED`.
* The findings, which are violations.

Every invariant and every action property of the passing runs that asks for no fairness is
stated by a theorem.

## 6. Findings

Shown by a run:

1. `archive_swallowed` - a failing thread replaces the cancellation of
   `write_batch`, and `abort()` waits for ever (`spool.py` 359-367).
2. `outbox_freed_disk` - a cleanup that fails, or an error that is no `OSError`,
   leaves a `.partial` that refuses every retry until restart (`spool.py` 315, 343).
3. `webdav_orphan` - `retention` deletes orphaned media after a listing made
   before; if the sidecar is committed in between, the outbox has removed the local
   copy and the recording is lost (`storage.py` 843). It takes media committed
   more than `partial_max_age_hours` ago whose sidecar failed, as after a long
   outage.
4. `archive_renamed` - a playlist that arrives between two attempts to archive a
   batch changes a duration, hence the file name, and the retry stores the footage
   a second time (`archive.py` 213, against the comment at 96-97). It takes an
   attempt that fails after the recording is in its place, such as a rename
   followed by a failing sync of the directory (`spool.py` 337-338).

Met while modelling; the models contain the behaviour. The first is the exception that
properties make for it; for the others no property asks for the opposite:

5. A MOVE that is answered with success is believed (`storage.py` 1119-1121), and all
   attempts share the partial names. When what had arrived of a PUT, cut off by the upload's
   timeout, is stored late, between the next attempt's PUT and its MOVE, the cut object gets
   the final name, the upload returns and the outbox removes the only whole copy. README.md
   426 says that a file of other content is not taken for uploaded, and the comment at 1110
   "Verify actual bytes before acknowledging the transaction"; that is done only when
   the answer was an error. In `WebDAVArchive` this is `torn`: without the exception in
   `Sound` TLC finds it. It takes a server that keeps what arrived of a broken upload and
   stores it after it accepted a later one.
6. `rotate_camera` says it does not wait for backend I/O; with a full queue it does,
   holding the ingest lock (`archive.py` 532). In `ArchiveManager`: a rotation in
   `putRotate` while the worker is writing.
7. `abort()` drains a queue and thereby wakes the producer blocked on it, which
   refills it after `abort()` is over (`archive.py` 574). `BudgetHolds` covers the
   batch that is then left.
8. Quota is reclaimed only by a 507 that is the first failure in a row (`spool.py`
   452): `UploadQuota`.
9. The backup of the configuration is a copy of what is on disk, which nothing has
   validated (`config_store.py` 107), where the docstring at 93 says "known-good".
10. Directories left by a failed attempt are not counted by `_used_bytes`, so the
   disk can hold more than `spool_max_gb` (`spool.py` 306); `IndexMatchesDisk`
   states what is counted.
11. The hours that a listing scans reach back by `archive_chunk_seconds`
    (`storage.py` 964), which bounds batches in fixed mode only, and there but for their
    last segment (`archive.py` 328): an adaptive batch of up to
    `adaptive_archive_max_seconds` that began in the hour before is missing from a window
    that begins early in an hour.
12. The key of the cache (577) has the hours of the window and not that distance, so a later
    window of the same hours fills an entry that an earlier one is answered from. In
    `ListingWindow` both are recordings that begin before `reach`, which `ReachedIsListed`
    excepts: without the exception TLC finds either in three or four steps. And the last
    hour is cut in UTC (967), which with a half-hour time zone misses the last local hour;
    this is outside the model.

The counterparts hold: without the failing cleanup 2 does not occur, and with a
backend that honours cancellation 1 is `archive_deadline`.

## 7. Not modelled, and plan

Not modelled: sessions and the API's queries of `web.py`; the status,
rates and sessions of the service; the validation in `config.py`; the XML of PROPFIND and
the limit of a listing; MKCOL, the connection check and the non-atomic
upload; the outbox's target fingerprint and a second process on its directory; the
ring of recent log lines; the audio tag in file names; `ffmpeg.py` except for what
the live buffer relies on, `onvif.py`, `discovery.py`, `security.py`, `cli.py`,
`selftest.py`, the dashboard (argument building, stateless I/O, presentation);
ciphers and HTTP libraries.

What remains worth doing:

1. The outbox of 4.3 with `RemotePair` as its remote, in place of the commits it has built
   in, so that the two refinements compose in one module.
2. Time zones with half hours in `ListingWindow`; sessions.
