------------------------------- MODULE LogFile --------------------------------
(***************************************************************************)
(* The buffered log file: lines wait in memory, are appended in batches,   *)
(* and the file is rotated before an append that would make it too large.  *)
(* Every call on the disk may fail.  A handler's lock covers emit(),       *)
(* flush() and close(), so that each of them is one action.                *)
(***************************************************************************)
EXTENDS Naturals, Sequences, SequencesExt, FiniteSetsExt

CONSTANTS
    BatchRecords, \* batch_records
    MaxBytes,     \* max_bytes, in lines
    BackupCount,  \* backup_count
    MaxLines      \* bound: lines logged

VARIABLES
    logged,  \* lines logged so far; a line is its number
    pending, \* Seq: _pending
    files,   \* [0..BackupCount -> Seq] the file and its backups; <<>> is no file
    left     \* history: pending was given up by close() or a crash

vars == <<logged, pending, files, left>>

File == 0 \* the path itself, without a suffix
-----------------------------------------------------------------------------
Init ==
    /\ logged = 0 /\ pending = <<>> /\ left = {}
    /\ files = [i \in 0..BackupCount |-> <<>>]

\* _rotate_if_needed from the oldest, which is deleted, down to number d: each file
\* has taken the place of the one above it.
Shifted(d) ==
    [i \in 0..BackupCount |-> IF i > d THEN files[i - 1] ELSE IF i = d THEN <<>> ELSE files[i]]

TooLarge(lines) == files[File] # <<>> /\ Len(files[File]) + Len(lines) > MaxBytes

Rotated(lines) == IF TooLarge(lines) THEN Shifted(File) ELSE files

Written(lines, n) == [Rotated(lines) EXCEPT ![File] = @ \o SubSeq(lines, 1, n)]

\* Fault: what could not be written is not kept.
ForgetOnFailure(lines) ==
    /\ \E n \in 0..Len(lines) : files' = Written(lines, n)
    /\ pending' = <<>>

\* An OSError: while it rotates, or in the append, which may have written a part.
FlushFails(lines) ==
    /\ \/ TooLarge(lines) /\ \E d \in 1..BackupCount + 1 : files' = Shifted(d)
       \/ \E n \in 0..Len(lines) : files' = Written(lines, n)
    /\ pending' = lines

FlushSucceeds(lines) ==
    /\ files' = Written(lines, Len(lines))
    /\ pending' = <<>>

\* flush(), of emit(), of the flush thread or of close().
Flush(lines) == FlushSucceeds(lines) \/ FlushFails(lines)

\* emit(): a full batch or an error is flushed at once.
Emit ==
    /\ logged < MaxLines
    /\ logged' = logged + 1
    /\ LET lines == Append(pending, logged')
       IN  \/ Flush(lines)
           \/ Len(lines) < BatchRecords /\ pending' = lines /\ UNCHANGED files
    /\ UNCHANGED left

TimedFlush ==
    /\ pending # <<>>
    /\ Flush(pending)
    /\ UNCHANGED <<logged, left>>

\* close() with a last flush that failed, or a crash; another handler starts on the
\* same files.
Restart ==
    /\ pending' = <<>>
    /\ left' = left \cup ToSet(pending)
    /\ UNCHANGED <<logged, files>>

Next == Emit \/ TimedFlush \/ Restart

Spec == Init /\ [][Next]_vars
-----------------------------------------------------------------------------
OnDisk == UNION {ToSet(files[i]) : i \in 0..BackupCount}

\* The log forgets from its oldest end only: with a line, every later one is in the
\* files or still pending, wherever a rotation or an append has failed, except those
\* that waited in memory when the process ended.
NoLineMissing ==
    \A l \in OnDisk : (l + 1)..logged \subseteq OnDisk \cup ToSet(pending) \cup left
=============================================================================
