----------------------------- MODULE LocalArchive -----------------------------
(***************************************************************************)
(* The local archive, with fsync: the thread that writes one camera's      *)
(* batches, each as a media file and a sidecar that makes it visible, and  *)
(* the thread that runs retention over the same directories.  Every call   *)
(* on the disk may fail; the process may crash, and the power may fail.    *)
(***************************************************************************)
EXTENDS Naturals, Sequences, FiniteSets, FiniteSetsExt

CONSTANTS
    Directory \* Seq: the hour directory of batch n

Batch == DOMAIN Directory

ASSUME ConstantsAssumption == Directory \in Seq(Nat)

VARIABLES
    batch,     \* the batch in hand or to come
    step,      \* where write_archive_batch is; "none" before there is a batch
    final,     \* [Batch -> SUBSET File] the files under their final names
    partial,   \* [Batch -> SUBSET File] the hidden .partial files
    dirs,      \* directories that exist
    young,     \* those of them a power failure may take
    unsynced,  \* batches whose renames a power failure may undo
    retention, \* [step, files, goal, parents] where apply_retention is
    acked,     \* batches whose record was returned
    deleted,   \* history: batches retention deleted
    excused    \* history: batches the disk lost though it was asked to keep them

writerVars == <<batch, step>>
diskVars == <<final, partial, dirs, young, unsynced>>
historyVars == <<acked, deleted, excused>>
vars == <<writerVars, diskVars, retention, historyVars>>

File == {"media", "sidecar"}

Resting == [step |-> "resting", files |-> {}, goal |-> 0, parents |-> {}]
-----------------------------------------------------------------------------
Init ==
    /\ batch = 1 /\ step = "none"
    /\ final = [b \in Batch |-> {}] /\ partial = [b \in Batch |-> {}]
    /\ dirs = {} /\ young = {} /\ unsynced = {}
    /\ retention = Resting
    /\ acked = {} /\ deleted = {} /\ excused = {}

\* scan_archive_records.
Listed(b) == final[b] = File
-----------------------------------------------------------------------------
(* write_archive_batch, one disk operation at a time.                      *)

At(s) == batch \in Batch /\ step = s
Goes(s) == step' = s /\ UNCHANGED batch

InDirectory == Directory[batch] \in dirs

\* The worker takes the next batch.
Take ==
    /\ At("none")
    /\ Goes("idle")
    /\ UNCHANGED <<diskVars, retention, historyVars>>

MakeDirectory ==
    /\ At("idle")
    /\ Goes("made")
    /\ dirs' = dirs \cup {Directory[batch]}
    /\ young' = young \cup (dirs' \ dirs)
    /\ UNCHANGED <<final, partial, unsynced, retention, historyVars>>

\* Fault: what an earlier attempt left is not removed.
Untidied ==
    /\ At("made")
    /\ Goes("tidy")
    /\ UNCHANGED <<diskVars, retention, historyVars>>

\* The partial files of an earlier attempt go, and its media, which has no sidecar.
\* (Both final files would be its success; an attempt fails only before the second.)
Tidy ==
    /\ At("made")
    /\ Goes("tidy")
    /\ partial' = [partial EXCEPT ![batch] = {}]
    /\ final' = [final EXCEPT ![batch] = @ \ {"media"}]
    /\ UNCHANGED <<dirs, young, unsynced, retention, historyVars>>

\* open("x"), the content and fsync.
Create(f, from, to) ==
    /\ At(from) /\ InDirectory /\ f \notin partial[batch]
    /\ Goes(to)
    /\ partial' = [partial EXCEPT ![batch] = @ \cup {f}]
    /\ UNCHANGED <<final, dirs, young, unsynced, retention, historyVars>>

WriteMedia == Create("media", "tidy", "mediaWritten")
WriteSidecar == Create("sidecar", "mediaWritten", "written")

\* os.replace.
Rename(f, from, to) ==
    /\ At(from)
    /\ Goes(to)
    /\ partial' = [partial EXCEPT ![batch] = @ \ {f}]
    /\ final' = [final EXCEPT ![batch] = @ \cup {f}]
    /\ unsynced' = unsynced \cup {batch}
    /\ UNCHANGED <<dirs, young, retention, historyVars>>

CommitMedia == Rename("media", "written", "mediaCommitted")
CommitSidecar == Rename("sidecar", "mediaCommitted", "committed")

\* Fault: the directory is not synced.
NotSynced ==
    /\ At("committed")
    /\ Goes("synced")
    /\ UNCHANGED <<diskVars, retention, historyVars>>

\* _best_effort_fsync_directory hides its errors.
SyncDirectory ==
    /\ At("committed")
    /\ Goes("synced")
    /\ \/ unsynced' = unsynced \ {b \in Batch : Directory[b] = Directory[batch]} /\ UNCHANGED excused
       \/ excused' = excused \cup {batch} /\ UNCHANGED unsynced
    /\ UNCHANGED <<final, partial, dirs, young, retention, acked, deleted>>

Return ==
    /\ At("synced")
    /\ batch' = batch + 1 /\ step' = "none"
    /\ acked' = acked \cup {batch}
    /\ UNCHANGED <<diskVars, retention, deleted, excused>>

\* The file an open() may have made before it failed.
Begun == IF ~InDirectory THEN {}
         ELSE IF step = "tidy" THEN {"media"}
         ELSE IF step = "mediaWritten" THEN {"sidecar"} ELSE {}

Cleaned(n) == IF n = 0 THEN {} ELSE IF n = 1 THEN {"media"} ELSE File

\* An OSError.  The except clause removes the partial files and then the media, and
\* may itself fail before each of them.  The worker tries the batch again.
Fail ==
    /\ \E s \in {"idle", "made", "tidy", "mediaWritten", "written", "mediaCommitted"} : At(s)
    /\ Goes("idle")
    /\ \E n \in IF step = "idle" THEN {0} ELSE 0..3, begun \in SUBSET Begun :
          /\ partial' = [partial EXCEPT ![batch] = (@ \cup begun) \ Cleaned(n)]
          /\ final' = IF n = 3 THEN [final EXCEPT ![batch] = {}] ELSE final
    /\ UNCHANGED <<dirs, young, unsynced, retention, historyVars>>

Write == \/ MakeDirectory \/ Tidy \/ WriteMedia \/ WriteSidecar
         \/ CommitMedia \/ CommitSidecar \/ SyncDirectory \/ Return
-----------------------------------------------------------------------------
(* apply_retention.  How much it deletes, by age, size or free space, is   *)
(* its goal; the files of one camera are as old as their batches.          *)

Managed == {b \in Batch : Listed(b)}

\* Partial files older than partial_max_age_hours go first: never those in hand.
RetentionStarts ==
    /\ retention = Resting
    /\ \E goal \in 1..Cardinality(Managed) :
          retention' = [step |-> "media", files |-> Managed, goal |-> goal, parents |-> {}]
    /\ \E stale \in SUBSET (Batch \ {batch}) :
          partial' = [b \in Batch |-> IF b \in stale THEN {} ELSE partial[b]]
    /\ UNCHANGED <<writerVars, final, dirs, young, unsynced, historyVars>>

\* Oldest first.
Candidate == Min(retention.files)

Deleting(s) ==
    /\ retention.step = s
    /\ retention.goal > 0 /\ retention.files # {}

Unlink(f) == final' = [final EXCEPT ![Candidate] = @ \ {f}]

\* _delete_media: an error here is no deletion, and the next older file has its turn.
DeleteMedia ==
    /\ Deleting("media")
    /\ \/ /\ Unlink("media")
          /\ retention' = [retention EXCEPT !.step = "sidecar"]
          /\ deleted' = deleted \cup {Candidate}
       \/ /\ retention' = [retention EXCEPT !.files = @ \ {Candidate}]
          /\ UNCHANGED <<final, deleted>>
    /\ UNCHANGED <<writerVars, partial, dirs, young, unsynced, acked, excused>>

\* An error leaves the sidecar, which no later run finds.
DeleteSidecar ==
    /\ Deleting("sidecar")
    /\ Unlink("sidecar") \/ UNCHANGED final
    /\ retention' = [step |-> "media", files |-> retention.files \ {Candidate},
                     goal |-> retention.goal - 1,
                     parents |-> retention.parents \cup {Directory[Candidate]}]
    /\ UNCHANGED <<writerVars, partial, dirs, young, unsynced, historyVars>>

Empty(d) == \A b \in Batch : Directory[b] = d => final[b] \cup partial[b] = {}

\* _prune_empty_parents: rmdir of what is empty at that moment.
Prune ==
    /\ retention.step = "media"
    /\ retention.goal = 0 \/ retention.files = {}
    /\ LET pruned == {d \in retention.parents : Empty(d)}
       IN  dirs' = dirs \ pruned /\ young' = young \ pruned
    /\ retention' = Resting
    /\ UNCHANGED <<writerVars, final, partial, unsynced, historyVars>>

Retention == RetentionStarts \/ DeleteMedia \/ DeleteSidecar \/ Prune
-----------------------------------------------------------------------------
\* The kernel writes back what nobody synced.
WriteBack ==
    /\ \/ \E d \in young : young' = young \ {d} /\ UNCHANGED unsynced
       \/ \E b \in unsynced : unsynced' = unsynced \ {b} /\ UNCHANGED young
    /\ UNCHANGED <<writerVars, final, partial, dirs, retention, historyVars>>

\* Both threads end, and the batch in hand was only in memory.
ProcessEnds ==
    /\ batch \in Batch
    /\ batch' = batch + 1 /\ step' = "none"
    /\ retention' = Resting

Crash ==
    /\ ProcessEnds
    /\ UNCHANGED <<diskVars, historyVars>>

\* A directory is lost with all in it if its own entry was never synced, which the
\* archive does not do; of a batch whose directory was not synced, any rename.
PowerFails ==
    /\ ProcessEnds
    /\ young' = {} /\ unsynced' = {}
    /\ \E lost \in SUBSET young, undone \in [unsynced -> SUBSET File] :
          LET Lost(b) == Directory[b] \in lost
              Undone(b) == IF b \in unsynced THEN final[b] \cap undone[b] ELSE {}
          IN  /\ dirs' = dirs \ lost
              /\ final' = [b \in Batch |-> IF Lost(b) THEN {} ELSE final[b] \ Undone(b)]
              /\ partial' = [b \in Batch |-> IF Lost(b) THEN {} ELSE partial[b] \cup Undone(b)]
              /\ excused' = excused \cup {b \in Batch : Lost(b)}
    /\ UNCHANGED <<acked, deleted>>

Next == Take \/ Write \/ Fail \/ Retention \/ WriteBack \/ Crash \/ PowerFails

\* An attempt ends, the worker tries again for ever, and from some time on the disk
\* refuses only what cannot be done: a file in a directory that is gone, or one that
\* is in the way.
DiskRecovers ==
    /\ WF_vars(Write \/ Fail)
    /\ <>[][Fail => ~ENABLED Write]_vars

Spec == Init /\ [][Next]_vars /\ DiskRecovers
-----------------------------------------------------------------------------
\* A recording whose record was returned is listed until retention deletes it, through
\* failed attempts, crashes, power failures and concurrent retention; what the disk may
\* still lose is a hidden error of the last sync, or an hour directory whose own entry
\* nobody synced.
AckedIsListed == \A b \in acked : Listed(b) \/ b \in deleted \cup excused

\* A batch the worker has taken is written or its process ends: nothing an attempt
\* leaves behind, and no directory pruned under it, blocks the next attempt for ever.
RetrySucceeds ==
    \A b \in Batch : (batch = b /\ step # "none") ~> (batch # b)
=============================================================================
