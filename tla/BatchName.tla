------------------------------- MODULE BatchName ------------------------------
(***************************************************************************)
(* The name of an archive batch.  A batch holds the live buffer's segment  *)
(* objects, whose durations FFmpeg's playlists still change, and every     *)
(* attempt to archive the batch computes the name from them again.         *)
(***************************************************************************)
EXTENDS LiveBuffer

CONSTANT BatchLength \* segments that make a batch long enough to be sealed

VARIABLES
    duration,  \* [Name -> duration of the segment object; "none" when there is none]
    tail,      \* Seq of names: the camera's tail
    batches,   \* Seq of [segments, stored]: sealed; stored are the paths committed
    archived   \* history: the batches whose attempt succeeded

batchVars == <<tail, batches, archived>>
batchNameVars == <<vars, duration, batchVars>>
-----------------------------------------------------------------------------
BatchInit ==
    /\ Init
    /\ duration = [n \in Name |-> "none"]
    /\ tail = <<>> /\ batches = <<>> /\ archived = {}

\* The path's time, sequence and object id are fixed with the batch; the milliseconds
\* and the audio tag follow from the durations.
Path(batch) == [i \in DOMAIN batch.segments |-> duration[batch.segments[i]]]

\* ingest_upload with a segment, under the camera's upload lock.
ArchiveSegment(n) ==
    /\ ReceiveSegment(n)
    /\ IF Duplicate(n) THEN UNCHANGED <<duration, tail, batches>>
       ELSE LET longer == Append(tail, n)
                full == Len(longer) = BatchLength
            IN  /\ duration' = [duration EXCEPT ![n] = IF n \in ToSet(hints)
                                                       THEN "own" ELSE "default"]
                /\ tail' = IF full THEN <<>> ELSE longer
                /\ batches' = IF full THEN Append(batches, [segments |-> longer, stored |-> {}])
                              ELSE batches
    /\ UNCHANGED archived

\* ingest_upload with a playlist: the objects in the buffer change.
Announce(n) ==
    /\ ReceivePlaylist(n)
    /\ duration' = [m \in Name |-> IF m \in Listed(n) /\ InBuffer(m)
                                   THEN "own" ELSE duration[m]]
    /\ UNCHANGED batchVars

\* The worker's attempt on the oldest batch: it fails, before or after the entry is in
\* its place, and is repeated; or it succeeds.
Attempt ==
    /\ batches # <<>>
    /\ LET batch == Head(batches)
           stored == batch.stored \cup {Path(batch)}
       IN  \/ /\ batches' = <<[batch EXCEPT !.stored = stored]>> \o Tail(batches)
              /\ UNCHANGED archived
           \/ /\ batches' = Tail(batches)
              /\ archived' = archived \cup {[batch EXCEPT !.stored = stored]}
    /\ UNCHANGED <<vars, duration, tail>>

BatchNext ==
    \/ (Make \/ Lost) /\ UNCHANGED <<duration, batchVars>>
    \/ \E n \in Name : ArchiveSegment(n) \/ Announce(n)
    \/ Attempt

BatchSpec == BatchInit /\ [][BatchNext]_batchNameVars
-----------------------------------------------------------------------------
\* archive.py:96: what identifies a batch is "stable across retries, so a timeout after a
\* successful remote commit does not create a second object under a different name".
OneNamePerBatch ==
    \A batch \in ToSet(batches) \cup archived : Cardinality(batch.stored) <= 1
=============================================================================
