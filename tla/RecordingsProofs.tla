--------------------------- MODULE RecordingsProofs ---------------------------
(***************************************************************************)
(* Theorems about what becomes of a recording: that the local archive      *)
(* keeps it listed, that no listing misses it on its way to the cloud, and *)
(* that a player gets the bytes of it that it asked for.  The components   *)
(* share no state.                                                         *)
(***************************************************************************)
EXTENDS Recordings, Integers, WellFoundedInduction, SequenceTheorems, TLAPS

USE DEF vars, writerVars, diskVars, historyVars, Listing!vars, Listing!storeVars
-----------------------------------------------------------------------------
(* The local archive.                                                      *)

ArchiveType ==
    /\ batch \in Nat
    /\ final \in [Batch -> SUBSET File]
    /\ retention \in [step : {"resting", "media", "sidecar"}, files : SUBSET Batch,
                      goal : Int, parents : SUBSET Nat]
    /\ acked \subseteq Batch

\* The batches that write_archive_batch has brought to their final names.
Committed(b) == b < batch \/ (b = batch /\ step \in {"committed", "synced"})

\* What is visible, and so what retention may have found, is no batch in the making.
OnlyCommitted ==
    /\ \A b \in Batch : "sidecar" \in final[b] => Committed(b)
    /\ \A b \in retention.files : Committed(b)
    /\ \A b \in acked : b < batch

\* retention removes a sidecar only after it has deleted the media.
MediaWentFirst ==
    retention.step = "sidecar" => retention.files # {} /\ Candidate \in deleted

Kept(b) == Listed(b) \/ b \in deleted \cup excused

\* What was committed is kept; before that, the media waits for its sidecar.
CommittedKept ==
    /\ \A b \in acked : Kept(b)
    /\ batch \in Batch /\ step \in {"committed", "synced"} => Kept(batch)
    /\ batch \in Batch /\ step = "mediaCommitted" => "media" \in final[batch]

\* No power failure undoes the renames of what was acknowledged.
AckedSynced ==
    /\ \A b \in acked : b \in unsynced => b \in excused
    /\ step = "synced" /\ batch \in unsynced => batch \in excused

ArchiveInv ==
    /\ ArchiveType /\ OnlyCommitted /\ MediaWentFirst /\ CommittedKept /\ AckedSynced

\* retention's candidate is one of its files.
LEMMA OldestIsOne ==
  ASSUME NEW S, S \subseteq Nat, S # {}
  PROVE  Min(S) \in S
<1>. DEFINE R == OpToRel(<, Nat)
<1>1. PICK e \in S : \A f \in S : <<f, e>> \notin R
  BY NatLessThanWellFounded, WFMin
<1>2. ASSUME NEW f \in S PROVE e <= f
  <2>1. f < e => <<f, e>> \in R
    BY Zenon DEF OpToRel
  <2>2. ~(f < e)
    BY <1>1, <2>1
  <2>. HIDE DEF R
  <2>. QED
    BY <2>2
<1>. QED
  BY <1>2 DEF Min

\* Batches are numbers.
LEMMA BatchNumbers == Batch \subseteq Nat
  BY ConstantsAssumption DEF Batch

\* The batch in hand is not acknowledged.
LEMMA AckedBefore == ArchiveInv => \A b \in acked : b \in Batch /\ b # batch
  BY DEF ArchiveInv, ArchiveType, OnlyCommitted

\* It holds in an empty archive.
LEMMA ArchiveStarts == Init => ArchiveInv
  BY DEF Init, Resting, ArchiveInv, ArchiveType, OnlyCommitted, MediaWentFirst, CommittedKept,
         AckedSynced

\* Steps of the writer before the media has its final name touch nobody else's batch.
LEMMA PreparationStep ==
  ASSUME ArchiveInv, Take \/ MakeDirectory \/ Tidy \/ WriteMedia \/ WriteSidecar
  PROVE  ArchiveInv'
<1>1. /\ batch \in Batch /\ step \notin {"committed", "synced", "mediaCommitted"}
      /\ step' \in {"idle", "made", "tidy", "mediaWritten", "written"}
      /\ UNCHANGED <<batch, unsynced, retention, acked, deleted, excused>>
  BY DEF Take, MakeDirectory, Tidy, WriteMedia, WriteSidecar, Create, At, Goes
<1>2. final' = final \/ final' = [final EXCEPT ![batch] = @ \ {"media"}]
  BY DEF Take, MakeDirectory, Tidy, WriteMedia, WriteSidecar, Create
<1>3. /\ final' \in [Batch -> SUBSET File]
      /\ \A b \in Batch : final'[b] \subseteq final[b] /\ (b # batch => final'[b] = final[b])
  BY <1>2 DEF ArchiveInv, ArchiveType
<1>4. ArchiveType'
  BY <1>1, <1>3 DEF ArchiveInv, ArchiveType
<1>5. OnlyCommitted'
  BY <1>1, <1>3 DEF ArchiveInv, ArchiveType, OnlyCommitted, Committed
<1>6. CommittedKept'
  <2>1. \A b \in acked : final'[b] = final[b]
    BY <1>3, AckedBefore
  <2>. QED
    BY <1>1, <2>1 DEF ArchiveInv, CommittedKept, Kept, Listed
<1>7. MediaWentFirst' /\ AckedSynced'
  BY <1>1 DEF ArchiveInv, MediaWentFirst, AckedSynced, Candidate
<1>. QED
  BY <1>4, <1>5, <1>6, <1>7 DEF ArchiveInv

\* So does an attempt that fails: it fails before the sidecar has its final name.
LEMMA FailStep ==
  ASSUME ArchiveInv, Fail
  PROVE  ArchiveInv'
<1>1. /\ batch \in Batch /\ step' = "idle"
      /\ step \in {"idle", "made", "tidy", "mediaWritten", "written", "mediaCommitted"}
      /\ UNCHANGED <<batch, unsynced, retention, acked, deleted, excused>>
  BY DEF Fail, At, Goes
<1>2. final' = final \/ final' = [final EXCEPT ![batch] = {}]
  BY DEF Fail
<1>3. /\ final' \in [Batch -> SUBSET File]
      /\ \A b \in Batch : final'[b] \subseteq final[b] /\ (b # batch => final'[b] = final[b])
  BY <1>2 DEF ArchiveInv, ArchiveType
<1>4. ArchiveType'
  BY <1>1, <1>3 DEF ArchiveInv, ArchiveType
<1>5. OnlyCommitted'
  BY <1>1, <1>3 DEF ArchiveInv, ArchiveType, OnlyCommitted, Committed
<1>6. CommittedKept'
  <2>1. \A b \in acked : final'[b] = final[b]
    BY <1>3, AckedBefore
  <2>. QED
    BY <1>1, <2>1 DEF ArchiveInv, CommittedKept, Kept, Listed
<1>7. MediaWentFirst' /\ AckedSynced'
  BY <1>1 DEF ArchiveInv, MediaWentFirst, AckedSynced, Candidate
<1>. QED
  BY <1>4, <1>5, <1>6, <1>7 DEF ArchiveInv

\* The two renames make the batch visible, which it was not.
LEMMA CommitStep ==
  ASSUME ArchiveInv, CommitMedia \/ CommitSidecar
  PROVE  ArchiveInv'
<1>1. /\ batch \in Batch /\ UNCHANGED <<batch, retention, acked, deleted, excused>>
      /\ unsynced' = unsynced \cup {batch}
  BY DEF CommitMedia, CommitSidecar, Rename, At, Goes
<1>2. \/ /\ step = "written" /\ step' = "mediaCommitted"
         /\ final' = [final EXCEPT ![batch] = @ \cup {"media"}]
      \/ /\ step = "mediaCommitted" /\ step' = "committed"
         /\ final' = [final EXCEPT ![batch] = @ \cup {"sidecar"}]
  BY DEF CommitMedia, CommitSidecar, Rename, At, Goes
<1>3. /\ final' \in [Batch -> SUBSET File]
      /\ \A b \in Batch : b # batch => final'[b] = final[b]
  BY <1>2 DEF ArchiveInv, ArchiveType, File
<1>4. \/ /\ step = "written" /\ step' = "mediaCommitted"
         /\ final'[batch] = final[batch] \cup {"media"}
      \/ /\ step = "mediaCommitted" /\ step' = "committed"
         /\ final'[batch] = final[batch] \cup {"sidecar"}
  BY <1>1, <1>2 DEF ArchiveInv, ArchiveType
<1>5. ArchiveType'
  BY <1>1, <1>3 DEF ArchiveInv, ArchiveType
<1>6. OnlyCommitted'
  <2>1. \A b \in Batch : "sidecar" \in final'[b] => "sidecar" \in final[b]
                                \/ (b = batch /\ step' \in {"committed", "synced"})
    <3>1. "sidecar" \in final'[batch] => "sidecar" \in final[batch] \/ step' = "committed"
      <4>1. CASE final'[batch] = final[batch] \cup {"media"}
        BY <4>1
      <4>2. CASE step' = "committed"
        BY <4>2
      <4>. QED
        BY <1>4, <4>1, <4>2
    <3>. QED
      BY <1>3, <3>1
  <2>. QED
    BY <1>1, <1>2, <2>1 DEF ArchiveInv, OnlyCommitted, Committed
<1>7. CommittedKept'
  <2>1. \A b \in acked : b \in Batch /\ b # batch
    BY AckedBefore
  <2>2. (\A b \in acked : Kept(b))'
    BY <1>1, <1>3, <2>1 DEF ArchiveInv, CommittedKept, Kept, Listed
  <2>3. step' = "committed" => final'[batch] = File
    BY <1>1, <1>3, <1>4 DEF ArchiveInv, CommittedKept, File
  <2>. QED
    BY <1>1, <1>4, <2>2, <2>3 DEF CommittedKept, Kept, Listed
<1>8. MediaWentFirst'
  BY <1>1 DEF ArchiveInv, MediaWentFirst, Candidate
<1>9. AckedSynced'
  BY <1>1, <1>4, AckedBefore DEF ArchiveInv, AckedSynced
<1>. QED
  BY <1>5, <1>6, <1>7, <1>8, <1>9 DEF ArchiveInv

\* The sync of the directory, whose error is hidden, and the acknowledgement.
LEMMA AcknowledgeStep ==
  ASSUME ArchiveInv, SyncDirectory \/ Return
  PROVE  ArchiveInv'
<1>1. CASE SyncDirectory
  <2>1. /\ batch \in Batch /\ step = "committed" /\ step' = "synced"
        /\ UNCHANGED <<batch, final, retention, acked, deleted>>
    BY <1>1 DEF SyncDirectory, At, Goes
  <2>2. /\ unsynced' \subseteq unsynced /\ excused \subseteq excused'
        /\ batch \in unsynced' => batch \in excused'
    BY <1>1, <2>1 DEF SyncDirectory
  <2>. QED
    BY <2>1, <2>2 DEF ArchiveInv, ArchiveType, OnlyCommitted, Committed, MediaWentFirst, Candidate,
                      CommittedKept, Kept, Listed, AckedSynced
<1>2. CASE Return
  <2>1. /\ batch \in Batch /\ step = "synced" /\ batch' = batch + 1 /\ step' = "none"
        /\ acked' = acked \cup {batch}
        /\ UNCHANGED <<final, retention, deleted, unsynced, excused>>
    BY <1>2 DEF Return, At
  <2>2. batch < batch' /\ \A b \in Batch : Committed(b) => b < batch'
    BY <2>1, BatchNumbers DEF ArchiveInv, ArchiveType, Committed
  <2>4. ArchiveType' /\ MediaWentFirst'
    BY <2>1 DEF ArchiveInv, ArchiveType, MediaWentFirst, Candidate
  <2>5. OnlyCommitted'
    BY <2>1, <2>2, AckedBefore, BatchNumbers
       DEF ArchiveInv, ArchiveType, OnlyCommitted, Committed
  <2>6. CommittedKept' /\ AckedSynced'
    BY <2>1 DEF ArchiveInv, CommittedKept, Kept, Listed, AckedSynced
  <2>. QED
    BY <2>4, <2>5, <2>6 DEF ArchiveInv
<1>. QED
  BY <1>1, <1>2

\* retention starts with what it sees, and deletes media before sidecars.
LEMMA RetentionStep ==
  ASSUME ArchiveInv, Retention
  PROVE  ArchiveInv'
<1>1. UNCHANGED <<batch, step, unsynced, acked, excused>>
  BY DEF Retention, RetentionStarts, DeleteMedia, DeleteSidecar, Prune
<1>2. CASE RetentionStarts \/ Prune
  <2>1. UNCHANGED <<final, deleted>>
    BY <1>2 DEF RetentionStarts, Prune
  <2>2. /\ retention' \in [step : {"resting", "media", "sidecar"}, files : SUBSET Batch,
                           goal : Int, parents : SUBSET Nat]
        /\ retention'.step # "sidecar"
        /\ retention'.files \subseteq {b \in Batch : Listed(b)}
    <3>1. CASE RetentionStarts
      <4>1. PICK goal \in Int :
               retention' = [step |-> "media", files |-> Managed, goal |-> goal, parents |-> {}]
        BY <3>1 DEF RetentionStarts
      <4>2. Managed \subseteq {b \in Batch : Listed(b)}
        BY DEF Managed
      <4>. QED
        BY <4>1, <4>2
    <3>2. CASE Prune
      BY <3>2 DEF Prune, Resting
    <3>. QED
      BY <1>2, <3>1, <3>2
  <2>3. OnlyCommitted'
    BY <1>1, <2>1, <2>2 DEF ArchiveInv, OnlyCommitted, Committed, Listed, File
  <2>4. ArchiveType'
    BY <1>1, <2>1, <2>2 DEF ArchiveInv, ArchiveType
  <2>5. CommittedKept' /\ AckedSynced' /\ MediaWentFirst'
    BY <1>1, <2>1, <2>2 DEF ArchiveInv, CommittedKept, Kept, Listed, AckedSynced, MediaWentFirst
  <2>. QED
    BY <2>3, <2>4, <2>5 DEF ArchiveInv
<1>3. CASE DeleteMedia \/ DeleteSidecar
  <2>. DEFINE k == Candidate
  <2>1. retention.files # {} /\ k \in retention.files
    <3>1. retention.files # {} /\ retention.files \subseteq Nat
      BY <1>3, BatchNumbers DEF DeleteMedia, DeleteSidecar, Deleting, ArchiveInv, ArchiveType
    <3>. QED
      BY <3>1, OldestIsOne DEF Candidate
  <2>2. k \in Batch /\ Committed(k)
    BY <2>1 DEF ArchiveInv, ArchiveType, OnlyCommitted
  <2>3. /\ final' \in [Batch -> SUBSET File]
        /\ \A b \in Batch : final'[b] \subseteq final[b] /\ (final'[b] = final[b] \/ b = k)
        /\ k \in deleted' \/ final' = final
        /\ deleted \subseteq deleted'
        /\ retention' \in [step : {"resting", "media", "sidecar"}, files : SUBSET Batch,
                           goal : Int, parents : SUBSET Nat]
        /\ retention'.files \subseteq retention.files
        /\ retention'.step = "sidecar" => retention'.files = retention.files /\ k \in deleted'
    <3>1. CASE /\ Unlink("media")
               /\ retention' = [retention EXCEPT !.step = "sidecar"]
               /\ deleted' = deleted \cup {k}
      BY <2>2, <3>1 DEF Unlink, File, ArchiveInv, ArchiveType
    <3>2. CASE /\ retention.step = "media"
               /\ retention' = [retention EXCEPT !.files = @ \ {k}]
               /\ UNCHANGED <<final, deleted>>
      BY <3>2 DEF ArchiveInv, ArchiveType
    <3>3. CASE DeleteSidecar
      <4>1. k \in deleted /\ deleted' = deleted
        BY <3>3 DEF DeleteSidecar, Deleting, ArchiveInv, MediaWentFirst
      <4>2. Unlink("sidecar") \/ final' = final
        BY <3>3 DEF DeleteSidecar
      <4>3. retention' = [step |-> "media", files |-> retention.files \ {k},
                          goal |-> retention.goal - 1,
                          parents |-> retention.parents \cup {Directory[k]}]
        BY <3>3 DEF DeleteSidecar
      <4>4. Directory[k] \in Nat
        BY <2>2, ConstantsAssumption DEF Batch
      <4>5. /\ retention' \in [step : {"resting", "media", "sidecar"}, files : SUBSET Batch,
                               goal : Int, parents : SUBSET Nat]
            /\ retention'.files \subseteq retention.files /\ retention'.step = "media"
        BY <4>3, <4>4 DEF ArchiveInv, ArchiveType
      <4>6. /\ final' \in [Batch -> SUBSET File]
            /\ \A b \in Batch : final'[b] \subseteq final[b] /\ (final'[b] = final[b] \/ b = k)
        BY <2>2, <4>2 DEF Unlink, File, ArchiveInv, ArchiveType
      <4>. QED
        BY <4>1, <4>5, <4>6
    <3>4. CASE DeleteMedia
      BY <3>1, <3>2, <3>4 DEF DeleteMedia, Deleting
    <3>. QED
      BY <1>3, <3>3, <3>4
  <2>4. ArchiveType' /\ OnlyCommitted'
    BY <1>1, <2>3 DEF ArchiveInv, ArchiveType, OnlyCommitted, Committed
  <2>5. MediaWentFirst'
    BY <2>1, <2>3 DEF MediaWentFirst, Candidate
  <2>6. CommittedKept'
    <3>1. \A b \in Batch : Kept(b) => Kept(b)'
      BY <1>1, <2>3 DEF Kept, Listed
    <3>2. step = "mediaCommitted" /\ batch \in Batch => batch # k
      <4>1. k < batch \/ step \in {"committed", "synced"}
        BY <2>2 DEF Committed
      <4>2. batch \in Nat
        BY DEF ArchiveInv, ArchiveType
      <4>3. ~(batch < batch)
        BY <4>2
      <4>. HIDE DEF k
      <4>. QED
        BY <4>1, <4>3, Zenon
    <3>3. step = "mediaCommitted" /\ batch \in Batch => final'[batch] = final[batch]
      BY <2>3, <3>2
    <3>. QED
      BY <1>1, <3>1, <3>3, AckedBefore DEF ArchiveInv, CommittedKept, Kept, Listed
  <2>7. AckedSynced'
    BY <1>1 DEF ArchiveInv, AckedSynced
  <2>. QED
    BY <2>4, <2>5, <2>6, <2>7 DEF ArchiveInv
<1>. QED
  BY <1>2, <1>3 DEF Retention

\* The process ends, and the next batch is another one.
LEMMA CrashStep ==
  ASSUME ArchiveInv, Crash \/ PowerFails
  PROVE  ArchiveInv'
<1>1. /\ batch \in Batch /\ batch' = batch + 1 /\ step' = "none" /\ retention' = Resting
      /\ UNCHANGED <<acked, deleted>>
  BY DEF Crash, PowerFails, ProcessEnds
<1>2. /\ excused \subseteq excused' /\ final' \in [Batch -> SUBSET File]
      /\ \A b \in Batch : final'[b] \subseteq final[b]
      /\ \A b \in Batch : final'[b] = final[b] \/ b \in unsynced \/ b \in excused'
      /\ unsynced' \subseteq unsynced
  <2>1. CASE Crash
    BY <2>1 DEF Crash, ArchiveInv, ArchiveType
  <2>2. CASE PowerFails
    <3>1. PICK lost \in SUBSET young, undone \in [unsynced -> SUBSET File] :
             /\ final' = [b \in Batch |->
                             IF Directory[b] \in lost THEN {}
                             ELSE final[b] \
                                     (IF b \in unsynced THEN final[b] \cap undone[b] ELSE {})]
             /\ excused' = excused \cup {b \in Batch : Directory[b] \in lost}
             /\ unsynced' = {}
      BY <2>2 DEF PowerFails
    <3>2. \A b \in Batch : final[b] \subseteq File
      BY DEF ArchiveInv, ArchiveType
    <3>3. \A b \in Batch : final'[b] \subseteq final[b]
      BY <3>1
    <3>4. final' \in [Batch -> SUBSET File]
      BY <3>1, <3>2, <3>3
    <3>5. \A b \in Batch : final'[b] = final[b] \/ b \in unsynced \/ b \in excused'
      BY <3>1
    <3>. QED
      BY <3>1, <3>3, <3>4, <3>5
  <2>. QED
    BY <2>1, <2>2
<1>3. batch' \in Nat /\ batch < batch' /\ \A b \in Batch : Committed(b) => b < batch'
  BY <1>1, BatchNumbers DEF ArchiveInv, ArchiveType, Committed
<1>4. ArchiveType'
  BY <1>1, <1>2, <1>3 DEF ArchiveInv, ArchiveType, Resting
<1>5. OnlyCommitted'
  BY <1>1, <1>2, <1>3, AckedBefore, BatchNumbers
     DEF ArchiveInv, ArchiveType, OnlyCommitted, Committed, Resting
<1>6. CommittedKept'
  <2>1. \A b \in acked : b \in unsynced => b \in excused'
    BY <1>2 DEF ArchiveInv, AckedSynced
  <2>2. \A b \in acked : Kept(b) => Kept(b)'
    BY <1>1, <1>2, <2>1, AckedBefore DEF Kept, Listed
  <2>. QED
    BY <1>1, <2>2 DEF ArchiveInv, CommittedKept, Kept, Listed
<1>7. MediaWentFirst' /\ AckedSynced'
  BY <1>1, <1>2 DEF ArchiveInv, MediaWentFirst, AckedSynced, Resting
<1>. QED
  BY <1>4, <1>5, <1>6, <1>7 DEF ArchiveInv

\* Every step keeps it.
LEMMA ArchiveStep == ArchiveInv /\ [Next]_vars => ArchiveInv'
<1>. SUFFICES ASSUME ArchiveInv, [Next]_vars PROVE ArchiveInv'
  OBVIOUS
<1>1. CASE WriteBack
  <2>1. /\ UNCHANGED <<batch, step, final, retention, acked, deleted, excused>>
        /\ unsynced' \subseteq unsynced
    BY <1>1 DEF WriteBack
  <2>. QED
    BY <2>1 DEF ArchiveInv, ArchiveType, OnlyCommitted, Committed, MediaWentFirst, Candidate,
                CommittedKept, Kept, Listed, AckedSynced
<1>2. CASE UNCHANGED vars
  BY <1>2 DEF ArchiveInv, ArchiveType, OnlyCommitted, Committed, MediaWentFirst, Candidate,
              CommittedKept, Kept, Listed, AckedSynced
<1>. QED
  BY <1>1, <1>2, PreparationStep, FailStep, CommitStep, AcknowledgeStep, RetentionStep, CrashStep
     DEF Next, Write

\* For any number of batches in any hour directories: write_archive_batch has returned a
\* record (archive.py 810-812) only of what stays listed until retention deletes it,
\* whatever fails or crashes; except what the disk lost after hiding the error of its
\* sync, or with an hour directory that nobody synced.
THEOREM AckedStaysListed == Spec => []AckedIsListed
<1>1. ArchiveInv => AckedIsListed
  BY DEF ArchiveInv, CommittedKept, Kept, AckedIsListed
<1>. QED
  BY ArchiveStarts, ArchiveStep, <1>1, PTL DEF Spec
-----------------------------------------------------------------------------
(* The listing.                                                            *)

Requests ==
    [step : {"idle", "asked", "evaluated", "answered"},
     local : SUBSET Recording, remote : SUBSET Recording, since : SUBSET Recording,
     answer : SUBSET Recording, excused : SUBSET Recording]

ListingType ==
    /\ outbox \subseteq Recording /\ cloud \subseteq Recording
    /\ upload \in [step : {"idle", "committed", "delivered"}, record : Recording \cup {0}]
    /\ cache \in [records : SUBSET Recording, age : Nat, missing : SUBSET Recording]
    /\ request \in [Reader -> Requests]

\* What is being removed from the outbox is in the cloud.
InCloudFirst == upload.step # "idle" => upload.record \in cloud \cap outbox

\* A cached listing has all that the outbox does not have, but for what it lacked from the
\* start: the upload that ends after it was cached invalidates it before its removal.
CacheCovers ==
    cache.age < Listing!Expired =>
       /\ cloud \subseteq outbox \cup cache.records \cup cache.missing
       /\ upload.step = "delivered" => upload.record \in cache.records \cup cache.missing

\* A request that has seen the outbox finds in the cloud what has left it since.
Covers(q) ==
    /\ q.step = "asked" => q.since \subseteq q.local \cup cloud \cup gone
    /\ q.step = "evaluated" => q.since \subseteq q.local \cup q.remote \cup gone
    /\ q.step = "answered" => q.since \subseteq q.answer \cup q.excused \cup gone

RequestCovers == \A r \in Reader : Covers(request[r])

ListingInv == ListingType /\ InCloudFirst /\ CacheCovers /\ RequestCovers

\* It holds before anything is recorded.
LEMMA ListingStarts == Listing!Init => ListingInv
<1>. SUFFICES ASSUME Listing!Init PROVE ListingInv
  OBVIOUS
<1>. USE DEF Listing!Init
<1>1. ListingType
  BY DEF ListingType, Requests, Listing!NoUpload, Listing!NoCache, Listing!NoRequest,
         Listing!Expired
<1>2. InCloudFirst /\ CacheCovers
  BY DEF InCloudFirst, CacheCovers, Listing!NoUpload, Listing!NoCache, Listing!Expired
<1>3. \A r \in Reader : request[r].step = "idle"
  BY DEF Listing!NoRequest
<1>. QED
  BY <1>1, <1>2, <1>3 DEF ListingInv, RequestCovers, Covers

\* Steps of the outbox, of the upload and of retention.
LEMMA MovingStep ==
  ASSUME ListingInv, UNCHANGED request,
         \/ Listing!Register \/ Listing!Commit \/ Listing!Delivered \/ Listing!UploadFails
         \/ Listing!Remove \/ Listing!BackoffEnds \/ Listing!Delete \/ Listing!DeleteAnswered
         \/ Listing!Tick
  PROVE  ListingInv'
<1>. USE DEF ListingInv, ListingType
<1>1. cloud \cup gone \subseteq cloud' \cup gone' /\ gone \subseteq gone'
  BY DEF Listing!Register, Listing!Commit, Listing!Delivered, Listing!UploadFails, Listing!Remove,
         Listing!BackoffEnds, Listing!Delete, Listing!DeleteAnswered, Listing!Tick
<1>2. RequestCovers'
  BY <1>1 DEF RequestCovers, Covers
<1>3. cache' = cache \/ (cache' = Listing!NoCache) \/ (cache' = [cache EXCEPT !.age = @ + 1])
  BY DEF Listing!Register, Listing!Commit, Listing!Delivered, Listing!UploadFails, Listing!Remove,
         Listing!BackoffEnds, Listing!Delete, Listing!DeleteAnswered, Listing!Tick
<1>4. /\ cache' \in [records : SUBSET Recording, age : Nat, missing : SUBSET Recording]
      /\ cache'.age < Listing!Expired =>
            /\ cache.age < Listing!Expired
            /\ cache'.records = cache.records /\ cache'.missing = cache.missing
  BY <1>3 DEF Listing!NoCache, Listing!Expired
<1>5. CASE Listing!Register
  <2>1. PICK n \in Recording : outbox' = outbox \cup {n}
    BY <1>5 DEF Listing!Register
  <2>2. UNCHANGED <<cloud, upload, cache>>
    BY <1>5 DEF Listing!Register
  <2>. QED
    BY <1>2, <1>4, <2>1, <2>2 DEF InCloudFirst, CacheCovers
<1>6. CASE Listing!Commit
  <2>1. PICK n \in outbox : /\ cloud' = cloud \cup {n}
                            /\ upload' = [step |-> "committed", record |-> n]
    BY <1>6 DEF Listing!Commit
  <2>2. UNCHANGED <<outbox, cache>>
    BY <1>6 DEF Listing!Commit
  <2>. QED
    BY <1>2, <1>4, <2>1, <2>2 DEF InCloudFirst, CacheCovers
<1>7. CASE Listing!Delivered
  <2>1. /\ upload.step = "committed" /\ upload' = [upload EXCEPT !.step = "delivered"]
        /\ cache' = Listing!NoCache /\ UNCHANGED <<outbox, cloud>>
    BY <1>7 DEF Listing!Delivered
  <2>2. ~(cache'.age < Listing!Expired)
    BY <2>1 DEF Listing!NoCache, Listing!Expired
  <2>. QED
    BY <1>2, <1>4, <2>1, <2>2 DEF InCloudFirst, CacheCovers
<1>8. CASE Listing!UploadFails
  <2>1. upload' = Listing!NoUpload /\ UNCHANGED <<outbox, cloud, cache>>
    BY <1>8 DEF Listing!UploadFails
  <2>. QED
    BY <1>2, <1>4, <2>1 DEF InCloudFirst, CacheCovers, Listing!NoUpload
<1>9. CASE Listing!Remove
  <2>1. /\ upload.step = "delivered" /\ outbox' = outbox \ {upload.record}
        /\ upload' = Listing!NoUpload /\ UNCHANGED <<cloud, cache>>
    BY <1>9 DEF Listing!Remove
  <2>. QED
    BY <1>2, <1>4, <2>1 DEF InCloudFirst, CacheCovers, Listing!NoUpload
<1>10. CASE Listing!Delete
  <2>1. PICK n \in cloud \ outbox : cloud' = cloud \ {n}
    BY <1>10 DEF Listing!Delete
  <2>2. UNCHANGED <<outbox, upload, cache>>
    BY <1>10 DEF Listing!Delete
  <2>. QED
    BY <1>2, <1>4, <2>1, <2>2 DEF InCloudFirst, CacheCovers
<1>11. CASE Listing!BackoffEnds \/ Listing!DeleteAnswered \/ Listing!Tick
  <2>1. UNCHANGED <<outbox, cloud, upload>>
    BY <1>11 DEF Listing!BackoffEnds, Listing!DeleteAnswered, Listing!Tick
  <2>. QED
    BY <1>2, <1>4, <2>1 DEF InCloudFirst, CacheCovers
<1>. QED
  BY <1>5, <1>6, <1>7, <1>8, <1>9, <1>10, <1>11

\* Whatever a step does to the request of one reader, it must keep its own.
LEMMA OneRequest ==
  ASSUME ListingInv, NEW r \in Reader, NEW q \in Requests, request' = [request EXCEPT ![r] = q],
         UNCHANGED <<outbox, cloud, gone, upload>>,
         cache' \in [records : SUBSET Recording, age : Nat, missing : SUBSET Recording],
         CacheCovers', Covers(q)
  PROVE  ListingInv'
<1>1. ListingType'
  BY DEF ListingInv, ListingType
<1>2. InCloudFirst'
  BY DEF ListingInv, InCloudFirst
<1>3. \A x \in Reader : request'[x] = q \/ request'[x] = request[x]
  BY DEF ListingInv, ListingType
<1>4. RequestCovers'
  BY <1>3 DEF ListingInv, RequestCovers, Covers
<1>. QED
  BY <1>1, <1>2, <1>4 DEF ListingInv

\* Steps of a request.
LEMMA RequestStep ==
  ASSUME ListingInv, NEW r \in Reader,
         Listing!List(r) \/ Listing!Evaluate(r) \/ Listing!Fill(r) \/ Listing!AskingFails(r)
  PROVE  ListingInv'
<1>. DEFINE q == request[r]
            CacheType == [records : SUBSET Recording, age : Nat, missing : SUBSET Recording]
<1>1. /\ UNCHANGED <<outbox, cloud, gone, upload>>
      /\ outbox \subseteq Recording /\ cloud \subseteq Recording
      /\ q \in Requests /\ cache \in CacheType
      /\ Covers(q)
  BY DEF Listing!List, Listing!Evaluate, Listing!Fill, Listing!AskingFails, ListingInv,
         ListingType, RequestCovers
<1>2. cache' = cache => CacheCovers' /\ cache' \in CacheType
  BY <1>1 DEF ListingInv, CacheCovers
<1>3. Listing!NoRequest \in Requests /\ Listing!NoRequest.step = "idle"
  BY DEF Listing!NoRequest, Requests
<1>4. CASE Listing!List(r)
  <2>. DEFINE a(x, y) == [step |-> "answered", local |-> outbox, remote |-> {},
                          since |-> outbox \cup cloud, answer |-> x, excused |-> y]
  <2>1. cache' = cache
    BY <1>4 DEF Listing!List, Listing!Hit
  <2>2. CASE waiting
    <3>1. request' = [request EXCEPT ![r] = a(outbox, Recording)]
      BY <1>4, <2>2 DEF Listing!List, Listing!Answer, Listing!Asked, Listing!NoRequest,
                        Listing!Archived
    <3>2. a(outbox, Recording) \in Requests /\ Covers(a(outbox, Recording))
      BY <1>1 DEF Requests, Covers
    <3>. HIDE DEF a
    <3>. QED
      BY <1>1, <1>2, <2>1, <3>1, <3>2, OneRequest
  <2>3. CASE ~waiting /\ cache.age < Listing!Expired
    <3>1. request' = [request EXCEPT ![r] = a(outbox \cup cache.records, cache.missing)]
      BY <1>4, <2>3 DEF Listing!List, Listing!Hit, Listing!Answer, Listing!Asked,
                        Listing!NoRequest, Listing!Archived
    <3>2. a(outbox \cup cache.records, cache.missing) \in Requests
      BY <1>1 DEF Requests
    <3>3. Covers(a(outbox \cup cache.records, cache.missing))
      BY <2>3 DEF Covers, ListingInv, CacheCovers
    <3>. HIDE DEF a
    <3>. QED
      BY <1>1, <1>2, <2>1, <3>1, <3>2, <3>3, OneRequest
  <2>4. CASE ~waiting /\ ~(cache.age < Listing!Expired)
    <3>. DEFINE n == [step |-> "asked", local |-> outbox, remote |-> {},
                      since |-> outbox \cup cloud, answer |-> {}, excused |-> {}]
    <3>1. request' = [request EXCEPT ![r] = n]
      BY <1>4, <2>4 DEF Listing!List, Listing!Asked, Listing!NoRequest, Listing!Archived
    <3>2. n \in Requests /\ Covers(n)
      BY <1>1 DEF Requests, Covers
    <3>. HIDE DEF n
    <3>. QED
      BY <1>1, <1>2, <2>1, <3>1, <3>2, OneRequest
  <2>. QED
    BY <2>2, <2>3, <2>4
<1>5. CASE Listing!Evaluate(r)
  <2>. DEFINE n == [q EXCEPT !.step = "evaluated", !.remote = cloud]
  <2>1. /\ request' = [request EXCEPT ![r] = n] /\ q.step = "asked" /\ cache' = cache
    BY <1>5 DEF Listing!Evaluate, ListingInv, ListingType
  <2>2. n \in Requests /\ Covers(n)
    BY <1>1, <2>1 DEF Requests, Covers
  <2>. HIDE DEF n
  <2>. QED
    BY <1>1, <1>2, <2>1, <2>2, OneRequest
<1>6. CASE Listing!Fill(r)
  <2>. DEFINE n == [q EXCEPT !.step = "answered", !.answer = q.local \cup q.remote]
              c == [records |-> q.remote, age |-> 0, missing |-> cloud \ q.remote]
  <2>1. request' = [request EXCEPT ![r] = n] /\ q.step = "evaluated" /\ cache' = c
    BY <1>6 DEF Listing!Fill, Listing!Answer
  <2>2. n \in Requests /\ Covers(n)
    BY <1>1, <2>1 DEF Requests, Covers
  <2>3. c \in CacheType
    BY <1>1 DEF Requests
  <2>4. CacheCovers'
    BY <1>1, <2>1 DEF CacheCovers, ListingInv, InCloudFirst
  <2>. HIDE DEF n, c
  <2>. QED
    BY <1>1, <2>1, <2>2, <2>3, <2>4, OneRequest
<1>7. CASE Listing!AskingFails(r)
  <2>. DEFINE n == [q EXCEPT !.excused = Recording, !.step = "answered", !.answer = q.local]
  <2>1. cache' = cache
    BY <1>7 DEF Listing!AskingFails
  <2>2. CASE request' = [request EXCEPT ![r] = Listing!NoRequest]
    <3>1. Covers(Listing!NoRequest)
      BY <1>3 DEF Covers
    <3>. QED
      BY <1>1, <1>2, <1>3, <2>1, <2>2, <3>1, OneRequest
  <2>3. CASE request' = [request EXCEPT ![r] = n]
    <3>1. n \in Requests /\ Covers(n)
      BY <1>1 DEF Requests, Covers
    <3>. HIDE DEF n
    <3>. QED
      BY <1>1, <1>2, <2>1, <2>3, <3>1, OneRequest
  <2>. QED
    BY <1>1, <1>7, <2>2, <2>3 DEF Listing!AskingFails, Listing!Answer, Requests
<1>. QED
  BY <1>4, <1>5, <1>6, <1>7

\* Every step keeps it.
LEMMA ListingStep == ListingInv /\ [Listing!Next]_Listing!vars => ListingInv'
<1>. SUFFICES ASSUME ListingInv, [Listing!Next]_Listing!vars PROVE ListingInv'
  OBVIOUS
<1>1. CASE UNCHANGED Listing!vars
  BY <1>1 DEF ListingInv, ListingType, InCloudFirst, CacheCovers, RequestCovers, Covers
<1>2. CASE \/ Listing!Register \/ Listing!Commit \/ Listing!Delivered \/ Listing!UploadFails
           \/ Listing!Remove \/ Listing!BackoffEnds \/ Listing!Delete \/ Listing!DeleteAnswered
           \/ Listing!Tick
  <2>1. UNCHANGED request
    BY <1>2 DEF Listing!Register, Listing!Commit, Listing!Delivered, Listing!UploadFails,
       Listing!Remove, Listing!BackoffEnds, Listing!Delete, Listing!DeleteAnswered, Listing!Tick
  <2>. QED
    BY <1>2, <2>1, MovingStep
<1>. QED
  BY <1>1, <1>2, RequestStep DEF Listing!Next

\* For any number of recordings and requests: an answer that asked the cloud or its cache
\* lacks nothing that was archived when it was asked (spool.py 524-546, storage.py
\* 566-600), though recordings move, are deleted and are invalidated meanwhile; except
\* what the cached listing already lacked when it was cached.
THEOREM AnswerComplete == Listing!Spec => []AnswerHasNoGap
<1>1. ListingInv => AnswerHasNoGap
  BY DEF ListingInv, RequestCovers, Covers, AnswerHasNoGap, Listing!AnswerHasNoGap
<1>. QED
  BY ListingStarts, ListingStep, <1>1, PTL DEF Listing!Spec
-----------------------------------------------------------------------------
(* The range of an encrypted recording.                                    *)

\* The bytes of the recording from number a to number b - 1.
Run(a, b) == [j \in 1..(b - a) |-> a + j - 1]

\* What the request asks for, and the chunks that hold it.
Start == Reading!RangeStart
End == Reading!RangeEnd
First == Reading!FirstChunk
Last == Reading!LastChunk

\* The chunk's bytes, and where the chunks asked for end in the object.
Plain(i) == Run(i * ChunkSize, i * ChunkSize + Reading!ChunkBytes(i))
SpanEnd == Reading!StoredEnd + 1

\* A stored byte, as Reading!Seal makes them.
SealedByte == [chunk : Nat, bytes : Seq(Nat)]

RangeType ==
    /\ size \in 1..MaxSize /\ asked \in Reading!Asked
    /\ taken \in 0..size /\ index \in Nat /\ remaining \in Nat /\ skip \in Nat
    /\ object \in Seq(SealedByte) /\ response \in Seq(SealedByte)
    /\ reading # "seal" => pending \in Seq(SealedByte)

\* The first n chunks are at their places in o, as far as o reaches.
InPlace(o, n) ==
    \A i \in 0..(n - 1) : i * ChunkSize < size =>
        \A j \in 1..Reading!CipherBytes(i) : Reading!ChunkOffset(i) + j <= Len(o) =>
            o[Reading!ChunkOffset(i) + j] = [chunk |-> i, bytes |-> Plain(i)]

\* While it is sealed the chunks that are finished, afterwards all of them.
SealedInPlace == InPlace(object, IF reading = "seal" THEN index ELSE size)

\* What is no chunk yet begins where the last chunk ended.
Sealing ==
    /\ reading = "seal" => /\ index * ChunkSize <= taken
                           /\ pending = Run(index * ChunkSize, taken)
                           /\ Len(object) = Header + index * (ChunkSize + Tag)
    /\ reading = "sealed" => Len(object) = Reading!EncryptedSize
    /\ reading \in {"sealed", "asked", "opened", "local"} => pending = <<>>

\* Where in the recording, and in the object, the bytes of chunk i begin that were asked
\* for, or end, when i is the chunk after the last.
ByteAt(i) == IF i > Last THEN End + 1 ELSE IF i = First THEN Start ELSE i * ChunkSize
StoredAt(i) == IF i > Last THEN SpanEnd ELSE Reading!ChunkOffset(i)

\* The body is what was asked for, up to the chunk that is next.
InRange ==
    /\ Reading!Resolve(asked) # Reading!NoRange
    /\ index \in First..(Last + 1)
    /\ body = Run(Start, ByteAt(index))

\* What each state of a reading says of its body.
BodyGrows ==
    /\ reading \notin {"opened", "remote", "local", "broken", "done", "failed"} => body = <<>>
    /\ reading = "unsatisfiable" => Reading!Resolve(asked) = Reading!NoRange
    /\ reading \in {"opened", "remote", "local", "broken", "done"} => InRange
    /\ reading = "opened" => index = First
    /\ reading = "done" => index > Last
    /\ reading = "failed" => \/ Len(object) < Header /\ body = <<>>
                             \/ InRange /\ Len(object) < SpanEnd

\* What was received and is no chunk yet is what is stored from the next chunk on.
PendingInPlace ==
    \A j \in 1..Len(pending) :
        StoredAt(index) + j <= Len(object) /\ pending[j] = object[StoredAt(index) + j]

\* How far into the object the bytes go that the server has sent.
Sent == (StoredAt(index) + Len(pending)) - skip

\* What the server has still to send is what is stored from there on, at least as far as
\* it is needed.
ResponseInPlace ==
    reading = "remote" =>
        /\ PendingInPlace
        /\ StoredAt(index) + Len(pending) + remaining = SpanEnd
        /\ skip > 0 => remaining > 0 /\ pending = <<>>
        /\ remaining > 0 =>
              /\ Sent \in 0..Len(object) /\ Sent + Len(response) <= Len(object)
              /\ Sent + Len(response) < SpanEnd => Sent + Len(response) = Len(object)
              /\ \A j \in 1..Len(response) : response[j] = object[Sent + j]

RangeInv == RangeType /\ SealedInPlace /\ Sealing /\ BodyGrows /\ ResponseInPlace


\* The smaller of two.
LEMMA MinTwo ==
  ASSUME NEW a \in Int, NEW b \in Int
  PROVE  Reading!Min({a, b}) = IF a <= b THEN a ELSE b
<1>. DEFINE m == IF a <= b THEN a ELSE b
<1>1. m \in {a, b} /\ \A x \in {a, b} : m <= x
  OBVIOUS
<1>2. \A x \in {a, b} : (\A y \in {a, b} : x <= y) => x = m
  OBVIOUS
<1>. QED
  BY <1>1, <1>2 DEF Reading!Min

\* A quotient times its divisor.
LEMMA Division ==
  ASSUME NEW a \in Nat, NEW c \in Nat \ {0}
  PROVE  /\ a \div c \in Nat
         /\ (a \div c) * c <= a /\ a < (a \div c) * c + c
  BY Z3

\* Multiples of a width grow by the width.
LEMMA Times ==
  ASSUME NEW i \in Nat, NEW k \in Nat, NEW w \in Nat
  PROVE  i * w \in Nat /\ (i + 1) * w = i * w + w /\ (i < k => i * w + w <= k * w)
<1>1. i * w \in Nat /\ (i + 1) * w = i * w + w
  OBVIOUS
<1>2. ASSUME i < k PROVE i * w + w <= k * w
  <2>1. k - i - 1 \in Nat
    BY <1>2
  <2>2. (k - i - 1) * w \in Nat
    BY <2>1
  <2>3. k * w = (k - i - 1) * w + i * w + w
    OBVIOUS
  <2>. QED
    BY <2>2, <2>3, <1>1
<1>. QED
  BY <1>1, <1>2

\* A run is a sequence of offsets.
LEMMA RunSeq ==
  ASSUME NEW a \in Nat, NEW b \in Nat, a <= b
  PROVE  Run(a, b) \in Seq(Nat) /\ Len(Run(a, b)) = b - a
         /\ \A j \in 1..(b - a) : Run(a, b)[j] = a + j - 1
<1>. DEFINE n == b - a
            e(j) == a + j - 1
<1>1. n \in Nat /\ \A j \in 1..n : e(j) \in Nat
  OBVIOUS
<1>2. [j \in 1..n |-> e(j)] \in Seq(Nat)
  <2>. HIDE DEF n, e
  <2>. QED  BY <1>1, IsASeq
<1>. QED
  BY <1>2 DEF Run

\* Runs that meet are one.
LEMMA RunConcat ==
  ASSUME NEW a \in Nat, NEW b \in Nat, NEW c \in Nat, a <= b, b <= c
  PROVE  Run(a, b) \o Run(b, c) = Run(a, c)
<1>. DEFINE p == Run(a, b)
            q == Run(b, c)
            t == Run(a, c)
<1>1. p \in Seq(Nat) /\ Len(p) = b - a /\ \A j \in 1..(b - a) : p[j] = a + j - 1
  BY RunSeq
<1>2. q \in Seq(Nat) /\ Len(q) = c - b /\ \A j \in 1..(c - b) : q[j] = b + j - 1
  BY RunSeq
<1>3. t \in Seq(Nat) /\ Len(t) = c - a /\ \A j \in 1..(c - a) : t[j] = a + j - 1
  BY RunSeq
<1>. HIDE DEF p, q, t
<1>4. /\ p \o q \in Seq(Nat) /\ Len(p \o q) = Len(p) + Len(q)
      /\ \A i \in 1..(Len(p) + Len(q)) :
             (p \o q)[i] = IF i <= Len(p) THEN p[i] ELSE q[i - Len(p)]
  BY <1>1, <1>2, ConcatProperties
<1>5. Len(p \o q) = Len(t)
  BY <1>1, <1>2, <1>3, <1>4
<1>6. ASSUME NEW i \in 1..Len(p \o q) PROVE (p \o q)[i] = t[i]
  <2>1. i \in 1..(c - a) /\ (p \o q)[i] = IF i <= b - a THEN p[i] ELSE q[i - (b - a)]
    BY <1>1, <1>2, <1>4
  <2>2. t[i] = a + i - 1
    BY <2>1, <1>3
  <2>3. CASE i <= b - a
    BY <2>1, <2>2, <2>3, <1>1
  <2>4. CASE i > b - a
    <3>1. i - (b - a) \in 1..(c - b)
      BY <2>1, <2>4
    <3>. QED
      BY <2>1, <2>2, <2>4, <3>1, <1>2
  <2>. QED
    BY <2>1, <2>3, <2>4
<1>7. p \o q = t
  BY <1>3, <1>4, <1>5, <1>6, SeqEqual
<1>. QED
  BY <1>7 DEF p, q, t

\* A part of a run is a run.
LEMMA RunSub ==
  ASSUME NEW a \in Nat, NEW b \in Nat, NEW x \in Nat, NEW y \in Nat,
         a <= x, x <= y, y <= b
  PROVE  SubSeq(Run(a, b), x - a + 1, y - a) = Run(x, y)
<1>. DEFINE r == Run(a, b)
            s == SubSeq(r, x - a + 1, y - a)
            t == Run(x, y)
<1>1. r \in Seq(Nat) /\ Len(r) = b - a /\ \A j \in 1..(b - a) : r[j] = a + j - 1
  BY RunSeq
<1>2. t \in Seq(Nat) /\ Len(t) = y - x /\ \A j \in 1..(y - x) : t[j] = x + j - 1
  BY RunSeq
<1>. HIDE DEF r, t
<1>3. \A i \in (x - a + 1)..(y - a) : r[i] \in Nat
  BY <1>1
<1>4. /\ s \in Seq(Nat) /\ Len(s) = y - x
      /\ \A i \in 1..(y - x) : s[i] = r[x - a + i]
  <2>1. x - a + 1 \in Int /\ y - a \in Int
    OBVIOUS
  <2>2. /\ s \in Seq(Nat)
        /\ Len(s) = IF x - a + 1 <= y - a THEN y - a - (x - a + 1) + 1 ELSE 0
        /\ \A i \in 1..(y - a - (x - a + 1) + 1) : s[i] = r[x - a + 1 + i - 1]
    BY <1>3, <2>1, SubSeqProperties
  <2>. HIDE DEF s
  <2>. QED
    BY <2>2
<1>. HIDE DEF s
<1>5. ASSUME NEW i \in 1..Len(s) PROVE s[i] = t[i]
  <2>1. x - a + i \in 1..(b - a) /\ i \in 1..(y - x)
    BY <1>4
  <2>2. s[i] = a + (x - a + i) - 1 /\ t[i] = x + i - 1
    BY <2>1, <1>1, <1>2, <1>4
  <2>. QED
    BY <2>1, <2>2
<1>6. s = t
  BY <1>2, <1>4, <1>5, SeqEqual
<1>. QED
  BY <1>6 DEF s, r, t

\* A recording, and a request for it.
Served == size \in 1..MaxSize /\ asked \in Reading!Asked

\* _resolve_byte_range finds the bytes that the header means.
LEMMA Resolved ==
  ASSUME Served
  PROVE  /\ Reading!Resolve(asked) = Reading!NoRange => Reading!Wanted = {}
         /\ Reading!Resolve(asked) # Reading!NoRange =>
                /\ Start \in Nat /\ End \in Nat /\ Start <= End /\ End < size
                /\ Reading!Wanted = Start..End
<1>. DEFINE range == Reading!Resolve(asked)
            wanted == Reading!Wanted
<1>0. size \in Nat \ {0}
  BY RangeAssumption DEF Served
<1>1. CASE asked.kind = "all"
  <2>1. range = <<0, size - 1>>
    BY <1>1 DEF Reading!Resolve
  <2>2. wanted = 0..(size - 1)
    BY <1>1 DEF Reading!Wanted
  <2>. QED
    BY <1>0, <2>1, <2>2 DEF Start, End, Reading!RangeStart, Reading!RangeEnd, Reading!NoRange
<1>2. CASE asked.kind = "invalid"
  BY <1>2 DEF Reading!Resolve, Reading!Wanted
<1>3. CASE asked \in [kind : {"span"}, first : 0..MaxSize, last : 0..MaxSize]
  <2>1. asked.kind = "span" /\ asked.first \in Nat /\ asked.last \in Nat
    BY <1>3
  <2>2. wanted = {i \in 0..(size - 1) : asked.first <= i /\ i <= asked.last}
    BY <2>1 DEF Reading!Wanted
  <2>3. CASE asked.first < size /\ asked.first <= asked.last
    <3>. DEFINE last == IF asked.last <= size - 1 THEN asked.last ELSE size - 1
    <3>1. range = <<asked.first, last>>
      BY <1>0, <2>1, <2>3, MinTwo DEF Reading!Resolve
    <3>2. wanted = asked.first..last
      BY <1>0, <2>1, <2>2, <2>3
    <3>. QED
      BY <1>0, <2>1, <2>3, <3>1, <3>2
         DEF Start, End, Reading!RangeStart, Reading!RangeEnd, Reading!NoRange
  <2>4. CASE ~(asked.first < size /\ asked.first <= asked.last)
    <3>1. range = Reading!NoRange
      BY <2>1, <2>4 DEF Reading!Resolve
    <3>2. wanted = {}
      BY <1>0, <2>1, <2>2, <2>4
    <3>. QED
      BY <3>1, <3>2
  <2>. QED
    BY <2>3, <2>4
<1>4. CASE asked \in [kind : {"from"}, first : 0..MaxSize]
  <2>1. asked.kind = "from" /\ asked.first \in Nat
    BY <1>4
  <2>2. wanted = {i \in 0..(size - 1) : asked.first <= i}
    BY <2>1 DEF Reading!Wanted
  <2>3. CASE asked.first < size
    <3>1. range = <<asked.first, size - 1>>
      BY <2>1, <2>3 DEF Reading!Resolve
    <3>2. wanted = asked.first..(size - 1)
      BY <1>0, <2>1, <2>2, <2>3
    <3>. QED
      BY <1>0, <2>1, <2>3, <3>1, <3>2
         DEF Start, End, Reading!RangeStart, Reading!RangeEnd, Reading!NoRange
  <2>4. CASE ~(asked.first < size)
    <3>1. range = Reading!NoRange
      BY <2>1, <2>4 DEF Reading!Resolve
    <3>2. wanted = {}
      BY <1>0, <2>1, <2>2, <2>4
    <3>. QED
      BY <3>1, <3>2
  <2>. QED
    BY <2>3, <2>4
<1>5. CASE asked \in [kind : {"suffix"}, length : 0..(MaxSize + 1)]
  <2>1. asked.kind = "suffix" /\ asked.length \in Nat
    BY <1>5, RangeAssumption
  <2>2. wanted = {i \in 0..(size - 1) : i + asked.length >= size}
    BY <2>1 DEF Reading!Wanted
  <2>3. CASE asked.length > 0
    <3>. DEFINE first == IF asked.length > size THEN 0 ELSE size - asked.length
    <3>1. range = <<first, size - 1>>
      BY <2>1, <2>3 DEF Reading!Resolve
    <3>2. wanted = first..(size - 1)
      BY <1>0, <2>1, <2>2, <2>3
    <3>. QED
      BY <1>0, <2>1, <2>3, <3>1, <3>2
         DEF Start, End, Reading!RangeStart, Reading!RangeEnd, Reading!NoRange
  <2>4. CASE ~(asked.length > 0)
    <3>1. range = Reading!NoRange
      BY <2>1, <2>4 DEF Reading!Resolve
    <3>2. wanted = {}
      BY <1>0, <2>1, <2>2, <2>4
    <3>. QED
      BY <3>1, <3>2
  <2>. QED
    BY <2>3, <2>4
<1>. QED
  <2>1. \/ asked.kind = "all" \/ asked.kind = "invalid"
        \/ asked \in [kind : {"span"}, first : 0..MaxSize, last : 0..MaxSize]
        \/ asked \in [kind : {"from"}, first : 0..MaxSize]
        \/ asked \in [kind : {"suffix"}, length : 0..(MaxSize + 1)]
    BY DEF Served, Reading!Asked
  <2>. QED
    BY <2>1, <1>1, <1>2, <1>3, <1>4, <1>5

\* The chunks lie one behind the other.
LEMMA OffsetsGrow ==
  ASSUME NEW i \in Nat, NEW k \in Nat
  PROVE  /\ Reading!ChunkOffset(i) \in Nat
         /\ Reading!ChunkOffset(i) = Header + i * ChunkSize + i * Tag
         /\ i < k => Reading!ChunkOffset(i) + ChunkSize + Tag <= Reading!ChunkOffset(k)
<1>. DEFINE w == ChunkSize + Tag
<1>0. ChunkSize \in Nat \ {0} /\ Tag \in Nat /\ Header \in Nat /\ w \in Nat
  BY RangeAssumption
<1>1. i * w = i * ChunkSize + i * Tag /\ i * ChunkSize \in Nat /\ i * Tag \in Nat
  BY <1>0
<1>2. Reading!ChunkOffset(i) = Header + i * w /\ Reading!ChunkOffset(k) = Header + k * w
  BY DEF Reading!ChunkOffset
<1>3. ChunkSize + Tag = w
  OBVIOUS
<1>. HIDE DEF w
<1>4. i * w \in Nat /\ k * w \in Nat /\ (i < k => i * w + w <= k * w)
  BY <1>0, Times
<1>. QED
  BY <1>0, <1>1, <1>2, <1>3, <1>4

\* A chunk of the recording, and its place in the object.
LEMMA ChunkLayout ==
  ASSUME Served, NEW i \in Nat, i * ChunkSize < size
  PROVE  /\ Reading!ChunkBytes(i) = IF ChunkSize <= size - i * ChunkSize
                                    THEN ChunkSize ELSE size - i * ChunkSize
         /\ Reading!ChunkBytes(i) \in 1..ChunkSize
         /\ Reading!CipherBytes(i) = Reading!ChunkBytes(i) + Tag
         /\ Reading!CipherBytes(i) \in 1..(ChunkSize + Tag)
         /\ Reading!ChunkOffset(i) \in Nat
         /\ Reading!ChunkOffset(i + 1) = Reading!ChunkOffset(i) + ChunkSize + Tag
         /\ Plain(i) \in Seq(Nat) /\ Len(Plain(i)) = Reading!ChunkBytes(i)
         /\ i < size
<1>1. i * ChunkSize \in Nat /\ i * (ChunkSize + Tag) \in Nat
      /\ (i + 1) * (ChunkSize + Tag) = i * (ChunkSize + Tag) + ChunkSize + Tag
  BY RangeAssumption, Times
<1>2. Reading!ChunkBytes(i) = IF ChunkSize <= size - i * ChunkSize
                              THEN ChunkSize ELSE size - i * ChunkSize
  BY <1>1, MinTwo, RangeAssumption DEF Reading!ChunkBytes, Served
<1>3. Reading!ChunkBytes(i) \in 1..ChunkSize
  BY <1>1, <1>2, RangeAssumption DEF Served
<1>4. Plain(i) \in Seq(Nat) /\ Len(Plain(i)) = Reading!ChunkBytes(i)
  <2>. DEFINE a == i * ChunkSize
              b == a + Reading!ChunkBytes(i)
  <2>1. a \in Nat /\ b \in Nat /\ a <= b /\ b - a = Reading!ChunkBytes(i)
    BY <1>1, <1>3
  <2>. HIDE DEF a, b
  <2>2. Run(a, b) \in Seq(Nat) /\ Len(Run(a, b)) = b - a
    BY <2>1, RunSeq
  <2>. QED
    BY <2>1, <2>2 DEF a, b, Plain
<1>5. i < size
  <2>1. i <= i * ChunkSize
    BY RangeAssumption
  <2>. QED
    BY <1>1, <2>1, RangeAssumption DEF Served
<1>. QED
  BY <1>1, <1>2, <1>3, <1>4, <1>5, RangeAssumption
     DEF Reading!CipherBytes, Reading!ChunkOffset

\* The chunks asked for hold the bytes asked for.
LEMMA SpanLayout ==
  ASSUME Served, Reading!Resolve(asked) # Reading!NoRange
  PROVE  /\ First \in Nat /\ Last \in Nat /\ First <= Last
         /\ First * ChunkSize <= Start /\ Start < First * ChunkSize + ChunkSize
         /\ Last * ChunkSize <= End /\ End < Last * ChunkSize + ChunkSize
         /\ SpanEnd = Reading!ChunkOffset(Last) + Reading!CipherBytes(Last)
         /\ SpanEnd \in Nat
         /\ \A i \in First..Last :
                /\ i * ChunkSize < size
                /\ Reading!ChunkOffset(i) + Reading!CipherBytes(i) <= SpanEnd
                /\ i < Last => i * ChunkSize + ChunkSize <= Last * ChunkSize
                /\ First < i => First * ChunkSize + ChunkSize <= i * ChunkSize
<1>0. ChunkSize \in Nat \ {0} /\ Tag \in Nat /\ Header \in Nat /\ size \in Nat
  BY RangeAssumption DEF Served
<1>1. Start \in Nat /\ End \in Nat /\ Start <= End /\ End < size
  BY Resolved
<1>2. /\ First \in Nat /\ Last \in Nat
      /\ First * ChunkSize <= Start /\ Start < First * ChunkSize + ChunkSize
      /\ Last * ChunkSize <= End /\ End < Last * ChunkSize + ChunkSize
  BY <1>0, <1>1, Division
     DEF First, Last, Start, End, Reading!FirstChunk, Reading!LastChunk
<1>. HIDE DEF First, Last, Start, End
<1>3. First <= Last
  <2>1. ASSUME Last < First PROVE FALSE
    <3>1. Last * ChunkSize + ChunkSize <= First * ChunkSize
      BY <1>0, <1>2, <2>1, Times
    <3>2. First * ChunkSize \in Nat /\ Last * ChunkSize \in Nat
      BY <1>0, <1>2, Times
    <3>. QED
      BY <1>0, <1>1, <1>2, <3>1, <3>2
  <2>. QED
    BY <2>1, <1>2
<1>4. Last * ChunkSize < size /\ Last * ChunkSize \in Nat
  BY <1>0, <1>1, <1>2, Times DEF Served
<1>5. /\ SpanEnd = Reading!ChunkOffset(Last) + Reading!CipherBytes(Last)
      /\ SpanEnd \in Nat
  <2>1. Reading!ChunkOffset(Last) \in Nat /\ Reading!CipherBytes(Last) \in 1..(ChunkSize + Tag)
    BY <1>2, <1>4, ChunkLayout
  <2>2. SpanEnd = Reading!ChunkOffset(Last) + Reading!CipherBytes(Last) - 1 + 1
    BY DEF SpanEnd, Reading!StoredEnd, Last
  <2>. QED
    BY <1>0, <2>1, <2>2
<1>6. ASSUME NEW i \in First..Last
      PROVE  /\ i * ChunkSize < size
             /\ Reading!ChunkOffset(i) + Reading!CipherBytes(i) <= SpanEnd
             /\ i < Last => i * ChunkSize + ChunkSize <= Last * ChunkSize
             /\ First < i => First * ChunkSize + ChunkSize <= i * ChunkSize
  <2>1. i \in Nat /\ i <= Last
    BY <1>2
  <2>2. i < Last => i * ChunkSize + ChunkSize <= Last * ChunkSize
    BY <1>0, <1>2, <2>1, Times
  <2>3. First < i => First * ChunkSize + ChunkSize <= i * ChunkSize
    BY <1>0, <1>2, <2>1, Times
  <2>4. i * ChunkSize < size
    <3>1. i * ChunkSize \in Nat
      BY <1>0, <2>1, Times
    <3>2. CASE i = Last
      BY <1>4, <3>2
    <3>3. CASE i < Last
      BY <1>0, <1>4, <2>2, <3>1, <3>3
    <3>. QED
      BY <1>2, <2>1, <3>2, <3>3
  <2>5. Reading!ChunkOffset(i) + Reading!CipherBytes(i) <= SpanEnd
    <3>1. CASE i = Last
      BY <3>1, <1>5
    <3>2. CASE i < Last
      <4>3. Reading!ChunkOffset(i) + ChunkSize + Tag <= Reading!ChunkOffset(Last)
        BY <1>2, <2>1, <3>2, OffsetsGrow
      <4>4. Reading!CipherBytes(i) \in 1..(ChunkSize + Tag) /\ Reading!ChunkOffset(i) \in Nat
        BY <2>1, <2>4, ChunkLayout
      <4>5. /\ Reading!CipherBytes(Last) \in 1..(ChunkSize + Tag)
            /\ Reading!ChunkOffset(Last) \in Nat
        BY <1>2, <1>4, ChunkLayout
      <4>. QED
        BY <1>0, <1>5, <4>3, <4>4, <4>5
    <3>. QED
      BY <2>1, <1>2, <3>1, <3>2
  <2>. QED
    BY <2>2, <2>3, <2>4, <2>5
<1>. QED
  BY <1>2, <1>3, <1>5, <1>6

\* The selected part of a chunk is the next part of the bytes asked for.
LEMMA SelectedRun ==
  ASSUME Served, Reading!Resolve(asked) # Reading!NoRange,
         NEW i \in First..Last, NEW cipher, cipher[1].bytes = Plain(i)
  PROVE  /\ Reading!Selected(cipher, i) = Run(ByteAt(i), ByteAt(i + 1))
         /\ ByteAt(i) \in Nat /\ ByteAt(i + 1) \in Nat
         /\ Start <= ByteAt(i) /\ ByteAt(i) <= ByteAt(i + 1)
<1>. DEFINE a == i * ChunkSize
            b == a + Reading!ChunkBytes(i)
            from == IF i = First THEN Start ELSE a
            to == IF i = Last THEN End + 1 ELSE (i + 1) * ChunkSize
<1>0. ChunkSize \in Nat \ {0} /\ size \in Nat
  BY RangeAssumption DEF Served
<1>1. /\ Start \in Nat /\ End \in Nat /\ Start <= End /\ End < size
      /\ First \in Nat /\ Last \in Nat
      /\ First * ChunkSize <= Start /\ Start < First * ChunkSize + ChunkSize
      /\ Last * ChunkSize <= End /\ End < Last * ChunkSize + ChunkSize
  BY Resolved, SpanLayout
<1>2. /\ a < size
      /\ i < Last => a + ChunkSize <= Last * ChunkSize
      /\ First < i => First * ChunkSize + ChunkSize <= a
  BY SpanLayout
<1>. HIDE DEF First, Last, Start, End
<1>3. /\ a \in Nat /\ (i + 1) * ChunkSize = a + ChunkSize
      /\ First * ChunkSize \in Nat /\ Last * ChunkSize \in Nat
  BY <1>0, <1>1, Times
<1>4. b = IF ChunkSize <= size - a THEN a + ChunkSize ELSE size
  <2>1. i \in Nat /\ i * ChunkSize < size
    BY <1>1, <1>2
  <2>2. Reading!ChunkBytes(i) = IF ChunkSize <= size - a THEN ChunkSize ELSE size - a
    BY <2>1, ChunkLayout
  <2>. HIDE DEF a
  <2>. QED
    BY <1>0, <1>3, <2>2
<1>5. IF Start > a THEN Start - a = from - a ELSE 0 = from - a
  BY <1>0, <1>1, <1>2, <1>3
<1>6. /\ Start <= from /\ from <= to /\ to <= b /\ a <= from
      /\ from \in Nat /\ to \in Nat /\ b \in Nat
  <2>1. CASE i = Last
    BY <1>0, <1>1, <1>2, <1>3, <1>4, <2>1
  <2>2. CASE i < Last
    BY <1>0, <1>1, <1>2, <1>3, <1>4, <2>2
  <2>. QED
    BY <1>1, <2>1, <2>2
<1>7. Reading!Min({Reading!ChunkBytes(i), End - a + 1}) = to - a
  <2>1. Reading!ChunkBytes(i) = b - a /\ Reading!ChunkBytes(i) \in Int /\ End - a + 1 \in Int
    BY <1>0, <1>1, <1>2, <1>3, ChunkLayout
  <2>2. Reading!Min({Reading!ChunkBytes(i), End - a + 1})
          = IF Reading!ChunkBytes(i) <= End - a + 1 THEN Reading!ChunkBytes(i) ELSE End - a + 1
    BY <2>1, MinTwo
  <2>. HIDE DEF b
  <2>3. CASE i = Last
    BY <1>0, <1>1, <1>3, <1>6, <2>1, <2>2, <2>3
  <2>4. CASE i < Last
    <3>1. b = a + ChunkSize
      BY <1>0, <1>1, <1>2, <1>3, <1>4, <2>4
    <3>2. to = a + ChunkSize
      BY <1>3, <2>4, <1>1
    <3>. QED
      BY <1>0, <1>1, <1>2, <1>3, <1>6, <2>1, <2>2, <2>4, <3>1, <3>2
  <2>. QED
    BY <1>1, <2>3, <2>4
<1>8. Reading!Selected(cipher, i) = SubSeq(Plain(i), from - a + 1, to - a)
  <2>1. Reading!Selected(cipher, i)
          = SubSeq(cipher[1].bytes, (IF Start > a THEN Start - a ELSE 0) + 1,
                   Reading!Min({Reading!ChunkBytes(i), End - a + 1}))
    BY DEF Reading!Selected, Start, End
  <2>. QED
    BY <2>1, <1>5, <1>7
<1>9. SubSeq(Run(a, b), from - a + 1, to - a) = Run(from, to)
  <2>. HIDE DEF a, b, from, to
  <2>1. /\ a \in Nat /\ b \in Nat /\ from \in Nat /\ to \in Nat
        /\ a <= b /\ a <= from /\ from <= to /\ to <= b
    BY <1>3, <1>6
  <2>. QED
    BY <2>1, RunSub
<1>10. from = ByteAt(i) /\ to = ByteAt(i + 1)
  <2>1. First <= i /\ i <= Last /\ i \in Nat
    BY <1>1
  <2>. QED
    BY <1>1, <2>1 DEF ByteAt
<1>. HIDE DEF from, to
<1>. QED
  BY <1>6, <1>8, <1>9, <1>10 DEF Plain

\* A part of a sequence.
LEMMA SliceOf ==
  ASSUME NEW S, NEW s \in Seq(S), NEW a \in Nat, NEW b \in Nat, a <= b, b <= Len(s)
  PROVE  /\ SubSeq(s, a + 1, b) \in Seq(S) /\ Len(SubSeq(s, a + 1, b)) = b - a
         /\ \A j \in 1..(b - a) : SubSeq(s, a + 1, b)[j] = s[a + j]
<1>. DEFINE t == SubSeq(s, a + 1, b)
<1>1. a + 1 \in Int /\ b \in Int /\ \A i \in (a + 1)..b : s[i] \in S
  BY ElementOfSeq, LenProperties
<1>2. /\ t \in Seq(S) /\ Len(t) = IF a + 1 <= b THEN b - (a + 1) + 1 ELSE 0
      /\ \A i \in 1..(b - (a + 1) + 1) : t[i] = s[a + 1 + i - 1]
  BY <1>1, SubSeqProperties
<1>. HIDE DEF t
<1>3. t \in Seq(S) /\ Len(t) = b - a /\ \A j \in 1..(b - a) : t[j] = s[a + j]
  BY <1>2
<1>. QED
  BY <1>3 DEF t

\* The quotient is the one number with its bounds.
LEMMA Quotient ==
  ASSUME NEW a \in Nat, NEW c \in Nat \ {0}, NEW q \in Nat, q * c <= a, a < q * c + c
  PROVE  a \div c = q
<1>. DEFINE d == a \div c
<1>1. d \in Nat /\ d * c <= a /\ a < d * c + c
  BY Division
<1>. HIDE DEF d
<1>2. ~(d < q)
  <2>1. d < q => d * c + c <= q * c
    BY <1>1, Times
  <2>2. d * c \in Nat /\ q * c \in Nat
    BY <1>1, Times
  <2>. QED
    BY <1>1, <2>1, <2>2
<1>3. ~(q < d)
  <2>1. q < d => q * c + c <= d * c
    BY <1>1, Times
  <2>2. d * c \in Nat /\ q * c \in Nat
    BY <1>1, Times
  <2>. QED
    BY <1>1, <2>1, <2>2
<1>4. d = q
  BY <1>1, <1>2, <1>3
<1>. QED
  BY <1>4 DEF d

\* The bytes of a sealed chunk.
LEMMA SealIsSeq ==
  ASSUME NEW i \in Nat, NEW plain \in Seq(Nat)
  PROVE  /\ Reading!Seal(i, plain) \in Seq(SealedByte)
         /\ Len(Reading!Seal(i, plain)) = Len(plain) + Tag
         /\ \A j \in 1..(Len(plain) + Tag) :
                Reading!Seal(i, plain)[j] = [chunk |-> i, bytes |-> plain]
<1>. DEFINE n == Len(plain) + Tag
            e(j) == [chunk |-> i, bytes |-> plain]
<1>1. n \in Nat
  BY RangeAssumption, LenProperties
<1>2. \A j \in 1..n : e(j) \in SealedByte
  BY DEF SealedByte
<1>3. [j \in 1..n |-> e(j)] \in Seq(SealedByte)
  <2>. HIDE DEF n, e
  <2>. QED  BY <1>1, <1>2, IsASeq
<1>. QED
  BY <1>1, <1>3 DEF Reading!Seal

\* A chunk sealed behind those before it is in its place.
LEMMA AppendChunk ==
  ASSUME Served, NEW i \in Nat, i * ChunkSize < size,
         NEW o \in Seq(SealedByte), Len(o) = Reading!ChunkOffset(i), InPlace(o, i)
  PROVE  LET longer == o \o Reading!Seal(i, Plain(i))
         IN  /\ longer \in Seq(SealedByte)
             /\ Len(longer) = Reading!ChunkOffset(i) + Reading!CipherBytes(i)
             /\ InPlace(longer, i + 1)
<1>. DEFINE seal == Reading!Seal(i, Plain(i))
            longer == o \o seal
<1>1. /\ Reading!CipherBytes(i) = Reading!ChunkBytes(i) + Tag
      /\ Reading!CipherBytes(i) \in 1..(ChunkSize + Tag)
      /\ Plain(i) \in Seq(Nat) /\ Len(Plain(i)) = Reading!ChunkBytes(i)
  BY ChunkLayout
<1>2. /\ seal \in Seq(SealedByte) /\ Len(seal) = Reading!CipherBytes(i)
      /\ \A j \in 1..Reading!CipherBytes(i) : seal[j] = [chunk |-> i, bytes |-> Plain(i)]
  BY <1>1, SealIsSeq
<1>. HIDE DEF seal
<1>3. /\ longer \in Seq(SealedByte) /\ Len(longer) = Len(o) + Len(seal)
      /\ \A k \in 1..(Len(o) + Len(seal)) :
             longer[k] = IF k <= Len(o) THEN o[k] ELSE seal[k - Len(o)]
  BY <1>2, ConcatProperties
<1>. HIDE DEF longer
<1>4. ASSUME NEW h \in 0..i, h * ChunkSize < size, NEW j \in 1..Reading!CipherBytes(h)
      PROVE  longer[Reading!ChunkOffset(h) + j] = [chunk |-> h, bytes |-> Plain(h)]
  <2>0. /\ ChunkSize \in Nat /\ Tag \in Nat /\ Reading!ChunkOffset(i) \in Nat
        /\ Reading!ChunkOffset(h) \in Nat
    BY RangeAssumption, OffsetsGrow
  <2>1. CASE h = i
    <3>1. j \in 1..Len(seal) /\ Len(seal) \in Nat /\ Len(o) = Reading!ChunkOffset(h)
      BY <1>1, <1>2, <2>1
    <3>2. longer[Len(o) + j] = seal[Len(o) + j - Len(o)]
      BY <2>0, <3>1, <1>3
    <3>3. Len(o) + j - Len(o) = j
      BY <2>0, <3>1
    <3>. QED
      BY <1>2, <2>1, <3>1, <3>2, <3>3
  <2>2. CASE h < i
    <3>1. Reading!ChunkOffset(h) + ChunkSize + Tag <= Reading!ChunkOffset(i)
      BY <2>2, OffsetsGrow
    <3>2. Reading!CipherBytes(h) \in 1..(ChunkSize + Tag)
      BY <1>4, ChunkLayout
    <3>3. Reading!ChunkOffset(h) + j \in 1..Len(o) /\ Len(seal) \in Nat
      BY <1>1, <1>2, <2>0, <3>1, <3>2
    <3>4. longer[Reading!ChunkOffset(h) + j] = o[Reading!ChunkOffset(h) + j]
      BY <3>3, <1>3, <2>0
    <3>5. o[Reading!ChunkOffset(h) + j] = [chunk |-> h, bytes |-> Plain(h)]
      BY <1>4, <2>2, <3>3 DEF InPlace
    <3>. QED
      BY <3>4, <3>5
  <2>. QED
    BY <2>1, <2>2
<1>5. InPlace(longer, i + 1)
  BY <1>4 DEF InPlace
<1>. QED
  BY <1>1, <1>2, <1>3, <1>5 DEF longer, seal

\* Nothing about a request changes while it and the recording stay the same.
LEMMA SameRange ==
  ASSUME size' = size, asked' = asked
  PROVE  /\ Start' = Start /\ End' = End /\ First' = First /\ Last' = Last
         /\ SpanEnd' = SpanEnd /\ Reading!Resolve(asked)' = Reading!Resolve(asked)
         /\ Reading!EncryptedSize' = Reading!EncryptedSize
  BY DEF Start, End, First, Last, SpanEnd, Reading!Resolve, Reading!EncryptedSize,
         Reading!RangeStart, Reading!RangeEnd, Reading!FirstChunk, Reading!LastChunk,
         Reading!StoredEnd, Reading!ChunkOffset, Reading!CipherBytes, Reading!ChunkBytes,
         Reading!ChunkCount, Reading!NoRange

\* Nor do the places of the chunks.
LEMMA SameChunks ==
  ASSUME size' = size
  PROVE  \A o, n : InPlace(o, n)' <=> InPlace(o, n)
  BY DEF InPlace, Reading!CipherBytes, Reading!ChunkBytes, Reading!ChunkOffset, Plain

\* It holds before anything is sealed.
LEMMA RangeStarts == Reading!Init => RangeInv
<1>. SUFFICES ASSUME Reading!Init PROVE RangeInv
  OBVIOUS
<1>. USE DEF Reading!Init
<1>0. /\ ChunkSize \in Nat \ {0} /\ Header \in Nat /\ Tag \in Nat
      /\ size \in 1..MaxSize /\ size \in Nat
  BY RangeAssumption
<1>1. Reading!HeaderBytes \in Seq(SealedByte) /\ Len(Reading!HeaderBytes) = Header
  <2>. DEFINE e(j) == [chunk |-> Reading!ChunkCount, bytes |-> <<>>]
  <2>1. Reading!ChunkCount \in Nat
    <3>1. size + ChunkSize - 1 \in Nat
      BY <1>0
    <3>. QED
      BY <1>0, <3>1, Division DEF Reading!ChunkCount
  <2>2. \A j \in 1..Header : e(j) \in SealedByte
    BY <2>1, EmptySeq DEF SealedByte
  <2>3. [j \in 1..Header |-> e(j)] \in Seq(SealedByte)
    <3>. HIDE DEF e
    <3>. QED
      BY <1>0, <2>2, IsASeq
  <2>. QED
    BY <1>0, <2>3 DEF Reading!HeaderBytes
<1>2. RangeType
  BY <1>0, <1>1, EmptySeq DEF RangeType, Reading!Asked
<1>3. SealedInPlace
  BY DEF SealedInPlace, InPlace
<1>4. Sealing
  <2>1. Run(0, 0) = <<>>
    BY DEF Run
  <2>2. 0 * ChunkSize = 0 /\ 0 * (ChunkSize + Tag) = 0
    BY <1>0
  <2>. QED
    BY <1>0, <1>1, <2>1, <2>2 DEF Sealing
<1>. QED
  BY <1>2, <1>3, <1>4 DEF RangeInv, BodyGrows, ResponseInPlace

\* Steps of encrypt_archive_chunks.
LEMMA SealFragmentStep == RangeInv /\ Reading!SealFragment => RangeInv'
<1>. SUFFICES ASSUME RangeInv, Reading!SealFragment PROVE RangeInv'
  OBVIOUS
<1>. USE DEF Reading!readVars
<1>0. /\ ChunkSize \in Nat \ {0} /\ Header \in Nat /\ Tag \in Nat
      /\ size \in Nat /\ taken \in 0..size /\ index \in Nat /\ reading = "seal"
      /\ index * ChunkSize <= taken /\ pending = Run(index * ChunkSize, taken)
  BY RangeAssumption DEF RangeInv, RangeType, Sealing, Reading!SealFragment
<1>1. /\ size' = size /\ asked' = asked /\ reading' = reading /\ index' = index
      /\ object' = object /\ response' = response /\ remaining' = remaining
      /\ skip' = skip /\ body' = body
  BY DEF Reading!SealFragment
<1>2. taken' \in 0..size /\ taken <= taken' /\ pending' = Run(index * ChunkSize, taken')
  <2>1. PICK n \in 1..Reading!Min({MaxFragment, size - taken}) :
            /\ taken' = taken + n
            /\ pending' = pending \o [j \in 1..n |-> taken + j - 1]
    BY DEF Reading!SealFragment
  <2>2. Reading!Min({MaxFragment, size - taken}) \in Int
        /\ Reading!Min({MaxFragment, size - taken}) <= size - taken
    BY <1>0, RangeAssumption, MinTwo
  <2>3. taken' \in 0..size /\ taken <= taken' /\ n \in Nat /\ taken + n - taken = n
    BY <1>0, <2>1, <2>2
  <2>4. pending' = Run(index * ChunkSize, taken) \o Run(taken, taken')
    <3>1. taken' - taken = n
      BY <1>0, <2>1, <2>3
    <3>2. Run(taken, taken') = [j \in 1..n |-> taken + j - 1]
      BY <3>1 DEF Run
    <3>. QED
      BY <1>0, <2>1, <3>2
  <2>5. index * ChunkSize \in Nat /\ taken \in Nat /\ taken' \in Nat
    BY <1>0, <2>3, Times
  <2>. QED
    BY <1>0, <2>3, <2>4, <2>5, RunConcat
<1>3. RangeType'
  BY <1>0, <1>1, <1>2 DEF RangeInv, RangeType
<1>4. SealedInPlace'
  BY <1>0, <1>1, SameChunks DEF RangeInv, SealedInPlace
<1>5. Sealing'
  BY <1>0, <1>1, <1>2 DEF RangeInv, Sealing
<1>6. BodyGrows' /\ ResponseInPlace'
  BY <1>0, <1>1 DEF RangeInv, BodyGrows, ResponseInPlace
<1>. QED
  BY <1>3, <1>4, <1>5, <1>6 DEF RangeInv

LEMMA SealChunkStep == RangeInv /\ Reading!SealChunk => RangeInv'
<1>. SUFFICES ASSUME RangeInv, Reading!SealChunk PROVE RangeInv'
  OBVIOUS
<1>. USE DEF Reading!readVars
<1>. DEFINE a == index * ChunkSize
            b == index * ChunkSize + ChunkSize
<1>0. /\ ChunkSize \in Nat \ {0} /\ Header \in Nat /\ Tag \in Nat
      /\ size \in Nat /\ taken \in 0..size /\ index \in Nat /\ reading = "seal"
      /\ a <= taken /\ pending = Run(a, taken)
      /\ Len(object) = Header + index * (ChunkSize + Tag) /\ object \in Seq(SealedByte)
      /\ InPlace(object, index) /\ Served
  BY RangeAssumption
     DEF RangeInv, RangeType, Sealing, SealedInPlace, Served, Reading!SealChunk
<1>1. /\ size' = size /\ asked' = asked /\ reading' = reading /\ index' = index + 1
      /\ taken' = taken /\ response' = response /\ remaining' = remaining
      /\ skip' = skip /\ body' = body
      /\ object' = object \o Reading!Seal(index, SubSeq(pending, 1, ChunkSize))
      /\ pending' = SubSeq(pending, ChunkSize + 1, Len(pending))
      /\ Len(pending) >= ChunkSize
  BY DEF Reading!SealChunk
<1>2. /\ a \in Nat /\ b \in Nat /\ b = (index + 1) * ChunkSize
      /\ (index + 1) * (ChunkSize + Tag) = index * (ChunkSize + Tag) + ChunkSize + Tag
  BY <1>0, Times
<1>3. Len(pending) = taken - a /\ b <= taken /\ a < size
  <2>1. Len(pending) = taken - a
    <3>. HIDE DEF a
    <3>1. a \in Nat /\ taken \in Nat /\ a <= taken /\ pending = Run(a, taken)
      BY <1>0, <1>2
    <3>. QED
      BY <3>1, RunSeq
  <2>2. a \in Nat /\ b = a + ChunkSize /\ taken - a >= ChunkSize
    BY <1>1, <1>2, <2>1
  <2>. HIDE DEF a, b
  <2>. QED
    BY <1>0, <2>1, <2>2
<1>4. SubSeq(pending, 1, ChunkSize) = Run(a, b) /\ pending' = Run(b, taken)
  <2>1. ChunkSize = b - a /\ 1 = a - a + 1 /\ ChunkSize + 1 = b - a + 1
    BY <1>0, <1>2
  <2>. HIDE DEF a, b
  <2>2. a \in Nat /\ b \in Nat /\ taken \in Nat /\ a <= b /\ b <= taken
    BY <1>0, <1>2, <1>3, <2>1
  <2>3. SubSeq(Run(a, taken), a - a + 1, b - a) = Run(a, b)
    BY <2>2, RunSub
  <2>4. SubSeq(Run(a, taken), b - a + 1, taken - a) = Run(b, taken)
    BY <2>2, RunSub
  <2>5. pending = Run(a, taken) /\ Len(pending) = taken - a
    BY <1>0, <1>3
  <2>. QED
    BY <1>1, <2>1, <2>3, <2>4, <2>5
<1>5. Reading!ChunkBytes(index) = ChunkSize /\ Plain(index) = Run(a, b)
  <2>1. Reading!ChunkBytes(index) = IF ChunkSize <= size - a THEN ChunkSize ELSE size - a
    BY <1>0, <1>3, ChunkLayout
  <2>2. Reading!ChunkBytes(index) = ChunkSize
    BY <1>0, <1>2, <1>3, <2>1
  <2>. QED
    BY <2>2 DEF Plain
<1>6. /\ object' \in Seq(SealedByte) /\ InPlace(object', index + 1)
      /\ Len(object') = Len(object) + ChunkSize + Tag
  <2>1. Len(object) = Reading!ChunkOffset(index)
    BY <1>0 DEF Reading!ChunkOffset
  <2>2. object' = object \o Reading!Seal(index, Plain(index))
    BY <1>1, <1>4, <1>5
  <2>3. /\ object' \in Seq(SealedByte) /\ InPlace(object', index + 1)
        /\ Len(object') = Reading!ChunkOffset(index) + Reading!CipherBytes(index)
    BY <1>0, <1>3, <2>1, <2>2, AppendChunk
  <2>4. Reading!CipherBytes(index) = ChunkSize + Tag
    BY <1>5 DEF Reading!CipherBytes
  <2>5. Reading!ChunkOffset(index) \in Nat
    BY <1>0, OffsetsGrow
  <2>. QED
    BY <1>0, <2>1, <2>3, <2>4, <2>5
<1>. HIDE DEF a, b
<1>7. RangeType'
  BY <1>0, <1>1, <1>6 DEF RangeInv, RangeType
<1>8. SealedInPlace'
  BY <1>0, <1>1, <1>6, SameChunks DEF SealedInPlace
<1>9. Sealing'
  BY <1>0, <1>1, <1>2, <1>3, <1>4, <1>6 DEF RangeInv, Sealing
<1>10. BodyGrows' /\ ResponseInPlace'
  BY <1>0, <1>1 DEF RangeInv, BodyGrows, ResponseInPlace
<1>. QED
  BY <1>7, <1>8, <1>9, <1>10 DEF RangeInv

\* encrypted_size counts the chunks that are sealed.
LEMMA Announced ==
  ASSUME Served, NEW n \in Nat,
         n * ChunkSize <= size + ChunkSize - 1, size + ChunkSize - 1 < n * ChunkSize + ChunkSize
  PROVE  Reading!EncryptedSize = Header + size + n * Tag
<1>1. size + ChunkSize - 1 \in Nat
  BY RangeAssumption DEF Served
<1>2. Reading!ChunkCount = n
  BY <1>1, RangeAssumption, Quotient DEF Reading!ChunkCount
<1>. QED
  BY <1>2 DEF Reading!EncryptedSize

\* Chunks beyond the end of the recording have no place.
LEMMA Smaller ==
  ASSUME NEW o, NEW m, NEW n, InPlace(o, m),
         \A i \in 0..(n - 1) : i * ChunkSize < size => i \in 0..(m - 1)
  PROVE  InPlace(o, n)
BY DEF InPlace

LEMMA SealLastStep == RangeInv /\ Reading!SealLast => RangeInv'
<1>. SUFFICES ASSUME RangeInv, Reading!SealLast PROVE RangeInv'
  OBVIOUS
<1>. USE DEF Reading!readVars
<1>. DEFINE a == index * ChunkSize
<1>0. /\ ChunkSize \in Nat \ {0} /\ Header \in Nat /\ Tag \in Nat
      /\ size \in Nat \ {0} /\ taken = size /\ index \in Nat /\ reading = "seal"
      /\ a <= size /\ pending = Run(a, size)
      /\ Len(object) = Header + index * (ChunkSize + Tag) /\ object \in Seq(SealedByte)
      /\ InPlace(object, index) /\ Served
  BY RangeAssumption
     DEF RangeInv, RangeType, Sealing, SealedInPlace, Served, Reading!SealLast
<1>1. /\ size' = size /\ asked' = asked /\ reading' = "sealed" /\ index' = index
      /\ taken' = taken /\ response' = response /\ remaining' = remaining
      /\ skip' = skip /\ body' = body /\ pending' = <<>>
      /\ object' = IF pending = <<>> THEN object ELSE object \o Reading!Seal(index, pending)
      /\ Len(pending) < ChunkSize
  BY DEF Reading!SealLast
<1>2. a \in Nat /\ a + ChunkSize = (index + 1) * ChunkSize
  BY <1>0, Times
<1>3. Len(pending) = size - a /\ size - a < ChunkSize
  <2>. HIDE DEF a
  <2>1. a \in Nat /\ size \in Nat /\ a <= size /\ pending = Run(a, size)
    BY <1>0, <1>2
  <2>2. Len(pending) = size - a
    BY <2>1, RunSeq
  <2>. QED
    BY <1>1, <2>2
<1>4. /\ object' \in Seq(SealedByte) /\ InPlace(object', size)
      /\ Len(object') = Reading!EncryptedSize
  <2>1. /\ Len(object) = Reading!ChunkOffset(index)
        /\ Len(object) = Header + a + index * Tag
    BY <1>0, OffsetsGrow DEF Reading!ChunkOffset
  <2>2. CASE a = size
    <3>1. pending = <<>>
      BY <1>0, <1>3, <2>2 DEF Run
    <3>2. InPlace(object, size)
      <4>. SUFFICES ASSUME NEW i \in 0..(size - 1), i * ChunkSize < size PROVE i \in 0..(index - 1)
        BY <1>0 DEF InPlace
      <4>1. i * ChunkSize \in Nat /\ (index < i => a + ChunkSize <= i * ChunkSize)
        BY <1>0, Times
      <4>2. index = i => i * ChunkSize = a
        OBVIOUS
      <4>. HIDE DEF a
      <4>. QED
        BY <1>0, <1>2, <2>2, <4>1, <4>2
    <3>3. Reading!EncryptedSize = Header + size + index * Tag
      BY <1>0, <1>2, <2>2, Announced
    <3>. QED
      BY <1>0, <1>1, <2>1, <2>2, <3>1, <3>2, <3>3
  <2>3. CASE a < size
    <3>1. pending # <<>>
      BY <1>0, <1>2, <1>3, <2>3, EmptySeq
    <3>2. Reading!ChunkBytes(index) = size - a
      <4>1. Reading!ChunkBytes(index) = IF ChunkSize <= size - a THEN ChunkSize ELSE size - a
        BY <1>0, <2>3, ChunkLayout
      <4>. QED
        BY <1>0, <1>2, <1>3, <4>1
    <3>3. Plain(index) = pending
      <4>1. a + (size - a) = size
        BY <1>0, <1>2
      <4>. QED
        BY <1>0, <3>2, <4>1 DEF Plain
    <3>4. /\ object' \in Seq(SealedByte) /\ InPlace(object', index + 1)
          /\ Len(object') = Reading!ChunkOffset(index) + Reading!CipherBytes(index)
      BY <1>0, <1>1, <2>1, <2>3, <3>1, <3>3, AppendChunk
    <3>5. InPlace(object', size)
      <4>. DEFINE m == index + 1
      <4>1. ASSUME NEW i \in 0..(size - 1), i * ChunkSize < size PROVE i \in 0..(m - 1)
        <5>1. i * ChunkSize \in Nat /\ (index < i => a + ChunkSize <= i * ChunkSize)
          BY <1>0, Times
        <5>2. i * ChunkSize < size
          BY <4>1
        <5>. HIDE DEF a
        <5>3. ~(index < i)
          BY <1>0, <1>2, <1>3, <5>1, <5>2
        <5>. QED
          BY <1>0, <5>3
      <4>2. InPlace(object', m)
        BY <3>4
      <4>. HIDE DEF m
      <4>. QED
        BY <4>1, <4>2, Smaller
    <3>6. Reading!EncryptedSize = Header + size + (index + 1) * Tag
      <4>1. (index + 1) * ChunkSize <= size + ChunkSize - 1
            /\ size + ChunkSize - 1 < (index + 1) * ChunkSize + ChunkSize
        <5>. HIDE DEF a
        <5>. QED
          BY <1>0, <1>2, <1>3, <2>3
      <4>2. index + 1 \in Nat
        BY <1>0
      <4>. QED
        BY <1>0, <4>1, <4>2, Announced
    <3>7. (index + 1) * Tag = index * Tag + Tag /\ index * Tag \in Nat
      BY <1>0, Times
    <3>8. Len(object') = Header + a + index * Tag + (size - a) + Tag
      <4>. DEFINE tags == index * Tag
      <4>1. Reading!CipherBytes(index) = size - a + Tag
        BY <3>2 DEF Reading!CipherBytes
      <4>2. tags \in Nat /\ a \in Nat /\ size \in Nat /\ Tag \in Nat /\ Header \in Nat
        BY <1>0, <1>2, <3>7
      <4>3. Len(object') = Header + a + tags + Reading!CipherBytes(index)
        BY <2>1, <3>4
      <4>. HIDE DEF a, tags
      <4>4. Len(object') = Header + a + tags + (size - a) + Tag
        BY <4>1, <4>2, <4>3
      <4>. QED
        BY <4>4 DEF tags
    <3>9. Len(object') = Reading!EncryptedSize
      <4>. HIDE DEF a
      <4>. QED
        BY <1>0, <1>2, <3>6, <3>7, <3>8
    <3>. QED
      BY <3>4, <3>5, <3>9
  <2>. QED
    BY <1>0, <1>2, <2>2, <2>3
<1>. HIDE DEF a
<1>5. RangeType'
  BY <1>0, <1>1, <1>4, EmptySeq DEF RangeInv, RangeType
<1>6. SealedInPlace'
  BY <1>0, <1>1, <1>4, SameChunks DEF SealedInPlace
<1>7. Sealing'
  BY <1>1, <1>4, SameRange DEF Sealing
<1>8. BodyGrows' /\ ResponseInPlace'
  BY <1>0, <1>1 DEF RangeInv, BodyGrows, ResponseInPlace
<1>. QED
  BY <1>5, <1>6, <1>7, <1>8 DEF RangeInv

\* A store that keeps only the beginning keeps every byte of it in place.
LEMMA AskStep == RangeInv /\ Reading!Ask => RangeInv'
<1>. SUFFICES ASSUME RangeInv, Reading!Ask PROVE RangeInv'
  OBVIOUS
<1>. USE DEF Reading!readVars
<1>1. /\ size' = size /\ asked' \in Reading!Asked /\ reading = "sealed" /\ reading' = "asked"
      /\ index' = index /\ taken' = taken /\ response' = response /\ remaining' = remaining
      /\ skip' = skip /\ body' = body /\ pending' = pending /\ pending = <<>>
      /\ object \in Seq(SealedByte) /\ InPlace(object, size)
  BY DEF Reading!Ask, RangeInv, RangeType, SealedInPlace, Sealing
<1>2. object' \in Seq(SealedByte) /\ Len(object') <= Len(object)
      /\ \A j \in 1..Len(object') : object'[j] = object[j]
  <2>1. PICK n \in 0..Len(object) : object' = SubSeq(object, 1, n)
    BY DEF Reading!Ask
  <2>2. Len(object) \in Nat /\ n \in Int /\ 1 \in Int
        /\ \A i \in 1..n : object[i] \in SealedByte
    BY <1>1, LenProperties, ElementOfSeq
  <2>3. /\ object' \in Seq(SealedByte) /\ Len(object') = IF 1 <= n THEN n - 1 + 1 ELSE 0
        /\ \A i \in 1..(n - 1 + 1) : object'[i] = object[1 + i - 1]
    BY <2>1, <2>2, SubSeqProperties
  <2>. QED
    BY <2>2, <2>3
<1>3. InPlace(object', size)
  <2>1. Len(object) \in Nat /\ Len(object') \in Nat
    BY <1>1, <1>2, LenProperties
  <2>. SUFFICES ASSUME NEW i \in 0..(size - 1), i * ChunkSize < size,
                       NEW j \in 1..Reading!CipherBytes(i),
                       Reading!ChunkOffset(i) + j <= Len(object')
                PROVE  object'[Reading!ChunkOffset(i) + j] = [chunk |-> i, bytes |-> Plain(i)]
    BY DEF InPlace
  <2>2. Reading!ChunkOffset(i) \in Nat
    BY OffsetsGrow
  <2>3. Reading!ChunkOffset(i) + j <= Len(object)
        /\ Reading!ChunkOffset(i) + j \in 1..Len(object')
    BY <1>2, <2>1, <2>2
  <2>. QED
    BY <1>1, <1>2, <2>3 DEF InPlace
<1>4. SealedInPlace'
  BY <1>1, <1>3, SameChunks DEF SealedInPlace
<1>5. RangeType'
  BY <1>1, <1>2 DEF RangeInv, RangeType
<1>. QED
  BY <1>1, <1>4, <1>5 DEF RangeInv, Sealing, BodyGrows, ResponseInPlace

\* The reading begins at the first byte that is asked for.
LEMMA ReadHeaderStep == RangeInv /\ Reading!ReadHeader => RangeInv'
<1>. SUFFICES ASSUME RangeInv, Reading!ReadHeader PROVE RangeInv'
  OBVIOUS
<1>. USE DEF Reading!readVars, Reading!sealVars
<1>1. /\ size' = size /\ asked' = asked /\ reading = "asked"
      /\ taken' = taken /\ object' = object /\ pending' = pending /\ pending = <<>>
      /\ response' = response /\ remaining' = remaining /\ skip' = skip
      /\ body' = body /\ body = <<>> /\ Served
      /\ index' = IF reading' = "opened" THEN First ELSE index
  BY DEF Reading!ReadHeader, RangeInv, RangeType, Sealing, BodyGrows, Served, First
<1>2. \/ reading' = "failed" /\ Len(object) < Header
      \/ reading' = "unsatisfiable" /\ Reading!Resolve(asked) = Reading!NoRange
      \/ reading' = "opened" /\ Reading!Resolve(asked) # Reading!NoRange
  BY DEF Reading!ReadHeader
<1>3. SealedInPlace'
  BY <1>1, <1>2, SameChunks DEF RangeInv, SealedInPlace
<1>4. reading' = "opened" => First \in Nat /\ First \in First..(Last + 1) /\ First <= Last
                             /\ Last \in Nat /\ Start \in Nat
  BY <1>1, <1>2, SpanLayout, Resolved
<1>5. RangeType'
  BY <1>1, <1>2, <1>4 DEF RangeInv, RangeType
<1>6. Run(Start, Start) = <<>> \/ reading' # "opened"
  BY <1>4 DEF Run
<1>7. reading' = "opened" => InRange'
  <2>. HIDE DEF First, Last, Start, End
  <2>. SUFFICES ASSUME reading' = "opened" PROVE InRange'
    OBVIOUS
  <2>1. ByteAt(index)' = Start
    BY <1>1, <1>4, SameRange DEF ByteAt
  <2>. QED
    BY <1>1, <1>2, <1>4, <1>6, <2>1, SameRange DEF InRange
<1>. QED
  BY <1>1, <1>2, <1>3, <1>5, <1>7, SameRange
     DEF RangeInv, Sealing, BodyGrows, ResponseInPlace

\* The chunks asked for are stored one behind the other.
LEMMA StoredChunks ==
  ASSUME Served, Reading!Resolve(asked) # Reading!NoRange, NEW i \in First..Last
  PROVE  /\ StoredAt(i) = Reading!ChunkOffset(i) /\ StoredAt(i) \in Nat
         /\ StoredAt(i + 1) = StoredAt(i) + Reading!CipherBytes(i)
         /\ StoredAt(i + 1) <= SpanEnd
         /\ Reading!CipherBytes(i) \in Nat \ {0}
         /\ i \in Nat /\ i + 1 \in First..(Last + 1) /\ i * ChunkSize < size
<1>0. ChunkSize \in Nat \ {0} /\ Tag \in Nat /\ size \in Nat
  BY RangeAssumption DEF Served
<1>1. /\ First \in Nat /\ Last \in Nat /\ End \in Nat /\ End < size
      /\ Last * ChunkSize <= End /\ SpanEnd \in Nat
      /\ SpanEnd = Reading!ChunkOffset(Last) + Reading!CipherBytes(Last)
  BY Resolved, SpanLayout
<1>2. /\ i * ChunkSize < size
      /\ Reading!ChunkOffset(i) + Reading!CipherBytes(i) <= SpanEnd
      /\ i < Last => i * ChunkSize + ChunkSize <= Last * ChunkSize
  BY SpanLayout
<1>. HIDE DEF First, Last, Start, End, SpanEnd
<1>3. i \in Nat /\ First <= i /\ i <= Last
  BY <1>1
<1>4. /\ Reading!ChunkBytes(i) = IF ChunkSize <= size - i * ChunkSize
                                THEN ChunkSize ELSE size - i * ChunkSize
      /\ Reading!CipherBytes(i) = Reading!ChunkBytes(i) + Tag
      /\ Reading!CipherBytes(i) \in 1..(ChunkSize + Tag) /\ Reading!ChunkOffset(i) \in Nat
      /\ Reading!ChunkOffset(i + 1) = Reading!ChunkOffset(i) + ChunkSize + Tag
  BY <1>2, <1>3, ChunkLayout
<1>5. StoredAt(i) = Reading!ChunkOffset(i)
  BY <1>1, <1>3 DEF StoredAt
<1>6. StoredAt(i + 1) = StoredAt(i) + Reading!CipherBytes(i)
  <2>1. CASE i = Last
    BY <1>1, <1>5, <2>1 DEF StoredAt
  <2>2. CASE i < Last
    <3>1. i * ChunkSize \in Nat /\ Last * ChunkSize \in Nat
      BY <1>0, <1>1, <1>3, Times
    <3>2. Reading!ChunkBytes(i) = ChunkSize
      BY <1>0, <1>1, <1>2, <1>4, <2>2, <3>1
    <3>3. StoredAt(i + 1) = Reading!ChunkOffset(i + 1)
      BY <1>1, <1>3, <2>2 DEF StoredAt
    <3>. QED
      BY <1>0, <1>4, <1>5, <3>2, <3>3
  <2>. QED
    BY <1>1, <1>3, <2>1, <2>2
<1>. QED
  BY <1>0, <1>1, <1>2, <1>3, <1>4, <1>5, <1>6

\* What lies at the place of a chunk opens as this chunk.
LEMMA SealedOpens ==
  ASSUME Served, NEW i \in Nat, i * ChunkSize < size,
         NEW cipher \in Seq(SealedByte), Len(cipher) = Reading!CipherBytes(i),
         \A j \in 1..Reading!CipherBytes(i) : cipher[j] = [chunk |-> i, bytes |-> Plain(i)]
  PROVE  Reading!Authentic(cipher, i) /\ cipher[1].bytes = Plain(i)
<1>1. /\ Reading!CipherBytes(i) \in Nat \ {0} /\ Len(Plain(i)) = Reading!ChunkBytes(i)
      /\ DOMAIN cipher = 1..Reading!CipherBytes(i)
  BY ChunkLayout, LenProperties, RangeAssumption
<1>. QED
  BY <1>1 DEF Reading!Authentic

\* An opened chunk brings the body to the next one.
LEMMA BodyExtends ==
  ASSUME Served, InRange, index <= Last, NEW cipher, cipher[1].bytes = Plain(index)
  PROVE  /\ body \o Reading!Selected(cipher, index) = Run(Start, ByteAt(index + 1))
         /\ index + 1 \in First..(Last + 1)
<1>1. /\ Reading!Resolve(asked) # Reading!NoRange /\ index \in First..Last
      /\ body = Run(Start, ByteAt(index))
  BY SpanLayout DEF InRange
<1>2. First \in Nat /\ Last \in Nat /\ Start \in Nat
  BY <1>1, SpanLayout, Resolved
<1>. DEFINE a == ByteAt(index)
            b == ByteAt(index + 1)
<1>3. /\ Reading!Selected(cipher, index) = Run(a, b)
      /\ a \in Nat /\ b \in Nat /\ Start <= a /\ a <= b
  BY <1>1, SelectedRun
<1>. HIDE DEF a, b, First, Last, Start
<1>4. Run(Start, a) \o Run(a, b) = Run(Start, b)
  BY <1>2, <1>3, RunConcat
<1>. QED
  BY <1>1, <1>2, <1>3, <1>4 DEF a, b

\* What a step of a reading must show of the body.
LEMMA RangeKept ==
  ASSUME size' = size, asked' = asked
  PROVE  /\ InRange' <=> /\ Reading!Resolve(asked) # Reading!NoRange
                          /\ index' \in First..(Last + 1)
                          /\ body' = Run(Start, ByteAt(index'))
         /\ StoredAt(index)' = StoredAt(index')
         /\ First' = First /\ Last' = Last /\ SpanEnd' = SpanEnd
<1>. HIDE DEF First, Last, Start, End, SpanEnd
<1>. QED
  BY SameRange DEF InRange, ByteAt, StoredAt, Reading!NoRange, Reading!ChunkOffset

\* What is known of a reading that goes on.
LEMMA ReadingState ==
  ASSUME RangeInv, reading \in {"opened", "remote", "local"}
  PROVE  /\ Served /\ InRange /\ Reading!Resolve(asked) # Reading!NoRange
         /\ InPlace(object, size) /\ SealedInPlace
         /\ First \in Nat /\ Last \in Nat /\ First <= Last /\ SpanEnd \in Nat
         /\ index \in First..(Last + 1) /\ index \in Nat /\ remaining \in Nat /\ skip \in Nat
         /\ object \in Seq(SealedByte) /\ response \in Seq(SealedByte)
         /\ pending \in Seq(SealedByte)
         /\ Len(object) \in Nat /\ Len(response) \in Nat /\ Len(pending) \in Nat
         /\ StoredAt(index) \in Nat /\ StoredAt(index) <= SpanEnd
         /\ MaxFragment \in Nat
<1>1. /\ Served /\ InRange /\ Reading!Resolve(asked) # Reading!NoRange
      /\ InPlace(object, size) /\ SealedInPlace
      /\ index \in First..(Last + 1) /\ index \in Nat /\ remaining \in Nat /\ skip \in Nat
      /\ object \in Seq(SealedByte) /\ response \in Seq(SealedByte)
      /\ pending \in Seq(SealedByte)
  BY DEF RangeInv, RangeType, SealedInPlace, BodyGrows, Served, InRange
<1>2. First \in Nat /\ Last \in Nat /\ First <= Last /\ SpanEnd \in Nat
  BY <1>1, SpanLayout
<1>3. Len(object) \in Nat /\ Len(response) \in Nat /\ Len(pending) \in Nat
  BY <1>1, LenProperties
<1>4. StoredAt(index) \in Nat /\ StoredAt(index) <= SpanEnd
  <2>1. CASE index > Last
    BY <1>2, <2>1 DEF StoredAt
  <2>2. CASE index <= Last
    <3>1. index \in First..Last
      BY <1>1, <1>2, <2>2
    <3>2. /\ StoredAt(index) \in Nat /\ StoredAt(index + 1) <= SpanEnd
          /\ StoredAt(index + 1) = StoredAt(index) + Reading!CipherBytes(index)
          /\ Reading!CipherBytes(index) \in Nat
      BY <1>1, <3>1, StoredChunks
    <3>. QED
      BY <1>2, <3>2
  <2>. QED
    BY <1>1, <1>2, <2>1, <2>2
<1>. QED
  BY <1>1, <1>2, <1>3, <1>4, RangeAssumption

\* A difference and its bounds.
LEMMA Back ==
  ASSUME NEW a \in Nat, NEW b \in Nat, NEW m \in Nat, NEW n \in Nat, b <= a, a - b + m <= n
  PROVE  a - b \in 0..n
OBVIOUS

\* With 206 and with 200 the response holds what is stored from the first chunk on.
LEMMA RequestRangeStep == RangeInv /\ Reading!RequestRange => RangeInv'
<1>. SUFFICES ASSUME RangeInv, Reading!RequestRange PROVE RangeInv'
  OBVIOUS
<1>. HIDE DEF First, Last, Start, End, SpanEnd
<1>0. /\ Served /\ InRange /\ Reading!Resolve(asked) # Reading!NoRange
      /\ InPlace(object, size)
      /\ First \in Nat /\ Last \in Nat /\ First <= Last /\ SpanEnd \in Nat
      /\ object \in Seq(SealedByte) /\ Len(object) \in Nat
      /\ index = First /\ pending = <<>> /\ reading = "opened"
  BY ReadingState DEF Reading!RequestRange, RangeInv, BodyGrows, Sealing
<1>1. /\ size' = size /\ asked' = asked /\ pending' = pending /\ index' = index
      /\ taken' = taken /\ object' = object /\ body' = body
      /\ reading' \in {"remote", "failed"}
  BY DEF Reading!RequestRange, Reading!sealVars
<1>2. /\ StoredAt(First) = Reading!StoredStart /\ StoredAt(First) \in Nat
      /\ StoredAt(First) < SpanEnd
  <2>1. First \in First..Last
    BY <1>0
  <2>2. /\ StoredAt(First) = Reading!ChunkOffset(First) /\ StoredAt(First) \in Nat
        /\ StoredAt(First + 1) = StoredAt(First) + Reading!CipherBytes(First)
        /\ StoredAt(First + 1) <= SpanEnd /\ Reading!CipherBytes(First) \in Nat \ {0}
    BY <1>0, <2>1, StoredChunks
  <2>. QED
    BY <1>0, <2>2 DEF Reading!StoredStart, First
<1>. DEFINE from == StoredAt(First)
<1>3. /\ remaining' = SpanEnd - from /\ remaining' \in Nat \ {0}
      /\ \/ /\ from < Len(object) /\ skip' = 0 /\ reading' = "remote"
            /\ response' = SubSeq(object, from + 1, Reading!Min({SpanEnd, Len(object)}))
         \/ response' = object /\ skip' = from /\ reading' = "remote"
         \/ /\ from >= Len(object) /\ reading' = "failed"
            /\ response' = response /\ skip' = skip
  <2>1. Reading!StoredEnd + 1 = SpanEnd
    BY DEF SpanEnd
  <2>2. Reading!StoredEnd - Reading!StoredStart + 1 = SpanEnd - from
    <3>1. Reading!StoredEnd \in Int
      <4>1. Reading!ChunkOffset(Last) \in Nat
        BY <1>0, OffsetsGrow
      <4>2. Reading!CipherBytes(Last) \in Nat
        BY <1>0, StoredChunks
      <4>. QED
        BY <4>1, <4>2 DEF Reading!StoredEnd, Last
    <3>. QED
      BY <1>0, <1>2, <2>1, <3>1
  <2>3. remaining' = SpanEnd - from
    BY <2>2 DEF Reading!RequestRange
  <2>4. SpanEnd - from \in Nat \ {0}
    BY <1>0, <1>2
  <2>. QED
    BY <1>2, <2>1, <2>3, <2>4 DEF Reading!RequestRange, Reading!Slice
<1>. HIDE DEF from
<1>4. from \in Nat /\ from < SpanEnd /\ StoredAt(index) = from
  BY <1>0, <1>2 DEF from
<1>5. CASE reading' = "failed"
  <2>1. Len(object) < SpanEnd
    BY <1>0, <1>3, <1>4, <1>5
  <2>2. RangeType'
    BY <1>0, <1>1, <1>3, <1>5 DEF RangeInv, RangeType
  <2>3. SealedInPlace'
    BY <1>0, <1>1, <1>5, SameChunks DEF SealedInPlace
  <2>4. InRange'
    BY <1>0, <1>1, RangeKept DEF InRange
  <2>. QED
    BY <1>0, <1>1, <1>5, <2>1, <2>2, <2>3, <2>4, RangeKept
       DEF RangeInv, Sealing, BodyGrows, ResponseInPlace
<1>6. CASE reading' = "remote"
  <2>1. /\ skip' \in 0..from /\ response' \in Seq(SealedByte)
        /\ from - skip' + Len(response') <= Len(object) /\ Len(response') \in Nat
        /\ from - skip' + Len(response') < SpanEnd =>
               from - skip' + Len(response') = Len(object)
        /\ \A j \in 1..Len(response') : response'[j] = object[from - skip' + j]
    <3>1. CASE response' = object /\ skip' = from
      BY <1>0, <1>4, <3>1
    <3>2. CASE /\ from < Len(object) /\ skip' = 0
               /\ response' = SubSeq(object, from + 1, Reading!Min({SpanEnd, Len(object)}))
      <4>. DEFINE to == Reading!Min({SpanEnd, Len(object)})
      <4>1. /\ to = IF SpanEnd <= Len(object) THEN SpanEnd ELSE Len(object)
            /\ to \in Nat /\ from < to /\ to <= Len(object)
        <5>1. /\ SpanEnd \in Int /\ Len(object) \in Int /\ SpanEnd \in Nat /\ Len(object) \in Nat
              /\ from < SpanEnd /\ from < Len(object)
          BY <1>0, <1>4, <3>2
        <5>2. to = IF SpanEnd <= Len(object) THEN SpanEnd ELSE Len(object)
          BY <5>1, MinTwo
        <5>. HIDE DEF to
        <5>. QED
          BY <5>1, <5>2
      <4>. HIDE DEF to
      <4>2. from + 1 \in Int /\ to \in Int /\ \A i \in (from + 1)..to : object[i] \in SealedByte
        BY <1>0, <1>4, <4>1, ElementOfSeq
      <4>3. /\ SubSeq(object, from + 1, to) \in Seq(SealedByte)
            /\ Len(SubSeq(object, from + 1, to))
                 = IF from + 1 <= to THEN to - (from + 1) + 1 ELSE 0
            /\ \A i \in 1..(to - (from + 1) + 1) :
                   SubSeq(object, from + 1, to)[i] = object[from + 1 + i - 1]
        BY <4>2, SubSeqProperties
      <4>4. response' = SubSeq(object, from + 1, to)
        BY <3>2 DEF to
      <4>. HIDE DEF to
      <4>5. /\ response' \in Seq(SealedByte) /\ Len(response') = to - from
            /\ \A i \in 1..(to - from) : response'[i] = object[from + i]
        BY <1>4, <4>1, <4>3, <4>4
      <4>6. \A j \in 1..Len(response') : response'[j] = object[from - skip' + j]
        <5>1. from - skip' = from /\ skip' = 0
          BY <1>4, <3>2
        <5>2. \A j \in 1..Len(response') : response'[j] = object[from + j]
          BY <4>5
        <5>. QED
          BY <5>1, <5>2
      <4>7. from - skip' = from /\ skip' = 0
        BY <1>4, <3>2
      <4>. QED
        BY <1>0, <1>4, <4>1, <4>5, <4>6, <4>7
    <3>. QED
      BY <1>3, <1>6, <3>1, <3>2
  <2>2. RangeType'
    BY <1>0, <1>1, <1>3, <1>4, <1>6, <2>1, EmptySeq DEF RangeInv, RangeType
  <2>3. SealedInPlace'
    BY <1>0, <1>1, <1>6, SameChunks DEF SealedInPlace
  <2>4. InRange'
    BY <1>0, <1>1, RangeKept DEF InRange
  <2>5. ResponseInPlace'
    <3>1. StoredAt(index)' = from /\ SpanEnd' = SpanEnd /\ Len(pending') = 0
      BY <1>0, <1>1, <1>4, RangeKept, EmptySeq
    <3>2. Sent' = from - skip'
      BY <1>4, <2>1, <3>1 DEF Sent
    <3>3. PendingInPlace'
      BY <3>1 DEF PendingInPlace
    <3>4. from + 0 + (SpanEnd - from) = SpanEnd
      BY <1>0, <1>4
    <3>5. from - skip' \in 0..Len(object)
      <4>1. skip' \in Nat /\ skip' <= from /\ from - skip' + Len(response') <= Len(object)
            /\ Len(response') \in Nat /\ Len(object) \in Nat /\ from \in Nat
        BY <1>0, <1>4, <2>1
      <4>. QED
        BY <4>1, Back
    <3>. QED
      BY <1>0, <1>1, <1>3, <2>1, <3>1, <3>2, <3>3, <3>4, <3>5 DEF ResponseInPlace
  <2>. QED
    BY <1>0, <1>1, <1>6, <2>2, <2>3, <2>4, <2>5 DEF RangeInv, Sealing, BodyGrows
<1>. QED
  BY <1>1, <1>5, <1>6

\* The bytes received are those of the next chunk: it opens, and its part is handed on.
LEMMA OpenChunkStep == RangeInv /\ Reading!OpenChunk => RangeInv'
<1>. SUFFICES ASSUME RangeInv, Reading!OpenChunk PROVE RangeInv'
  OBVIOUS
<1>. HIDE DEF First, Last, Start, End, SpanEnd
<1>. DEFINE c == Reading!CipherBytes(index)
            cipher == SubSeq(pending, 1, c)
<1>0. /\ Served /\ InRange /\ Reading!Resolve(asked) # Reading!NoRange
      /\ InPlace(object, size)
      /\ First \in Nat /\ Last \in Nat /\ First <= Last /\ SpanEnd \in Nat
      /\ object \in Seq(SealedByte) /\ Len(object) \in Nat
      /\ pending \in Seq(SealedByte) /\ Len(pending) \in Nat
      /\ reading = "remote" /\ index \in First..Last /\ Len(pending) >= c
      /\ PendingInPlace
  BY ReadingState
     DEF Reading!OpenChunk, RangeInv, BodyGrows, Reading!HasChunk, ResponseInPlace, Last
<1>1. /\ size' = size /\ asked' = asked /\ taken' = taken /\ object' = object
      /\ response' = response /\ remaining' = remaining /\ skip' = skip
      /\ pending' = SubSeq(pending, c + 1, Len(pending))
      /\ Reading!Authentic(cipher, index) =>
             /\ body' = body \o Reading!Selected(cipher, index)
             /\ index' = index + 1 /\ reading' = reading
  BY DEF Reading!OpenChunk, Reading!sealVars
<1>2. /\ StoredAt(index) = Reading!ChunkOffset(index) /\ StoredAt(index) \in Nat
      /\ StoredAt(index + 1) = StoredAt(index) + c /\ c \in Nat \ {0}
      /\ index \in Nat /\ index * ChunkSize < size /\ index < size
  <2>1. /\ StoredAt(index) = Reading!ChunkOffset(index) /\ StoredAt(index) \in Nat
        /\ StoredAt(index + 1) = StoredAt(index) + c /\ c \in Nat \ {0}
        /\ index \in Nat /\ index * ChunkSize < size
    BY <1>0, StoredChunks
  <2>. QED
    BY <1>0, <2>1, ChunkLayout
<1>. HIDE DEF c
<1>3. /\ cipher \in Seq(SealedByte) /\ Len(cipher) = c
      /\ \A j \in 1..c : cipher[j] = pending[j]
  <2>1. 0 \in Nat /\ c \in Nat /\ 0 <= c /\ c - 0 = c /\ 0 + 1 = 1
    BY <1>2
  <2>2. /\ SubSeq(pending, 0 + 1, c) \in Seq(SealedByte)
        /\ Len(SubSeq(pending, 0 + 1, c)) = c - 0
        /\ \A j \in 1..(c - 0) : SubSeq(pending, 0 + 1, c)[j] = pending[0 + j]
    BY <1>0, <2>1, SliceOf
  <2>. QED
    BY <1>0, <2>1, <2>2
<1>4. /\ pending' \in Seq(SealedByte) /\ Len(pending') = Len(pending) - c
      /\ \A j \in 1..(Len(pending) - c) : pending'[j] = pending[c + j]
  BY <1>0, <1>1, <1>2, SliceOf
<1>. HIDE DEF cipher
<1>5. Reading!Authentic(cipher, index) /\ cipher[1].bytes = Plain(index)
  <2>1. ASSUME NEW j \in 1..c
        PROVE  cipher[j] = [chunk |-> index, bytes |-> Plain(index)]
    <3>1. j \in 1..Len(pending)
      BY <1>0, <1>2
    <3>2. Reading!ChunkOffset(index) + j <= Len(object)
          /\ pending[j] = object[Reading!ChunkOffset(index) + j]
      BY <1>0, <1>2, <3>1 DEF PendingInPlace
    <3>3. index \in 0..(size - 1) /\ j \in 1..Reading!CipherBytes(index)
      BY <1>0, <1>2 DEF c, Served
    <3>4. object[Reading!ChunkOffset(index) + j] = [chunk |-> index, bytes |-> Plain(index)]
      BY <1>0, <1>2, <3>2, <3>3 DEF InPlace
    <3>. QED
      BY <1>3, <3>2, <3>4
  <2>. QED
    BY <1>0, <1>2, <1>3, <2>1, SealedOpens DEF c
<1>6. /\ body' = Run(Start, ByteAt(index')) /\ index' = index + 1 /\ reading' = "remote"
      /\ index' \in First..(Last + 1) /\ index' \in Nat
  <2>1. index <= Last /\ index + 1 \in Nat
    BY <1>0, <1>2
  <2>2. /\ body \o Reading!Selected(cipher, index) = Run(Start, ByteAt(index + 1))
        /\ index + 1 \in First..(Last + 1)
    BY <1>0, <1>5, <2>1, BodyExtends
  <2>. QED
    BY <1>0, <1>1, <1>5, <2>1, <2>2
<1>7. RangeType'
  BY <1>1, <1>4, <1>6 DEF RangeInv, RangeType
<1>8. SealedInPlace'
  BY <1>0, <1>1, <1>6, SameChunks DEF SealedInPlace
<1>9. InRange'
  BY <1>0, <1>1, <1>6, RangeKept
<1>10. ResponseInPlace'
  <2>1. /\ StoredAt(index)' = StoredAt(index) + c /\ SpanEnd' = SpanEnd
        /\ StoredAt(index)' + Len(pending') = StoredAt(index) + Len(pending)
    BY <1>0, <1>1, <1>2, <1>4, <1>6, RangeKept
  <2>2. skip = 0 /\ remaining \in Nat
    <3>1. Len(<<>>) = 0
      BY EmptySeq
    <3>. QED
      BY <1>0, <1>2, <3>1 DEF RangeInv, RangeType, ResponseInPlace
  <2>3. Sent' = Sent
    BY <1>1, <2>1 DEF Sent
  <2>4. PendingInPlace'
    <3>. SUFFICES ASSUME NEW j \in 1..Len(pending')
                  PROVE  /\ StoredAt(index)' + j <= Len(object)
                         /\ pending'[j] = object[StoredAt(index)' + j]
      BY <1>1 DEF PendingInPlace
    <3>1. c + j \in 1..Len(pending) /\ j \in 1..(Len(pending) - c)
      BY <1>0, <1>2, <1>4
    <3>2. StoredAt(index) + (c + j) <= Len(object)
          /\ pending[c + j] = object[StoredAt(index) + (c + j)]
      BY <1>0, <3>1 DEF PendingInPlace
    <3>3. StoredAt(index) + (c + j) = StoredAt(index)' + j
      BY <1>2, <2>1, <3>1
    <3>. QED
      BY <1>4, <3>1, <3>2, <3>3
  <2>5. StoredAt(index)' + Len(pending') + remaining = SpanEnd
    BY <1>0, <2>1 DEF RangeInv, ResponseInPlace
  <2>6. remaining > 0 =>
          /\ Sent \in 0..Len(object) /\ Sent + Len(response) <= Len(object)
          /\ Sent + Len(response) < SpanEnd => Sent + Len(response) = Len(object)
          /\ \A j \in 1..Len(response) : response[j] = object[Sent + j]
    BY <1>0 DEF RangeInv, ResponseInPlace
  <2>7. remaining' > 0 =>
          /\ Sent' \in 0..Len(object') /\ Sent' + Len(response') <= Len(object')
          /\ Sent' + Len(response') < SpanEnd' => Sent' + Len(response') = Len(object')
          /\ \A j \in 1..Len(response') : response'[j] = object'[Sent' + j]
    <3>. HIDE DEF Sent
    <3>. QED
      BY <1>1, <2>1, <2>3, <2>6
  <2>8. skip' = 0 /\ ~(skip' > 0) /\ remaining' = remaining /\ SpanEnd' = SpanEnd
    BY <1>1, <2>1, <2>2
  <2>9. StoredAt(index)' + Len(pending') + remaining' = SpanEnd'
    BY <2>5, <2>8
  <2>. QED
    BY <2>4, <2>7, <2>8, <2>9 DEF ResponseInPlace
<1>. QED
  BY <1>0, <1>1, <1>6, <1>7, <1>8, <1>9, <1>10 DEF RangeInv, Sealing, BodyGrows

\* So are those in the file, unless it ends before.
LEMMA ReadLocalChunkStep == RangeInv /\ Reading!ReadLocalChunk => RangeInv'
<1>. SUFFICES ASSUME RangeInv, Reading!ReadLocalChunk PROVE RangeInv'
  OBVIOUS
<1>. HIDE DEF First, Last, Start, End, SpanEnd
<1>. DEFINE c == Reading!CipherBytes(index)
            o == Reading!ChunkOffset(index)
            cipher == Reading!Slice(object, o + 1, o + c)
<1>0. /\ Served /\ InRange /\ Reading!Resolve(asked) # Reading!NoRange
      /\ InPlace(object, size)
      /\ First \in Nat /\ Last \in Nat /\ First <= Last /\ SpanEnd \in Nat
      /\ object \in Seq(SealedByte) /\ Len(object) \in Nat
      /\ reading \in {"opened", "local"} /\ index \in First..Last
      /\ pending = <<>>
  BY ReadingState DEF Reading!ReadLocalChunk, RangeInv, BodyGrows, Sealing, Last
<1>1. /\ size' = size /\ asked' = asked /\ taken' = taken /\ object' = object
      /\ response' = response /\ remaining' = remaining /\ skip' = skip /\ pending' = pending
      /\ IF Reading!Authentic(cipher, index)
         THEN /\ body' = body \o Reading!Selected(cipher, index)
              /\ index' = index + 1 /\ reading' = "local"
         ELSE reading' = "failed" /\ body' = body /\ index' = index
  BY DEF Reading!ReadLocalChunk, Reading!sealVars
<1>2. /\ o \in Nat /\ c \in Nat \ {0} /\ o + c <= SpanEnd
      /\ index \in Nat /\ index * ChunkSize < size /\ index < size
  <2>1. /\ StoredAt(index) = o /\ StoredAt(index) \in Nat
        /\ StoredAt(index + 1) = StoredAt(index) + c /\ c \in Nat \ {0}
        /\ StoredAt(index + 1) <= SpanEnd
        /\ index \in Nat /\ index * ChunkSize < size
    BY <1>0, StoredChunks
  <2>. QED
    BY <1>0, <2>1, ChunkLayout
<1>. HIDE DEF c, o
<1>3. o + c <= Len(object) => Reading!Authentic(cipher, index) /\ cipher[1].bytes = Plain(index)
  <2>. SUFFICES ASSUME o + c <= Len(object)
                PROVE  Reading!Authentic(cipher, index) /\ cipher[1].bytes = Plain(index)
    OBVIOUS
  <2>1. cipher = SubSeq(object, o + 1, o + c)
    <3>1. Reading!Min({o + c, Len(object)}) = o + c
      BY <1>0, <1>2, MinTwo
    <3>. QED
      BY <3>1 DEF Reading!Slice
  <2>2. /\ cipher \in Seq(SealedByte) /\ Len(cipher) = c
        /\ \A j \in 1..c : cipher[j] = object[o + j]
    <3>. DEFINE to == o + c
    <3>1. to \in Nat /\ o <= to /\ to - o = c /\ to <= Len(object)
      BY <1>0, <1>2
    <3>. HIDE DEF to
    <3>2. /\ SubSeq(object, o + 1, to) \in Seq(SealedByte)
          /\ Len(SubSeq(object, o + 1, to)) = to - o
          /\ \A j \in 1..(to - o) : SubSeq(object, o + 1, to)[j] = object[o + j]
      BY <1>0, <1>2, <3>1, SliceOf
    <3>. QED
      BY <2>1, <3>1, <3>2 DEF to
  <2>. HIDE DEF cipher
  <2>3. ASSUME NEW j \in 1..c
        PROVE  cipher[j] = [chunk |-> index, bytes |-> Plain(index)]
    <3>1. o + j <= Len(object)
      BY <1>0, <1>2
    <3>2. index \in 0..(size - 1) /\ j \in 1..Reading!CipherBytes(index)
      BY <1>0, <1>2 DEF c, Served
    <3>3. object[o + j] = [chunk |-> index, bytes |-> Plain(index)]
      BY <1>0, <1>2, <3>1, <3>2 DEF InPlace, o
    <3>. QED
      BY <2>2, <3>3
  <2>. QED
    BY <1>0, <1>2, <2>2, <2>3, SealedOpens DEF c
<1>4. Reading!Authentic(cipher, index) => o + c <= Len(object)
  <2>. SUFFICES ASSUME Len(object) < o + c PROVE Len(cipher) # c
    BY <1>0, <1>2 DEF Reading!Authentic, c
  <2>1. cipher = SubSeq(object, o + 1, Len(object))
    <3>1. Reading!Min({o + c, Len(object)}) = Len(object)
      BY <1>0, <1>2, MinTwo
    <3>. QED
      BY <3>1 DEF Reading!Slice
  <2>2. CASE o <= Len(object)
    <3>1. Len(cipher) = Len(object) - o
      BY <1>0, <1>2, <2>1, <2>2, SliceOf
    <3>. QED
      BY <1>0, <1>2, <3>1
  <2>3. CASE Len(object) < o
    <3>1. cipher = <<>>
      BY <1>0, <1>2, <2>1, <2>3, SubSeqEmpty
    <3>. QED
      BY <1>2, <3>1, EmptySeq
  <2>. QED
    BY <1>0, <1>2, <2>2, <2>3
<1>. HIDE DEF cipher
<1>5. CASE Reading!Authentic(cipher, index)
  <2>1. index <= Last /\ index + 1 \in Nat /\ index + 1 # 0
    BY <1>0, <1>2
  <2>2. /\ body \o Reading!Selected(cipher, index) = Run(Start, ByteAt(index + 1))
        /\ index + 1 \in First..(Last + 1)
    BY <1>0, <1>3, <1>4, <1>5, <2>1, BodyExtends
  <2>3. InRange'
    BY <1>0, <1>1, <1>5, <2>2, RangeKept
  <2>4. RangeType'
    BY <1>0, <1>1, <1>5, <2>1 DEF RangeInv, RangeType
  <2>5. SealedInPlace'
    BY <1>0, <1>1, <1>5, SameChunks DEF SealedInPlace
  <2>. QED
    BY <1>0, <1>1, <1>5, <2>3, <2>4, <2>5 DEF RangeInv, Sealing, BodyGrows, ResponseInPlace
<1>6. CASE ~Reading!Authentic(cipher, index)
  <2>1. Len(object) < SpanEnd
    BY <1>0, <1>2, <1>3, <1>6
  <2>2. InRange'
    BY <1>0, <1>1, <1>6, RangeKept DEF InRange
  <2>3. RangeType'
    BY <1>0, <1>1, <1>6 DEF RangeInv, RangeType
  <2>4. SealedInPlace'
    BY <1>0, <1>1, <1>6, SameChunks DEF SealedInPlace
  <2>. QED
    BY <1>0, <1>1, <1>6, <2>1, <2>2, <2>3, <2>4, RangeKept
       DEF RangeInv, Sealing, BodyGrows, ResponseInPlace
<1>. QED
  BY <1>5, <1>6

\* What a fragment brings is the continuation of what was received.
LEMMA ReceiveStep == RangeInv /\ Reading!Receive => RangeInv'
<1>. SUFFICES ASSUME RangeInv, Reading!Receive PROVE RangeInv'
  OBVIOUS
<1>. HIDE DEF First, Last, Start, End, SpanEnd
<1>. DEFINE at == StoredAt(index)
            p == Len(pending)
            m == Len(response)
            sent == (at + p) - skip
<1>0. /\ Served /\ InRange /\ Reading!Resolve(asked) # Reading!NoRange
      /\ InPlace(object, size) /\ SpanEnd \in Nat
      /\ object \in Seq(SealedByte) /\ Len(object) \in Nat
      /\ pending \in Seq(SealedByte) /\ p \in Nat
      /\ response \in Seq(SealedByte) /\ m \in Nat
      /\ reading = "remote" /\ index \in Nat /\ at \in Nat
      /\ remaining \in Nat \ {0} /\ skip \in Nat /\ MaxFragment \in Nat
  BY ReadingState DEF Reading!Receive
<1>1. /\ PendingInPlace /\ at + p + remaining = SpanEnd
      /\ skip > 0 => pending = <<>>
      /\ sent \in 0..Len(object) /\ sent + m <= Len(object)
      /\ sent + m < SpanEnd => sent + m = Len(object)
      /\ \A j \in 1..m : response[j] = object[sent + j]
  BY <1>0 DEF RangeInv, ResponseInPlace, Sent
<1>2. /\ size' = size /\ asked' = asked /\ taken' = taken /\ object' = object
      /\ reading' = reading /\ index' = index /\ body' = body
  BY DEF Reading!Receive, Reading!sealVars
<1>3. PICK n \in 1..Reading!Min({MaxFragment, m}) :
         LET skipped == Reading!Min({skip, n})
             accepted == SubSeq(response, skipped + 1, Reading!Min({n, skipped + remaining}))
         IN  /\ skip' = skip - skipped
             /\ response' = SubSeq(response, n + 1, m)
             /\ remaining' = remaining - Len(accepted)
             /\ pending' = pending \o accepted
  BY DEF Reading!Receive
<1>. DEFINE k == Reading!Min({skip, n})
            to == Reading!Min({n, k + remaining})
            accepted == SubSeq(response, k + 1, to)
<1>. HIDE DEF at, p, m
<1>4. n \in Nat \ {0} /\ n <= m
  <2>1. Reading!Min({MaxFragment, m}) = IF MaxFragment <= m THEN MaxFragment ELSE m
    BY <1>0, MinTwo
  <2>. QED
    BY <1>0, <2>1
<1>5. k = (IF skip <= n THEN skip ELSE n) /\ k \in Nat /\ k <= n /\ k <= skip
  BY <1>0, <1>4, MinTwo
<1>. HIDE DEF k
<1>6. /\ to = (IF n <= k + remaining THEN n ELSE k + remaining)
      /\ to \in Nat /\ k <= to /\ to <= n /\ to <= m
  BY <1>0, <1>4, <1>5, MinTwo
<1>. HIDE DEF to
<1>7. /\ accepted \in Seq(SealedByte) /\ Len(accepted) = to - k
      /\ \A j \in 1..(to - k) : accepted[j] = response[k + j]
  <2>1. response \in Seq(SealedByte) /\ k \in Nat /\ to \in Nat /\ k <= to /\ to <= Len(response)
    BY <1>0, <1>5, <1>6 DEF m
  <2>. QED
    BY <2>1, SliceOf
<1>8. /\ response' \in Seq(SealedByte) /\ Len(response') = m - n
      /\ \A j \in 1..(m - n) : response'[j] = response[n + j]
  <2>1. response' = SubSeq(response, n + 1, m)
    BY <1>3
  <2>. QED
    BY <1>0, <1>4, <2>1, SliceOf DEF m
<1>9. skip' = skip - k /\ remaining' = remaining - Len(accepted) /\ pending' = pending \o accepted
  BY <1>3 DEF k, to
<1>. HIDE DEF accepted
<1>10. /\ pending' \in Seq(SealedByte) /\ Len(pending') = p + (to - k)
       /\ \A j \in 1..(p + (to - k)) :
              pending'[j] = IF j <= p THEN pending[j] ELSE accepted[j - p]
  <2>1. /\ pending \o accepted \in Seq(SealedByte)
        /\ Len(pending \o accepted) = Len(pending) + Len(accepted)
        /\ \A j \in 1..(Len(pending) + Len(accepted)) : (pending \o accepted)[j] =
               IF j <= Len(pending) THEN pending[j] ELSE accepted[j - Len(pending)]
    BY <1>0, <1>7, ConcatProperties
  <2>2. Len(pending) = p /\ Len(accepted) = to - k
    BY <1>7 DEF p
  <2>. QED
    BY <1>9, <2>1, <2>2
<1>11. skip' \in Nat /\ remaining' \in Nat /\ remaining' = remaining - (to - k)
  <2>1. remaining' = remaining - (to - k) /\ skip' = skip - k
    BY <1>7, <1>9
  <2>2. to - k \in Nat /\ to - k <= remaining
    BY <1>0, <1>5, <1>6
  <2>. HIDE DEF sent
  <2>. QED
    BY <1>0, <1>5, <2>1, <2>2
<1>12. RangeType'
  BY <1>0, <1>2, <1>8, <1>10, <1>11 DEF RangeInv, RangeType
<1>13. SealedInPlace'
  BY <1>0, <1>2, SameChunks DEF SealedInPlace
<1>14. InRange'
  BY <1>0, <1>2, RangeKept DEF InRange
<1>15. StoredAt(index)' = at /\ SpanEnd' = SpanEnd
  BY <1>2, RangeKept DEF at
<1>16. PendingInPlace'
  <2>. SUFFICES ASSUME NEW j \in 1..(p + (to - k))
                PROVE  at + j <= Len(object) /\ pending'[j] = object[at + j]
    BY <1>2, <1>10, <1>15 DEF PendingInPlace
  <2>1. CASE j <= p
    <3>1. j \in 1..p
      BY <1>0, <2>1
    <3>2. at + j <= Len(object) /\ pending[j] = object[at + j]
      BY <1>1, <3>1 DEF PendingInPlace, at, p
    <3>. QED
      BY <1>10, <2>1, <3>2
  <2>2. CASE j > p
    <3>. DEFINE h == j - p
    <3>1. h \in 1..(to - k) /\ j = p + h
      BY <1>0, <1>5, <1>6, <2>2
    <3>2. k = skip
      BY <1>0, <1>4, <1>5, <1>6, <3>1
    <3>3. sent + (k + h) = at + j /\ k + h \in 1..m
      BY <1>0, <1>5, <1>6, <3>1, <3>2
    <3>4. accepted[h] = response[k + h] /\ response[k + h] = object[sent + (k + h)]
      BY <1>1, <1>7, <3>1, <3>3
    <3>5. at + j <= Len(object)
      <4>1. k + h <= m /\ sent \in Nat /\ sent + m <= Len(object) /\ k + h \in Nat
        BY <1>0, <1>1, <3>3
      <4>. HIDE DEF sent, h
      <4>2. sent + (k + h) <= Len(object)
        BY <1>0, <4>1
      <4>. QED
        BY <3>3, <4>2
    <3>6. pending'[j] = accepted[h]
      BY <1>0, <1>10, <2>2
    <3>. QED
      BY <3>3, <3>4, <3>5, <3>6
  <2>. QED
    BY <1>0, <1>6, <2>1, <2>2
<1>17. at + Len(pending') + remaining' = SpanEnd
  BY <1>0, <1>1, <1>5, <1>6, <1>10, <1>11
<1>18. skip' > 0 => remaining' > 0 /\ pending' = <<>>
  <2>. SUFFICES ASSUME skip' > 0 PROVE remaining' > 0 /\ pending' = <<>>
    OBVIOUS
  <2>1. k = n /\ to = k /\ skip > 0
    BY <1>0, <1>4, <1>5, <1>6, <1>9
  <2>2. p = 0
    BY <1>1, <2>1, EmptySeq DEF p
  <2>3. Len(pending') = 0
    BY <1>0, <1>5, <1>6, <1>10, <2>1, <2>2
  <2>4. pending' = <<>>
    BY <1>10, <2>3, EmptySeq
  <2>. QED
    BY <1>0, <1>5, <1>6, <1>11, <2>1, <2>4
<1>19. remaining' > 0 =>
          /\ Sent' = sent + n /\ sent + n \in 0..Len(object)
          /\ (sent + n) + Len(response') <= Len(object)
          /\ (sent + n) + Len(response') < SpanEnd => (sent + n) + Len(response') = Len(object)
          /\ \A j \in 1..Len(response') : response'[j] = object[(sent + n) + j]
  <2>. SUFFICES ASSUME remaining' > 0
                PROVE  /\ Sent' = sent + n /\ sent + n \in 0..Len(object)
                       /\ (sent + n) + Len(response') = sent + m
                       /\ \A j \in 1..Len(response') : response'[j] = object[(sent + n) + j]
    <3>. HIDE DEF sent
    <3>. QED
      BY <1>1
  <2>1. to = n
    BY <1>0, <1>4, <1>5, <1>6, <1>11
  <2>2. Sent' = (at + (p + (to - k))) - (skip - k)
    BY <1>9, <1>10, <1>15 DEF Sent
  <2>3. Sent' = sent + n
    BY <1>0, <1>4, <1>5, <1>6, <2>1, <2>2
  <2>4. sent \in Nat /\ sent + m <= Len(object)
    BY <1>0, <1>1
  <2>. HIDE DEF sent
  <2>5. sent + n \in 0..Len(object) /\ (sent + n) + Len(response') = sent + m
    BY <1>0, <1>4, <1>8, <2>4
  <2>6. ASSUME NEW j \in 1..Len(response')
        PROVE  response'[j] = object[(sent + n) + j]
    <3>1. j \in 1..(m - n) /\ n + j \in 1..m /\ sent + (n + j) = (sent + n) + j
      BY <1>0, <1>4, <1>8, <2>4
    <3>. QED
      BY <1>1, <1>8, <3>1
  <2>. QED
    BY <2>3, <2>5, <2>6
<1>20. ResponseInPlace'
  <2>. HIDE DEF sent
  <2>. QED
    BY <1>2, <1>15, <1>16, <1>17, <1>18, <1>19 DEF ResponseInPlace
<1>. QED
  BY <1>0, <1>2, <1>12, <1>13, <1>14, <1>20 DEF RangeInv, Sealing, BodyGrows

\* The response ends early only where the object ends.
LEMMA EndOfResponseStep == RangeInv /\ Reading!EndOfResponse => RangeInv'
<1>. SUFFICES ASSUME RangeInv, Reading!EndOfResponse PROVE RangeInv'
  OBVIOUS
<1>. HIDE DEF First, Last, Start, End, SpanEnd
<1>. DEFINE at == StoredAt(index)
            p == Len(pending)
            m == Len(response)
<1>0. /\ Served /\ InRange /\ Reading!Resolve(asked) # Reading!NoRange
      /\ InPlace(object, size) /\ SpanEnd \in Nat /\ First \in Nat /\ Last \in Nat
      /\ Len(object) \in Nat /\ p \in Nat /\ m \in Nat
      /\ reading = "remote" /\ index \in First..(Last + 1) /\ index \in Nat /\ at \in Nat
      /\ remaining \in Nat /\ skip \in Nat /\ pending \in Seq(SealedByte)
      /\ ~Reading!HasChunk /\ (response = <<>> \/ remaining = 0)
  BY ReadingState DEF Reading!EndOfResponse
<1>1. /\ at + p + remaining = SpanEnd
      /\ skip > 0 => remaining > 0
      /\ remaining > 0 => /\ (at + p) - skip + m < SpanEnd => (at + p) - skip + m = Len(object)
  BY <1>0 DEF RangeInv, ResponseInPlace, Sent
<1>2. /\ size' = size /\ asked' = asked /\ taken' = taken /\ object' = object
      /\ index' = index /\ body' = body /\ pending' = pending
      /\ response' = response /\ remaining' = remaining /\ skip' = skip
      /\ reading' = IF skip > 0 \/ remaining > 0 \/ pending # <<>> \/ index <= Last
                    THEN "failed" ELSE "done"
  BY DEF Reading!EndOfResponse, Reading!readVars, Reading!sealVars, Last
<1>3. RangeType'
  BY <1>0, <1>2 DEF RangeInv, RangeType
<1>4. SealedInPlace'
  BY <1>0, <1>2, SameChunks DEF SealedInPlace
<1>5. InRange'
  BY <1>0, <1>2, RangeKept DEF InRange
<1>6. remaining > 0 => Len(object) < SpanEnd
  <2>. SUFFICES ASSUME remaining > 0 PROVE Len(object) < SpanEnd
    OBVIOUS
  <2>1. m = 0
    BY <1>0, EmptySeq
  <2>2. /\ (at + p) - skip + m < SpanEnd => (at + p) - skip + m = Len(object)
        /\ at + p + remaining = SpanEnd
    BY <1>1
  <2>. HIDE DEF at, p, m
  <2>3. (at + p) - skip + m < SpanEnd
    BY <1>0, <2>1, <2>2
  <2>. QED
    BY <2>2, <2>3
<1>7. remaining = 0 => skip = 0 /\ pending = <<>> /\ index > Last
  <2>. SUFFICES ASSUME remaining = 0 PROVE skip = 0 /\ pending = <<>> /\ index > Last
    OBVIOUS
  <2>1. skip = 0 /\ at + p = SpanEnd
    <3>. HIDE DEF at, p, m
    <3>. QED
      BY <1>0, <1>1
  <2>2. CASE index <= Last
    <3>1. index \in First..Last
      BY <1>0, <2>2
    <3>2. /\ StoredAt(index + 1) = at + Reading!CipherBytes(index)
          /\ StoredAt(index + 1) <= SpanEnd /\ Reading!CipherBytes(index) \in Nat
      BY <1>0, <3>1, StoredChunks
    <3>3. p >= Reading!CipherBytes(index)
      <4>. HIDE DEF at, p
      <4>. QED
        BY <1>0, <2>1, <3>2
    <3>. QED
      BY <1>0, <2>2, <3>3 DEF Reading!HasChunk, Last
  <2>3. CASE index > Last
    <3>1. at = SpanEnd
      BY <2>3 DEF StoredAt
    <3>2. p = 0
      <4>. HIDE DEF at, p
      <4>. QED
        BY <1>0, <2>1, <3>1
    <3>3. pending = <<>>
      BY <1>0, <3>2, EmptySeq
    <3>. QED
      BY <2>1, <2>3, <3>3
  <2>. QED
    BY <1>0, <2>2, <2>3
<1>8. \/ reading' = "failed" /\ Len(object) < SpanEnd
      \/ reading' = "done" /\ index > Last
  BY <1>0, <1>2, <1>6, <1>7
<1>. HIDE DEF at, p, m
<1>. QED
  BY <1>2, <1>3, <1>4, <1>5, <1>8, RangeKept
     DEF RangeInv, Sealing, BodyGrows, ResponseInPlace

\* The other ends of a reading.
LEMMA LastSteps ==
  RangeInv /\ (Reading!ConnectionBreaks \/ Reading!EndOfLocal) => RangeInv'
<1>. SUFFICES ASSUME RangeInv, Reading!ConnectionBreaks \/ Reading!EndOfLocal PROVE RangeInv'
  OBVIOUS
<1>. HIDE DEF First, Last, Start, End, SpanEnd
<1>0. InRange /\ InPlace(object, size)
  BY ReadingState DEF Reading!ConnectionBreaks, Reading!EndOfLocal
<1>1. /\ size' = size /\ asked' = asked /\ taken' = taken /\ object' = object
      /\ index' = index /\ body' = body /\ pending' = pending
      /\ response' = response /\ remaining' = remaining /\ skip' = skip
      /\ \/ reading = "remote" /\ reading' = "broken"
         \/ reading = "local" /\ reading' = "done" /\ index > Last
  BY DEF Reading!ConnectionBreaks, Reading!EndOfLocal, Reading!readVars, Reading!sealVars, Last
<1>2. RangeType'
  BY <1>1 DEF RangeInv, RangeType
<1>3. SealedInPlace'
  BY <1>0, <1>1, SameChunks DEF SealedInPlace
<1>4. InRange'
  BY <1>0, <1>1, RangeKept DEF InRange
<1>. QED
  BY <1>1, <1>2, <1>3, <1>4, RangeKept
     DEF RangeInv, Sealing, BodyGrows, ResponseInPlace

\* Steps that change nothing here.
LEMMA RangeStutters == RangeInv /\ UNCHANGED Reading!vars => RangeInv'
<1>. SUFFICES ASSUME RangeInv, size' = size, asked' = asked, taken' = taken, object' = object,
                     index' = index, body' = body, pending' = pending, reading' = reading,
                     response' = response, remaining' = remaining, skip' = skip
              PROVE  RangeInv'
  BY DEF Reading!vars, Reading!readVars, Reading!sealVars
<1>2. /\ InRange' <=> InRange
      /\ StoredAt(index)' = StoredAt(index)
      /\ First' = First /\ Last' = Last /\ SpanEnd' = SpanEnd
      /\ Reading!Resolve(asked)' = Reading!Resolve(asked) /\ Reading!NoRange' = Reading!NoRange
  BY RangeKept, SameRange DEF InRange, Reading!NoRange
<1>3. SealedInPlace'
  BY SameChunks DEF RangeInv, SealedInPlace
<1>. HIDE DEF First, Last, Start, End, SpanEnd
<1>4. RangeType'
  BY DEF RangeInv, RangeType
<1>5. Sealing'
  BY SameRange DEF RangeInv, Sealing
<1>6. BodyGrows'
  BY <1>2 DEF RangeInv, BodyGrows
<1>7. ResponseInPlace'
  <2>1. PendingInPlace' <=> PendingInPlace
    BY <1>2 DEF PendingInPlace
  <2>2. Sent' = Sent
    BY <1>2 DEF Sent
  <2>. QED
    BY <1>2, <2>1, <2>2 DEF RangeInv, ResponseInPlace
<1>. QED
  BY <1>3, <1>4, <1>5, <1>6, <1>7 DEF RangeInv

\* Every step keeps it.
LEMMA RangeStep == RangeInv /\ [Reading!Next]_Reading!vars => RangeInv'
BY SealFragmentStep, SealChunkStep, SealLastStep, AskStep, ReadHeaderStep, RequestRangeStep,
   ReceiveStep, OpenChunkStep, EndOfResponseStep, LastSteps, ReadLocalChunkStep, RangeStutters
   DEF Reading!Next

\* It says what the properties say.
LEMMA RangeServed == RangeInv => BodyIsRange /\ StoredIsServed /\ SealedAsAnnounced
<1>. SUFFICES ASSUME RangeInv PROVE BodyIsRange /\ StoredIsServed /\ SealedAsAnnounced
  OBVIOUS
<1>1. SealedAsAnnounced
  BY DEF RangeInv, Sealing, SealedAsAnnounced, Reading!SealedAsAnnounced
<1>2. Served
  BY DEF RangeInv, RangeType, Served
<1>3. ASSUME InRange
      PROVE  /\ Reading!Wanted = Start..End /\ Reading!Min(Reading!Wanted) = Start
             /\ Start \in Nat /\ End \in Nat /\ Start <= End
             /\ body = Run(Start, ByteAt(index)) /\ ByteAt(index) \in Nat
             /\ Start <= ByteAt(index) /\ ByteAt(index) <= End + 1
             /\ index > Last => ByteAt(index) = End + 1
  <2>1. /\ Start \in Nat /\ End \in Nat /\ Start <= End /\ Reading!Wanted = Start..End
        /\ First \in Nat /\ Last \in Nat /\ Reading!Resolve(asked) # Reading!NoRange
        /\ index \in First..(Last + 1) /\ body = Run(Start, ByteAt(index))
        /\ First * ChunkSize <= Start /\ Start < First * ChunkSize + ChunkSize
        /\ Last * ChunkSize <= End /\ End < Last * ChunkSize + ChunkSize
    BY <1>2, <1>3, Resolved, SpanLayout DEF InRange
  <2>2. Reading!Min(Start..End) = Start
    BY <2>1 DEF Reading!Min
  <2>3. CASE index > Last
    BY <2>1, <2>2, <2>3 DEF ByteAt
  <2>4. CASE index <= Last
    <3>1. index \in First..Last
      BY <2>1, <2>4
    <3>2. /\ index < Last => index * ChunkSize + ChunkSize <= Last * ChunkSize
          /\ First < index => First * ChunkSize + ChunkSize <= index * ChunkSize
      BY <1>2, <2>1, <3>1, SpanLayout
    <3>3. /\ ChunkSize \in Nat \ {0} /\ index * ChunkSize \in Nat
          /\ First * ChunkSize \in Nat /\ Last * ChunkSize \in Nat
      BY <2>1, <3>1, Times, RangeAssumption
    <3>. HIDE DEF First, Last, Start, End
    <3>4. ByteAt(index) = IF index = First THEN Start ELSE index * ChunkSize
      BY <2>1, <2>4 DEF ByteAt
    <3>5. CASE index = First
      BY <2>1, <2>2, <2>4, <3>4, <3>5
    <3>6. CASE index # First
      <4>1. First < index /\ (index = Last \/ index < Last)
        BY <2>1, <3>1, <3>6
      <4>. QED
        BY <2>1, <2>2, <2>4, <3>2, <3>3, <3>4, <3>6, <4>1
    <3>. QED
      BY <3>5, <3>6
  <2>. QED
    BY <2>1, <2>3, <2>4
<1>4. StoredIsServed
  <2>. SUFFICES ASSUME InRange, Len(object) < SpanEnd
                PROVE  \E b \in Reading!Wanted :
                           Len(object) < Reading!ChunkOffset(b \div ChunkSize)
                                         + Reading!CipherBytes(b \div ChunkSize)
    <3>. HIDE DEF SpanEnd
    <3>. QED
      BY DEF RangeInv, BodyGrows, StoredIsServed, Reading!StoredIsServed
  <2>1. End \in Reading!Wanted /\ End \div ChunkSize = Last
    BY <1>3 DEF End, Last, Reading!LastChunk
  <2>2. SpanEnd = Reading!ChunkOffset(Last) + Reading!CipherBytes(Last)
    BY <1>2, SpanLayout DEF InRange
  <2>. HIDE DEF End, Last, SpanEnd
  <2>. QED
    BY <2>1, <2>2
<1>5. BodyIsRange
  <2>. HIDE DEF First, Last, Start, End, SpanEnd
  <2>1. CASE InRange
    <3>. DEFINE n == ByteAt(index) - Start
    <3>1. /\ body \in Seq(Nat) /\ Len(body) = n /\ DOMAIN body = 1..n
          /\ body = [j \in 1..n |-> Start + j - 1]
          /\ \A j \in 1..n : body[j] = Start + j - 1
      <4>. DEFINE to == ByteAt(index)
      <4>1. to \in Nat /\ Start \in Nat /\ Start <= to /\ body = Run(Start, to)
        BY <1>3, <2>1
      <4>. HIDE DEF to
      <4>2. Len(body) = to - Start /\ body \in Seq(Nat)
        BY <4>1, RunSeq
      <4>. QED
        BY <4>1, <4>2 DEF Run, to
    <3>2. n \in Nat /\ n <= End + 1 - Start /\ (index > Last => n = End + 1 - Start)
      BY <1>3, <2>1
    <3>. HIDE DEF n
    <3>3. Reading!ToSet(body) = {Start + j - 1 : j \in 1..n}
      BY <3>1 DEF Reading!ToSet
    <3>4. Reading!ToSet(body) \subseteq Start..End
      BY <1>3, <2>1, <3>2, <3>3
    <3>5. index > Last => Reading!ToSet(body) = Start..End
      <4>. SUFFICES ASSUME index > Last, NEW i \in Start..End
                    PROVE  \E j \in 1..n : i = Start + j - 1
        BY <3>3, <3>4
      <4>1. i - Start + 1 \in 1..n /\ i = Start + (i - Start + 1) - 1
        BY <1>3, <2>1, <3>2
      <4>. QED
        BY <4>1
    <3>6. reading # "unsatisfiable"
      BY <2>1 DEF RangeInv, BodyGrows, InRange
    <3>7. Reading!Wanted # {}
      BY <1>3, <2>1
    <3>8. reading = "done" => index > Last
      BY DEF RangeInv, BodyGrows
    <3>9. body = [j \in 1..Len(body) |-> Reading!Min(Reading!Wanted) + j - 1]
      BY <1>3, <2>1, <3>1
    <3>. QED
      BY <1>3, <2>1, <3>4, <3>5, <3>6, <3>7, <3>8, <3>9 DEF BodyIsRange, Reading!BodyIsRange
  <2>2. CASE ~InRange
    <3>1. body = <<>> /\ reading \notin {"opened", "remote", "local", "broken", "done"}
      BY <2>2 DEF RangeInv, BodyGrows
    <3>2. reading = "unsatisfiable" => Reading!Wanted = {}
      BY <1>2, Resolved DEF RangeInv, BodyGrows
    <3>3. Len(body) = 0 /\ DOMAIN body = {}
      BY <3>1, EmptySeq
    <3>4. body = [j \in 1..Len(body) |-> Reading!Min(Reading!Wanted) + j - 1]
      BY <3>1, <3>3
    <3>5. Reading!ToSet(body) = {}
      BY <3>3 DEF Reading!ToSet
    <3>. QED
      BY <3>1, <3>2, <3>4, <3>5 DEF BodyIsRange, Reading!BodyIsRange
  <2>. QED
    BY <2>1, <2>2
<1>. QED
  BY <1>1, <1>4, <1>5

\* For chunks, headers and tags of any length: what a player gets is the bytes it asked
\* for, in order and from the first one on, and all of them when the body ends without an
\* error (storage.py 721-789, spool.py 583-625), however the source was cut into fragments
\* when it was sealed and the response when it was read, whether the server answers 206 or
\* 200, and wherever the stored object ends.
THEOREM RangeIsServed == Reading!Spec => []BodyIsRange
<1>. QED
  BY RangeStarts, RangeStep, RangeServed, PTL DEF Reading!Spec

\* A reading fails by itself (crypto.py 184-202, storage.py 782-789) only where the store has
\* lost bytes that the reading needs: a whole object is served to the end of any range.
THEOREM WholeIsServed == Reading!Spec => []StoredIsServed
<1>. QED
  BY RangeStarts, RangeStep, RangeServed, PTL DEF Reading!Spec

\* The sealed recording has the length that encrypted_size (crypto.py 78-84) announced to the
\* server before the first byte was sealed.
THEOREM SealedSize == Reading!Spec => []SealedAsAnnounced
<1>. QED
  BY RangeStarts, RangeStep, RangeServed, PTL DEF Reading!Spec
-----------------------------------------------------------------------------
(* The export.                                                             *)

ExportType ==
    /\ stream \in [Browser -> {"idle", "launching", "reading", "sending", "waiting",
                               "terminating", "gathering"}]
    /\ ffmpeg \in [Browser -> {"none", "reads", "putsOut", "complains", "dead"}]
    /\ feeder \in [Browser -> {"feeding", "closing", "flushing", "done"}]
    /\ listener \in [Browser -> BOOLEAN]

\* What an export has left behind that is not, or not yet, running.
Quiet(b) == ~Export!Alive(b) /\ feeder[b] = "done" /\ ~listener[b]

\* The second task hears FFmpeg to its end.
HeardToTheEnd(b) == listener[b] \/ ~Export!Alive(b)

ExportInv ==
    /\ ExportType
    /\ \A b \in Browser :
          /\ stream[b] # "idle" => slot = b
          /\ slot # b \/ stream[b] = "launching" => Quiet(b)
          /\ HeardToTheEnd(b)

\* It holds before anything is exported.
LEMMA ExportStarts == Export!Init => ExportInv
  BY DEF Export!Init, ExportInv, ExportType, Quiet, HeardToTheEnd, Export!Alive

\* Steps of the request and of its response, and of FFmpeg and the tasks, each for its
\* browser: the others stay as they are.
LEMMA ExportStep == ExportInv /\ [Export!Next]_Export!vars => ExportInv'
<1>. USE DEF ExportInv, ExportType, Quiet, HeardToTheEnd, Export!Alive
<1>. SUFFICES ASSUME ExportInv, Export!Next PROVE ExportInv'
  BY DEF Export!vars, Export!pipes, Export!tasks
<1>. PICK b \in Browser :
       \/ Export!Ask(b) \/ Export!Handler(b) \/ Export!Process(b) \/ Export!Exit(b)
       \/ Export!Feeding(b) \/ Export!FeedingFails(b) \/ Export!Hear(b)
       \/ Export!Streaming(b) \/ Export!Sent(b) \/ Export!Leave(b)
  BY DEF Export!Next
<1>. USE DEF Export!pipes, Export!tasks
<1>1. CASE Export!Ask(b)
  BY <1>1, BrowserAssumption DEF Export!Ask
<1>2. CASE Export!LaunchFails(b)
  BY <1>2 DEF Export!LaunchFails
<1>3. CASE Export!Launch(b)
  BY <1>3 DEF Export!Launch
<1>4. CASE Export!Process(b) \/ Export!Exit(b)
  BY <1>4 DEF Export!Process, Export!Read, Export!PutOut, Export!Complain, Export!EndOfInput,
              Export!Exit
<1>5. CASE Export!Feeding(b) \/ Export!FeedingFails(b)
  BY <1>5 DEF Export!Feeding, Export!Feed, Export!FeedingEnds, Export!CloseInput,
              Export!Flushed, Export!FeedingFails
<1>6. CASE Export!Hear(b)
  BY <1>6 DEF Export!Hear
<1>7. CASE Export!ReadChunk(b) \/ Export!Sent(b) \/ Export!EndOfOutput(b)
  BY <1>7 DEF Export!ReadChunk, Export!Sent, Export!EndOfOutput
<1>8. CASE Export!Leave(b) \/ Export!Finished(b)
  BY <1>8 DEF Export!Leave, Export!Finished, Export!CleanUp
<1>9. CASE Export!Terminated(b) \/ Export!Kill(b)
  BY <1>9 DEF Export!Terminated, Export!Kill
<1>10. CASE Export!Release(b)
  BY <1>10 DEF Export!Release
<1>. QED
  BY <1>1, <1>2, <1>3, <1>4, <1>5, <1>6, <1>7, <1>8, <1>9, <1>10
     DEF Export!Handler, Export!Streaming

\* For any number of browsers: download_slot (web.py 779-799) admits one export, and
\* _stream_download (web.py 181-215) releases it only after FFmpeg and both tasks have ended.
THEOREM OneExportOnly == Export!Spec => []OneExport
<1>1. ExportInv => OneExport
  BY DEF ExportInv, Quiet, OneExport, Export!OneExport
<1>. QED
  BY ExportStarts, ExportStep, <1>1, PTL DEF Export!Spec
-----------------------------------------------------------------------------
(* The window of a listing.                                                *)

\* What a scan looked for, whatever window it is the answer for later.
CoversHours(entry) ==
    \A w \in Windows!Window : entry.key = Windows!Key(w) =>
       \A r \in stored :
          Windows!Overlaps(r, w) /\ r.start >= entry.reach => r \in entry.records

WindowInv ==
    /\ stored \subseteq Footage
    /\ \A entry \in scans : CoversHours(entry)
    /\ ReachedIsListed

\* Later times are in later hours, and no time after the epoch before the first.
LEMMA HoursInOrder ==
  ASSUME NEW a \in Int, NEW b \in Int, a <= b
  PROVE  /\ Windows!HourOf(a) \in Int /\ Windows!HourOf(b) \in Int
         /\ Windows!HourOf(a) <= Windows!HourOf(b)
         /\ 0 <= a => 0 <= Windows!HourOf(a)
<1>1. /\ a \div Hour \in Int /\ (a \div Hour) * Hour <= a /\ a < (a \div Hour) * Hour + Hour
  BY WindowAssumption, Z3
<1>2. /\ b \div Hour \in Int /\ (b \div Hour) * Hour <= b /\ b < (b \div Hour) * Hour + Hour
  BY WindowAssumption, Z3
<1>3. a \div Hour <= b \div Hour
  BY <1>1, <1>2, WindowAssumption, Z3
<1>4. 0 <= a => 0 <= a \div Hour
  BY <1>1, WindowAssumption, Z3
<1>. QED
  BY <1>1, <1>2, <1>3, <1>4 DEF Windows!HourOf

\* A scan for one window finds what another window of the same hours may ask of it.
LEMMA ScanCovers ==
  ASSUME stored \subseteq Footage,
         NEW v \in Windows!Window, NEW w \in Windows!Window, Windows!Key(v) = Windows!Key(w),
         NEW r \in stored, Windows!Overlaps(r, w), r.start >= Windows!Reach(v)
  PROVE  r \in Windows!Scanned(v)
<1>. SUFFICES ASSUME Windows!Targeted(v) PROVE Windows!HourOf(r.start) \in Windows!Hours(v)
  BY DEF Windows!Scanned
<1>1. /\ v.start \in Nat /\ v.end \in Nat /\ r.start \in Nat
      /\ w.start \in Nat \cup {-1} /\ w.end \in Nat \cup {-1}
  BY WindowAssumption
     DEF Windows!Window, Windows!Targeted, Windows!Given, Windows!Open
<1>2. v.start - Interval \in Int /\ v.start - Interval <= r.start
  BY <1>1, WindowAssumption DEF Windows!Reach
<1>3. Windows!HourOf(v.start - Interval) <= Windows!HourOf(r.start)
  BY <1>1, <1>2, HoursInOrder
<1>4. Windows!HourOf(v.end) \in Int /\ 0 <= Windows!HourOf(v.end)
  BY <1>1, HoursInOrder
<1>5. w.end \in Nat /\ Windows!HourOf(w.end) = Windows!HourOf(v.end)
  BY <1>1, <1>4 DEF Windows!Key, Windows!Given, Windows!Open, Windows!Targeted
<1>6. r.start <= w.end
  BY <1>1, <1>5 DEF Windows!Overlaps, Windows!Given, Windows!Open
<1>7. Windows!HourOf(r.start) <= Windows!HourOf(v.end)
  BY <1>1, <1>5, <1>6, HoursInOrder
<1>8. Windows!HourOf(r.start) \in Int /\ Windows!HourOf(v.start - Interval) \in Int
  BY <1>1, <1>2, HoursInOrder
<1>. QED
  BY <1>3, <1>4, <1>7, <1>8 DEF Windows!Hours

LEMMA WindowStarts == Windows!Init => WindowInv
  BY DEF Windows!Init, WindowInv, CoversHours, ReachedIsListed, Windows!ReachedIsListed

\* What is found through an entry that covers its window has all that is in reach.
LEMMA FoundIsListed ==
  ASSUME NEW w \in Windows!Window, NEW entry, entry.key = Windows!Key(w), CoversHours(entry),
         Windows!Found(w, entry), stored' = stored
  PROVE  ReachedIsListed'
<1>1. /\ answer'.window = w /\ answer'.reach = entry.reach
      /\ answer'.records = {r \in entry.records : Windows!Overlaps(r, w)}
  BY DEF Windows!Found
<1>2. ASSUME NEW r \in stored, Windows!Overlaps(r, w), r.start >= entry.reach
      PROVE  r \in entry.records
  BY <1>2 DEF CoversHours
<1>. QED
  BY <1>1, <1>2 DEF ReachedIsListed, Windows!ReachedIsListed, Windows!Overlaps

\* Only a change of what is stored could make an entry stale, and it drops them all.
LEMMA WindowStep == WindowInv /\ [Windows!Next]_Windows!vars => WindowInv'
<1>. SUFFICES ASSUME WindowInv, Windows!Next PROVE WindowInv'
  BY DEF WindowInv, CoversHours, ReachedIsListed, Windows!ReachedIsListed, Windows!vars
<1>1. CASE Windows!Change
  BY <1>1 DEF Windows!Change, WindowInv, ReachedIsListed, Windows!ReachedIsListed
<1>2. CASE Windows!Expire
  BY <1>2 DEF Windows!Expire, WindowInv, CoversHours, ReachedIsListed, Windows!ReachedIsListed
<1>3. ASSUME NEW w \in Windows!Window, Windows!Hit(w) PROVE WindowInv'
  <2>1. PICK entry \in scans : entry.key = Windows!Key(w) /\ Windows!Found(w, entry)
    BY <1>3 DEF Windows!Hit
  <2>2. stored' = stored /\ scans' = scans
    BY <1>3 DEF Windows!Hit
  <2>3. ReachedIsListed'
    BY <2>1, <2>2, FoundIsListed DEF WindowInv
  <2>. QED
    BY <2>2, <2>3 DEF WindowInv, CoversHours
<1>4. ASSUME NEW w \in Windows!Window, Windows!Scan(w) PROVE WindowInv'
  <2>. DEFINE entry == [key |-> Windows!Key(w), records |-> Windows!Scanned(w),
                        reach |-> Windows!Reach(w)]
  <2>1. CoversHours(entry)
    BY ScanCovers DEF CoversHours, WindowInv
  <2>2. Windows!Found(w, entry) /\ stored' = stored /\ scans' \subseteq scans \cup {entry}
    BY <1>4 DEF Windows!Scan
  <2>3. ReachedIsListed'
    BY <2>1, <2>2, FoundIsListed
  <2>. HIDE DEF entry
  <2>. QED
    BY <2>1, <2>2, <2>3 DEF WindowInv, CoversHours
<1>. QED
  BY <1>1, <1>2, <1>3, <1>4 DEF Windows!Next

\* For hours, intervals, windows and recordings of any length: list_records and _hour_paths
\* (storage.py 566-603, 959-984) hide nothing that overlaps the window and begins within
\* the interval before it, or before the window whose scan is cached for its hours.
THEOREM ReachListed == Windows!Spec => []ReachedIsListed
<1>1. WindowInv => ReachedIsListed
  BY DEF WindowInv
<1>. QED
  BY WindowStarts, WindowStep, <1>1, PTL DEF Windows!Spec
-----------------------------------------------------------------------------
(* The whole.                                                              *)

LEMMA OneMoves ==
  ASSUME [RecordingsNext]_<<subject, vars, listingVars, rangeVars, exportVars, windowVars>>
  PROVE  /\ [Next]_vars /\ [Listing!Next]_Listing!vars /\ [Reading!Next]_Reading!vars
         /\ [Export!Next]_Export!vars /\ [Windows!Next]_Windows!vars
BY DEF RecordingsNext, listingVars, rangeVars, exportVars, windowVars, Windows!vars,
       Reading!vars, Reading!sealVars, Reading!readVars,
       Export!vars, Export!pipes, Export!tasks

\* A behaviour of the whole is a behaviour of each component, with its fairness: nothing is
\* lost or added by checking the components together, and the theorems about each hold.
THEOREM Composition ==
  RecordingsSpec =>
     Spec /\ Listing!Spec /\ Reading!Spec /\ Export!Spec /\ Windows!Spec
<1>1. RecordingsInit =>
         Init /\ Listing!Init /\ Reading!Init /\ Export!Init /\ Windows!Init
  BY DEF RecordingsInit
<1>. QED
  BY <1>1, OneMoves, PTL
     DEF RecordingsSpec, Spec, Listing!Spec, Reading!Spec, Export!Spec, Windows!Spec
=============================================================================
