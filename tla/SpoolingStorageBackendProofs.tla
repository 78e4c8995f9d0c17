-------------------- MODULE SpoolingStorageBackendProofs --------------------
(***************************************************************************)
(* The disk outbox, for every set of recordings, capacity, number of       *)
(* restarts and policy, and for every trouble an instance may include.     *)
(***************************************************************************)
EXTENDS SpoolingStorageBackend, FiniteSetTheorems, WellFoundedInduction, TLAPS

USE DEF lifeVars, diskVars, indexVars, replayVars, cloudVars

-----------------------------------------------------------------------------
(* The inductive invariant.                                                *)

\* _lock: a thread of _persist runs under it, one at a time and only while the
\* process is up; the replay task holds it exactly while it removes an entry.
LockInv ==
    /\ \A e \in Entry : writer[e] \in Threaded => lock = "writer" /\ proc = "up"
    /\ \A e, f \in Entry : writer[e] \in Threaded /\ writer[f] \in Threaded => e = f
    /\ replay.at \in Removing <=> lock = "replay"

\* The replay task lives as long as the process is up; what is in memory, as
\* long as the process exists.
ProcInv ==
    /\ proc = "up" <=> replay.at # "off"
    /\ proc = "down" => entries = {} /\ orphans = {} /\ used = 0
    /\ proc # "opening" => todo = {}

\* What a power loss may leave includes what is there; a running thread knows
\* the state of its directory; a marker stands for a delivered entry.
DiskInv ==
    \A e \in Entry :
        /\ dir[e] \in survivors[e]
        /\ writer[e] \in {"filling", "sealed"} => dir[e] = writer[e]
        /\ writer[e] \in {"renamed", "resync"} => dir[e] = "stored"
        /\ "committed" \in survivors[e] => remote[e] = "pair"

\* A listed entry is on the disk, unless the replay task is just removing it; a
\* retained directory is nobody's; each is counted once.
IndexInv ==
    /\ \A e \in entries : \/ dir[e] = "stored"
                          \/ replay.at \in {"syncing", "deleting"} /\ e = Current
    /\ \A e \in orphans : dir[e] = "filling" /\ writer[e] \notin Threaded
    /\ todo \cap (entries \cup orphans) = {}
    /\ proc = "up" => (empty <=> entries = {})
    /\ used = Cardinality(entries \cup orphans)

\* The entry the replay task works on is listed; it is removed only after both
\* objects are remote, and is a marker once it was renamed.
ReplayInv ==
    /\ replay.at \in Uploading \cup Removing \cup {"finishing"} => Current \in entries
    /\ replay.at \in Removing \cup {"finishing"} => remote[Current] = "pair"
    /\ replay.at = "removing" => dir[Current] = "stored"
    /\ replay.at \in {"syncing", "deleting"} => dir[Current] = "committed"

\* An acknowledged recording is remote, or durable here and then listed or
\* about to be.
AckInv ==
    \A e \in acked :
        \/ remote[e] = "pair"
        \/ /\ survivors[e] = {"stored"}
           /\ proc = "up" => e \in entries
           /\ proc = "opening" => e \in todo \cup entries

IInv == TypeOK /\ LockInv /\ ProcInv /\ DiskInv /\ IndexInv /\ ReplayInv /\ AckInv

-----------------------------------------------------------------------------
(* Counting.                                                               *)

\* What is listed and retained is a finite set; the counter counts it.
LEMMA CountFacts ==
    ASSUME TypeOK, IndexInv
    PROVE  /\ IsFiniteSet(entries \cup orphans)
           /\ used = Cardinality(entries \cup orphans)
           /\ \A e \in entries : used - 1 \in Nat
  <1>1. IsFiniteSet(entries \cup orphans)
    <2>1. entries \cup orphans \in SUBSET Entry
      BY DEF TypeOK
    <2> QED
      BY <2>1, FS_Subset, ConstantsAssumption
  <1>2. used = Cardinality(entries \cup orphans)
    BY DEF IndexInv
  <1>3. ASSUME NEW e \in entries
        PROVE  used - 1 \in Nat
    <2>1. Cardinality(entries \cup orphans) # 0
      BY <1>1, FS_EmptySet
    <2> QED
      BY <1>2, <2>1 DEF TypeOK
  <1> QED
    BY <1>1, <1>2, <1>3

\* Listing one more entry that was neither listed nor retained counts it once.
LEMMA CountAdd ==
    ASSUME TypeOK, IndexInv, NEW e \in Entry, e \notin orphans
    PROVE  Cardinality((entries \cup {e}) \cup orphans)
             = IF e \in entries THEN used ELSE used + 1
  <1>1. (entries \cup {e}) \cup orphans = (entries \cup orphans) \cup {e}
    OBVIOUS
  <1> QED
    BY <1>1, CountFacts, FS_AddElement

\* Retaining one more directory, likewise.
LEMMA CountRetain ==
    ASSUME TypeOK, IndexInv, NEW e \in Entry, e \notin entries \cup orphans
    PROVE  Cardinality(entries \cup (orphans \cup {e})) = used + 1
  <1>1. entries \cup (orphans \cup {e}) = (entries \cup orphans) \cup {e}
    OBVIOUS
  <1> QED
    BY <1>1, CountFacts, FS_AddElement

\* An entry that leaves the index was counted once and not as an orphan.
LEMMA CountRemove ==
    ASSUME TypeOK, IndexInv, ReplayInv, NEW e \in entries
    PROVE  Cardinality((entries \ {e}) \cup orphans) = used - 1
  <1>1. e \notin orphans
    BY DEF IndexInv, ReplayInv
  <1>2. (entries \ {e}) \cup orphans = (entries \cup orphans) \ {e}
    BY <1>1
  <1> QED
    BY <1>2, CountFacts, FS_RemoveElement

-----------------------------------------------------------------------------
(* Types.                                                                  *)

\* min(S) is one of S.
LEMMA LeastType ==
    ASSUME NEW S, S \subseteq Nat, S # {}
    PROVE  Least(S) \in S
  <1> DEFINE R == OpToRel(<, Nat)
  <1>1. PICK e \in S : \A f \in S : <<f, e>> \notin R
    BY NatLessThanWellFounded, WFMin
  <1>2. ASSUME NEW f \in S
        PROVE  e <= f
    <2>1. f < e => <<f, e>> \in R
      BY Zenon DEF OpToRel
    <2>2. ~(f < e)
      BY <1>1, <2>1
    <2> HIDE DEF R
    <2> QED
      BY <2>2
  <1> QED
    BY <1>2 DEF Least

\* A rename, mkdir or rmdir leaves directories in their states.
LEMMA BecomesType ==
    ASSUME TypeOK, NEW e \in Entry, NEW d \in DirState, Becomes(e, d)
    PROVE  dir' \in [Entry -> DirState] /\ survivors' \in [Entry -> SUBSET DirState]
  BY DEF TypeOK, Becomes

\* So does a sync.
LEMMA SyncedType ==
    ASSUME TypeOK, NEW e \in Entry, NEW d \in DirState, SyncedAs(e, d)
    PROVE  dir' \in [Entry -> DirState] /\ survivors' \in [Entry -> SUBSET DirState]
  BY DEF TypeOK, SyncedAs

\* The replay task goes to another place of its loop with the entry it has.
LEMMA GoesType ==
    ASSUME TypeOK, NEW at \in ReplayAt, ReplayGoes(at)
    PROVE  replay' \in [at : ReplayAt, entry : Nat]
  BY DEF TypeOK, ReplayGoes

\* Startup keeps the types.
LEMMA OpeningType ==
    ASSUME TypeOK, Opening
    PROVE  TypeOK'
  <1>1. CASE Open
    BY <1>1 DEF Open, TypeOK
  <1>2. CASE Opened
    BY <1>2 DEF Opened, TypeOK, ReplayAt
  <1>3. ASSUME NEW e \in Entry, Scan(e)
        PROVE  TypeOK'
    <2>1. dir' \in [Entry -> DirState] /\ survivors' \in [Entry -> SUBSET DirState]
      BY <1>3, SyncedType DEF Scan, Adopt, FinishRemoval, Retain, DirState, TypeOK
    <2>2. entries' \subseteq Entry /\ orphans' \subseteq Entry /\ used' \in Nat
      BY <1>3 DEF Scan, Adopt, FinishRemoval, Retain, TypeOK
    <2> QED
      BY <1>3, <2>1, <2>2 DEF Scan, TypeOK
  <1> QED
    BY <1>1, <1>2, <1>3 DEF Opening

\* write_batch and _persist keep the types.
LEMMA WriteType ==
    ASSUME TypeOK, NEW e \in Entry, Write(e)
    PROVE  TypeOK'
  <1>1. CASE WriteBatch(e)
    BY <1>1 DEF WriteBatch, TypeOK, WriterState
  <1>2. CASE BeginPersist(e)
    BY <1>2, BecomesType DEF BeginPersist, TypeOK, WriterState, Threaded, DirState
  <1>3. CASE BeginResync(e)
    BY <1>3 DEF BeginResync, TypeOK, WriterState, Threaded
  <1>4. CASE RefuseWrite(e)
    BY <1>4 DEF RefuseWrite, Raise, TypeOK, WriterState
  <1>5. CASE WriteFiles(e)
    BY <1>5, BecomesType DEF WriteFiles, TypeOK, WriterState, Threaded, DirState
  <1>6. CASE RenamePartial(e)
    BY <1>6, BecomesType DEF RenamePartial, TypeOK, WriterState, Threaded, DirState
  <1>7. CASE PersistEnds(e)
    <2>1. dir' \in [Entry -> DirState] /\ survivors' \in [Entry -> SUBSET DirState]
      BY <1>7, SyncedType DEF PersistEnds, DirState
    <2>2. writer' \in [Entry -> WriterState]
      BY <1>7 DEF PersistEnds, TypeOK, WriterState
    <2>3. acked' \subseteq Entry
      BY <1>7 DEF PersistEnds, TypeOK
    <2>4. empty' \in BOOLEAN /\ wake' \in BOOLEAN
      BY <1>7, Zenon DEF PersistEnds, Register
    <2>5. entries' \subseteq Entry /\ used' \in Nat
      BY <1>7 DEF PersistEnds, Register, TypeOK
    <2> QED
      BY <1>7, <2>1, <2>2, <2>3, <2>4, <2>5 DEF PersistEnds, Register, TypeOK
  <1>8. CASE PersistFails(e)
    <2>1. dir' \in [Entry -> DirState] /\ survivors' \in [Entry -> SUBSET DirState]
      BY <1>8, BecomesType DEF PersistFails, DirState, TypeOK
    <2> QED
      BY <1>8, <2>1 DEF PersistFails, Raise, TypeOK, WriterState
  <1>9. CASE CancelWrite(e)
    BY <1>9 DEF CancelWrite, TypeOK, WriterState
  <1> QED
    BY <1>1, <1>2, <1>3, <1>4, <1>5, <1>6, <1>7, <1>8, <1>9 DEF Write

\* The upload side of _replay keeps the types.
LEMMA UploadType ==
    ASSUME TypeOK, ReplayInv, Look \/ Awake \/ Upload
    PROVE  TypeOK'
  <1>0. replay.at \in Uploading => Current \in Entry
    BY DEF TypeOK, ReplayInv
  <1>1. CASE Look
    <2>1. replay' \in [at : ReplayAt, entry : Nat]
      <3>1. Candidates = {} \/ backoff => replay' \in [at : ReplayAt, entry : Nat]
        BY <1>1, GoesType DEF Look, ReplayAt
      <3>2. CASE replay' = [at |-> "media", entry |-> Least(Candidates)] /\ Candidates # {}
        <4>1. Candidates \subseteq Nat
          BY ConstantsAssumption DEF Candidates, TypeOK
        <4>2. Least(Candidates) \in Nat
          BY <3>2, <4>1, LeastType
        <4> QED
          BY <3>2, <4>2 DEF ReplayAt, Uploading
      <3> QED
        BY <1>1, <3>1, <3>2 DEF Look
    <2> QED
      BY <1>1, <2>1 DEF Look, TypeOK
  <1>2. CASE Awake
    BY <1>2, GoesType, ZenonT(30) DEF Awake, TypeOK, ReplayAt
  <1>3. CASE UploadMedia
    BY <1>3, GoesType, ZenonT(30) DEF UploadMedia, TypeOK, ReplayAt, Uploading
  <1>4. CASE UploadMetadata
    BY <1>4, GoesType, ZenonT(30) DEF UploadMetadata, TypeOK, ReplayAt
  <1>5. CASE UploadCorrupt
    <2>1. Current \in Entry
      BY <1>5 DEF UploadCorrupt, TypeOK
    <2> QED
      BY <1>5, <2>1, GoesType DEF UploadCorrupt, TypeOK, ReplayAt
  <1>6. CASE UploadFails
    <2>1. replay' \in [at : ReplayAt, entry : Nat]
      BY <1>6, GoesType DEF UploadFails, ReplayAt
    <2>2. late' \subseteq Entry \X Part
      BY <1>6, <1>0 DEF UploadFails, TypeOK, Uploading, Part
    <2> QED
      BY <1>6, <2>1, <2>2 DEF UploadFails, TypeOK, OneMore
  <1>7. CASE UploadQuota
    <2>1. replay' \in [at : ReplayAt, entry : Nat]
      BY <1>7, GoesType DEF UploadQuota, ReplayAt
    <2>2. backoff' \in BOOLEAN
      BY <1>7, Zenon DEF UploadQuota, TypeOK
    <2> QED
      BY <1>7, <2>1, <2>2 DEF UploadQuota, TypeOK, OneMore
  <1>8. CASE Reclaim
    BY <1>8, GoesType, ZenonT(30) DEF Reclaim, TypeOK, ReplayAt
  <1> QED
    BY <1>1, <1>2, <1>3, <1>4, <1>5, <1>6, <1>7, <1>8 DEF Upload

\* The removal side of _replay keeps the types.
LEMMA RemovalType ==
    ASSUME TypeOK, ReplayInv, IndexInv, Removal
    PROVE  TypeOK'
  <1>0. replay.at \in Removing => Current \in entries /\ Current \in Entry
    BY DEF TypeOK, ReplayInv
  <1>1. CASE BeginRemoval
    BY <1>1, GoesType DEF BeginRemoval, TypeOK, ReplayAt, Removing
  <1>2. CASE MarkCommitted
    <2>1. dir' \in [Entry -> DirState] /\ survivors' \in [Entry -> SUBSET DirState]
      BY <1>2, <1>0, BecomesType DEF MarkCommitted, DirState, Removing
    <2> QED
      BY <1>2, <2>1, GoesType DEF MarkCommitted, TypeOK, ReplayAt, Removing
  <1>3. CASE MarkFails
    <2>1. replay' \in [at : ReplayAt, entry : Nat]
      BY <1>3, GoesType DEF MarkFails, ReplayAt
    <2> QED
      BY <1>3, <2>1 DEF MarkFails, TypeOK, OneMore
  <1>4. CASE SyncMark
    <2>1. dir' \in [Entry -> DirState] /\ survivors' \in [Entry -> SUBSET DirState]
      BY <1>4, <1>0, SyncedType DEF SyncMark, DirState, Removing
    <2> QED
      BY <1>4, <2>1, GoesType DEF SyncMark, TypeOK, ReplayAt, Removing
  <1>5. ASSUME replay.at \in Removing, Forget,
               dir' \in [Entry -> DirState], survivors' \in [Entry -> SUBSET DirState]
        PROVE  TypeOK'
    <2>1. used - 1 \in Nat
      BY <1>0, <1>5, CountFacts
    <2>2. replay' \in [at : ReplayAt, entry : Nat]
      BY <1>5, GoesType DEF Forget, ReplayAt
    <2>3. backoff' \in BOOLEAN /\ empty' \in BOOLEAN
      BY <1>5, Zenon DEF Forget, TypeOK
    <2>4. entries' \subseteq Entry /\ used' \in Nat
      BY <1>5, <2>1 DEF Forget, TypeOK
    <2>5. UNCHANGED <<lifeVars, rotten, blocked, orphans, writer, cancelled, acked, wake,
                      draining, cloudVars>> /\ lock' = "free" /\ failures' = 0
      BY <1>5 DEF Forget
    <2> QED
      BY <1>5, <2>2, <2>3, <2>4, <2>5 DEF TypeOK
  <1>6. CASE DeleteMarked
    <2>1. dir' \in [Entry -> DirState] /\ survivors' \in [Entry -> SUBSET DirState]
      BY <1>6, <1>0, SyncedType DEF DeleteMarked, DirState, Removing
    <2> QED
      BY <1>5, <1>6, <2>1 DEF DeleteMarked, Removing
  <1>7. CASE CleanupFails
    BY <1>5, <1>7 DEF CleanupFails, Removing, TypeOK
  <1> QED
    BY <1>1, <1>2, <1>3, <1>4, <1>6, <1>7 DEF Removal

\* The end of the process forgets what was in memory and nothing else.
LEMMA EndType ==
    ASSUME TypeOK, ProcessEnds, restarts < MaxRestarts,
           dir' \in [Entry -> DirState], survivors' \in [Entry -> SUBSET DirState]
    PROVE  TypeOK'
  <1>1. replay' \in [at : ReplayAt, entry : Nat]
    BY DEF ProcessEnds, TypeOK, ReplayAt
  <1>2. writer' \in [Entry -> WriterState]
    BY DEF ProcessEnds, TypeOK, WriterState
  <1>3. restarts' \in 0..MaxRestarts
    BY ConstantsAssumption DEF ProcessEnds, TypeOK
  <1>4. /\ backoff' \in BOOLEAN /\ wake' \in BOOLEAN /\ empty' \in BOOLEAN
        /\ draining' \in BOOLEAN /\ full' \in BOOLEAN
    BY Zenon DEF ProcessEnds, TypeOK
  <1> QED
    BY <1>1, <1>2, <1>3, <1>4 DEF ProcessEnds, TypeOK

\* What the process does not decide keeps the types.
LEMMA EnvironmentType ==
    ASSUME TypeOK, Environment
    PROVE  TypeOK'
  <1>1. CASE Crash
    <2>1. dir' \in [Entry -> DirState] /\ survivors' \in [Entry -> SUBSET DirState]
      BY <1>1 DEF Crash
    <2> QED
      BY <1>1, <2>1, EndType DEF Crash
  <1>2. CASE Close
    BY <1>2, EndType DEF Close, TypeOK
  <1>3. CASE BeginDrain
    BY <1>3 DEF BeginDrain, TypeOK
  <1>4. CASE QuotaExhausted
    BY <1>4 DEF QuotaExhausted, TypeOK
  <1>5. ASSUME NEW e \in Entry, NEW part \in Part, LateCommit(e, part)
        PROVE  TypeOK'
    BY <1>5 DEF LateCommit, TypeOK
  <1>6. ASSUME NEW e \in Entry, NEW part \in Part, Rot(e, part)
        PROVE  TypeOK'
    BY <1>6 DEF Rot, TypeOK
  <1> QED
    BY <1>1, <1>2, <1>3, <1>4, <1>5, <1>6 DEF Environment
-----------------------------------------------------------------------------
(* The lock.                                                               *)

\* Every step keeps the discipline of _lock.
LEMMA LockStep ==
    ASSUME TypeOK, LockInv, ProcInv, Next
    PROVE  LockInv'
  <1> USE DEF LockInv
  <1>1. CASE Open \/ BeginDrain \/ QuotaExhausted
    BY <1>1 DEF Open, BeginDrain, QuotaExhausted
  <1>2. CASE Opened
    BY <1>2 DEF Opened, TypeOK, ProcInv, Removing
  <1>3. ASSUME NEW e \in Entry, Scan(e)
        PROVE  LockInv'
    BY <1>3 DEF Scan
  <1>4. CASE Look
    BY <1>4 DEF Look, TypeOK, ReplayGoes, Removing
  <1>5. CASE Awake
    BY <1>5 DEF Awake, TypeOK, ReplayGoes, Removing
  <1>6. CASE Upload
    BY <1>6 DEF Upload, UploadMedia, UploadMetadata, UploadCorrupt, UploadFails, UploadQuota,
                Reclaim, TypeOK, ReplayGoes, Removing, Uploading
  <1>7. CASE BeginRemoval
    BY <1>7 DEF BeginRemoval, TypeOK, ReplayGoes, Removing
  <1>8. CASE MarkCommitted \/ SyncMark
    BY <1>8 DEF MarkCommitted, SyncMark, TypeOK, ReplayGoes, Removing
  <1>9. CASE MarkFails \/ DeleteMarked \/ CleanupFails
    BY <1>9 DEF MarkFails, DeleteMarked, CleanupFails, Forget, TypeOK, ReplayGoes, Removing
  <1>10. CASE Crash \/ Close
    <2>1. ProcessEnds
      BY <1>10 DEF Crash, Close
    <2> QED
      BY <2>1 DEF ProcessEnds, TypeOK, Threaded, Removing
  <1>11. ASSUME NEW e \in Entry, NEW part \in Part, LateCommit(e, part) \/ Rot(e, part)
         PROVE  LockInv'
    BY <1>11 DEF LateCommit, Rot
  <1>12. ASSUME NEW e \in Entry, WriteBatch(e) \/ CancelWrite(e)
         PROVE  LockInv'
    BY <1>12 DEF WriteBatch, CancelWrite, TypeOK, Threaded
  <1>13. ASSUME NEW e \in Entry, BeginPersist(e) \/ BeginResync(e)
         PROVE  LockInv'
    BY <1>13 DEF BeginPersist, BeginResync, TypeOK, Threaded
  <1>14. ASSUME NEW e \in Entry, WriteFiles(e) \/ RenamePartial(e)
         PROVE  LockInv'
    BY <1>14 DEF WriteFiles, RenamePartial, TypeOK, Threaded
  <1>15. ASSUME NEW e \in Entry, RefuseWrite(e) \/ PersistEnds(e) \/ PersistFails(e)
         PROVE  LockInv'
    BY <1>15 DEF RefuseWrite, PersistEnds, PersistFails, Raise, TypeOK, Threaded
  <1> QED
    BY <1>1, <1>2, <1>3, <1>4, <1>5, <1>6, <1>7, <1>8, <1>9, <1>10, <1>11, <1>12, <1>13,
       <1>14, <1>15 DEF Next, Write, Removal, Environment

-----------------------------------------------------------------------------
(* The life of the process.                                                *)

\* Every step keeps memory and replay task within the life of the process.
LEMMA ProcStep ==
    ASSUME TypeOK, LockInv, ProcInv, Next
    PROVE  ProcInv'
  <1> USE DEF ProcInv
  <1>1. CASE Open \/ BeginDrain \/ QuotaExhausted
    BY <1>1 DEF Open, BeginDrain, QuotaExhausted, TypeOK
  <1>2. CASE Opened
    BY <1>2 DEF Opened, TypeOK
  <1>3. ASSUME NEW e \in Entry, Scan(e)
        PROVE  ProcInv'
    BY <1>3 DEF Scan
  <1>4. CASE Look \/ Awake
    BY <1>4 DEF Look, Awake, TypeOK, ReplayGoes
  <1>5. CASE Upload
    BY <1>5 DEF Upload, UploadMedia, UploadMetadata, UploadCorrupt, UploadFails, UploadQuota,
                Reclaim, TypeOK, ReplayGoes, Uploading
  <1>6. CASE Removal
    BY <1>6 DEF Removal, BeginRemoval, MarkCommitted, MarkFails, SyncMark, DeleteMarked,
                CleanupFails, Forget, TypeOK, ReplayGoes
  <1>7. CASE Crash \/ Close
    <2>1. ProcessEnds
      BY <1>7 DEF Crash, Close
    <2> QED
      BY <2>1 DEF ProcessEnds, TypeOK
  <1>8. ASSUME NEW e \in Entry, NEW part \in Part, LateCommit(e, part) \/ Rot(e, part)
        PROVE  ProcInv'
    BY <1>8 DEF LateCommit, Rot
  <1>9. ASSUME NEW e \in Entry, Write(e)
        PROVE  ProcInv'
    <2>1. CASE PersistEnds(e)
      BY <1>9, <2>1 DEF PersistEnds, Register, LockInv, Threaded
    <2>2. CASE ~PersistEnds(e)
      BY <1>9, <2>2 DEF Write, WriteBatch, BeginPersist, BeginResync, RefuseWrite, WriteFiles,
                        RenamePartial, PersistFails, CancelWrite
    <2> QED
      BY <2>1, <2>2
  <1> QED
    BY <1>1, <1>2, <1>3, <1>4, <1>5, <1>6, <1>7, <1>8, <1>9 DEF Next, Environment

-----------------------------------------------------------------------------
(* The disk.                                                               *)

\* A rename that leaves a state allowed by the writer, and no marker without
\* delivery, keeps the disk in order.
LEMMA BecomesDisk ==
    ASSUME TypeOK, DiskInv, NEW e \in Entry, NEW d \in DirState, Becomes(e, d),
           UNCHANGED remote,
           d = "committed" => remote[e] = "pair",
           writer'[e] \in {"filling", "sealed"} => d = writer'[e],
           writer'[e] \in {"renamed", "resync"} => d = "stored",
           \A f \in Entry \ {e} : writer'[f] = writer[f]
    PROVE  DiskInv'
  BY DEF TypeOK, DiskInv, Becomes

\* A sync makes what is there durable.
LEMMA SyncedDisk ==
    ASSUME TypeOK, DiskInv, NEW e \in Entry, NEW d \in DirState, SyncedAs(e, d),
           UNCHANGED remote,
           d = "committed" => remote[e] = "pair",
           writer'[e] \notin Threaded,
           \A f \in Entry \ {e} : writer'[f] = writer[f]
    PROVE  DiskInv'
  BY DEF TypeOK, DiskInv, SyncedAs, Threaded

\* An upload leaves the disk alone, takes nothing from the cloud, and goes on to the
\* removal only with both objects there.
LEMMA UploadEffect ==
    ASSUME TypeOK, ReplayInv, Upload
    PROVE  /\ UNCHANGED <<lifeVars, diskVars, entries, orphans, used, writer, acked, lock, empty>>
           /\ \A e \in Entry : remote[e] = "pair" => remote'[e] = "pair"
           /\ replay'.entry = replay.entry
           /\ \/ replay'.at \in {"look", "reclaim"}
              \/ replay'.at = "metadata" /\ replay.at = "media"
              \/ replay'.at = "finishing" /\ replay.at = "metadata" /\ remote'[Current] = "pair"
  <1>0. /\ remote \in [Entry -> {"none", "media", "pair"}]
        /\ replay \in [at : ReplayAt, entry : Nat]
        /\ replay.at = "metadata" => Current \in Entry
    BY DEF TypeOK, ReplayInv, Uploading
  <1>1. CASE UploadMedia
    BY <1>0, <1>1 DEF UploadMedia, ReplayGoes
  <1>2. CASE UploadMetadata
    BY <1>0, <1>2 DEF UploadMetadata, ReplayGoes
  <1>3. CASE UploadCorrupt
    BY <1>0, <1>3 DEF UploadCorrupt, ReplayGoes, cloudVars
  <1>4. CASE UploadFails
    BY <1>0, <1>4 DEF UploadFails, ReplayGoes, indexVars
  <1>5. CASE UploadQuota
    BY <1>0, <1>5 DEF UploadQuota, ReplayGoes, indexVars, cloudVars
  <1>6. CASE Reclaim
    BY <1>0, <1>6 DEF Reclaim, ReplayGoes, indexVars
  <1> QED
    BY <1>1, <1>2, <1>3, <1>4, <1>5, <1>6 DEF Upload

\* Every step keeps the disk in order.
LEMMA DiskStep ==
    ASSUME TypeOK, LockInv, ProcInv, DiskInv, IndexInv, ReplayInv, Next
    PROVE  DiskInv'
  <1>0. /\ replay.at \in Removing => Current \in Entry /\ remote[Current] = "pair"
        /\ replay.at \in Removing => \A e \in Entry : writer[e] \notin Threaded
    BY DEF TypeOK, ReplayInv, LockInv
  <1>1. CASE Open \/ Opened \/ Look \/ Awake \/ BeginRemoval \/ MarkFails \/ BeginDrain \/
        QuotaExhausted
    BY <1>1
    DEF DiskInv, Open, Opened, Look, Awake, BeginRemoval, MarkFails, BeginDrain, QuotaExhausted
  <1>2. ASSUME NEW e \in Entry, Scan(e)
        PROVE  DiskInv'
    <2>1. writer[e] \notin Threaded
      BY <1>2 DEF Scan, LockInv
    <2>2. CASE Adopt(e)
      BY <1>2, <2>1, <2>2, SyncedDisk DEF Scan, Adopt, DirState, DiskInv
    <2>3. CASE FinishRemoval(e)
      BY <1>2, <2>1, <2>3, SyncedDisk DEF Scan, FinishRemoval, DirState
    <2>4. CASE Retain(e)
      BY <1>2, <2>4 DEF Scan, Retain, DiskInv
    <2> QED
      BY <1>2, <2>2, <2>3, <2>4 DEF Scan
  <1>3. CASE Upload
    <2>1. UNCHANGED <<dir, survivors, writer>>
      BY <1>3, UploadEffect DEF diskVars
    <2> QED
      BY <1>3, <2>1, UploadEffect DEF DiskInv
  <1>4. CASE MarkCommitted
    BY <1>4, <1>0, BecomesDisk DEF MarkCommitted, Removing, Threaded, DirState
  <1>5. CASE SyncMark
    BY <1>5, <1>0, SyncedDisk DEF SyncMark, Removing, DirState
  <1>6. CASE DeleteMarked
    BY <1>6, <1>0, SyncedDisk DEF DeleteMarked, Forget, Removing, DirState
  <1>7. CASE CleanupFails
    BY <1>7 DEF CleanupFails, Forget, DiskInv
  <1>8. CASE Crash
    BY <1>8 DEF Crash, ProcessEnds, DiskInv, TypeOK, Threaded
  <1>9. CASE Close
    BY <1>9 DEF Close, ProcessEnds, DiskInv, TypeOK, Threaded
  <1>10. ASSUME NEW e \in Entry, NEW part \in Part, LateCommit(e, part) \/ Rot(e, part)
         PROVE  DiskInv'
    BY <1>10 DEF LateCommit, Rot, DiskInv, TypeOK
  <1>11. ASSUME NEW e \in Entry, WriteBatch(e) \/ BeginResync(e) \/ RefuseWrite(e) \/ CancelWrite(e)
         PROVE  DiskInv'
    BY <1>11 DEF WriteBatch, BeginResync, RefuseWrite, Raise, CancelWrite, DiskInv, TypeOK
  <1>12. ASSUME NEW e \in Entry, BeginPersist(e)
         PROVE  DiskInv'
    BY <1>12, BecomesDisk DEF BeginPersist, DirState, TypeOK
  <1>13. ASSUME NEW e \in Entry, WriteFiles(e)
         PROVE  DiskInv'
    BY <1>13, BecomesDisk DEF WriteFiles, DirState, TypeOK
  <1>14. ASSUME NEW e \in Entry, RenamePartial(e)
         PROVE  DiskInv'
    BY <1>14, BecomesDisk DEF RenamePartial, DirState, TypeOK
  <1>15. ASSUME NEW e \in Entry, PersistEnds(e)
         PROVE  DiskInv'
    BY <1>15, SyncedDisk DEF PersistEnds, Register, DirState, TypeOK, Threaded
  <1>16. ASSUME NEW e \in Entry, PersistFails(e)
         PROVE  DiskInv'
    <2>1. CASE UNCHANGED diskVars
      BY <1>16, <2>1 DEF PersistFails, Raise, DiskInv, TypeOK
    <2>2. ASSUME NEW d \in {"none", "filling"}, Becomes(e, d)
          PROVE  DiskInv'
      BY <1>16, <2>2, BecomesDisk DEF PersistFails, Raise, DirState, TypeOK
    <2> QED
      BY <1>16, <2>1, <2>2 DEF PersistFails
  <1> QED
    BY <1>1, <1>2, <1>3, <1>4, <1>5, <1>6, <1>7, <1>8, <1>9, <1>10, <1>11, <1>12, <1>13,
       <1>14, <1>15, <1>16 DEF Next, Write, Removal, Environment
-----------------------------------------------------------------------------
(* The index.                                                              *)

\* Startup scans each directory once, and lists or retains it by its state.
LEMMA ScanIndex ==
    ASSUME TypeOK, LockInv, ProcInv, IndexInv, ReplayInv, NEW e \in Entry, Scan(e)
    PROVE  IndexInv'
  <1>1. /\ e \notin entries /\ e \notin orphans /\ writer[e] \notin Threaded
        /\ replay.at = "off" /\ proc' = "opening"
        /\ todo' = todo \ {e} /\ UNCHANGED <<writer, replay, empty>>
    BY DEF Scan, IndexInv, LockInv, ProcInv
  <1>2. CASE Adopt(e)
    <2>1. entries' = entries \cup {e} /\ used' = used + 1 /\ UNCHANGED orphans
      BY <1>2 DEF Adopt
    <2>2. used' = Cardinality(entries \cup orphans)'
      BY <1>1, <2>1, CountAdd
    <2>3. dir' = [dir EXCEPT ![e] = "stored"]
      BY <1>2 DEF Adopt, SyncedAs, TypeOK
    <2> QED
      BY <1>1, <2>1, <2>2, <2>3 DEF IndexInv, TypeOK
  <1>3. CASE FinishRemoval(e)
    <2>1. dir' = [dir EXCEPT ![e] = "none"] /\ UNCHANGED <<entries, orphans, used>>
      BY <1>3 DEF FinishRemoval, SyncedAs
    <2> QED
      BY <1>1, <2>1 DEF IndexInv, TypeOK
  <1>4. CASE Retain(e)
    <2>1. orphans' = orphans \cup {e} /\ used' = used + 1 /\ UNCHANGED <<entries, dir>>
          /\ dir[e] = "filling"
      BY <1>4 DEF Retain
    <2>2. used' = Cardinality(entries \cup orphans)'
      BY <1>1, <2>1, CountRetain
    <2> QED
      BY <1>1, <2>1, <2>2 DEF IndexInv, TypeOK
  <1> QED
    BY <1>2, <1>3, <1>4 DEF Scan

\* A directory that changes while its write runs is neither listed nor
\* retained, so the index still tells the truth.
LEMMA WriterIndex ==
    ASSUME TypeOK, IndexInv, NEW e \in Entry, NEW d \in DirState, Becomes(e, d),
           e \notin entries, e \notin orphans,
           UNCHANGED <<indexVars, todo, proc, empty, replay>>,
           \A f \in Entry \ {e} : writer'[f] = writer[f]
    PROVE  IndexInv'
  <1>1. \A f \in entries \cup orphans : dir'[f] = dir[f] /\ writer'[f] = writer[f]
    BY DEF TypeOK, Becomes
  <1> QED
    BY <1>1 DEF IndexInv, Current

\* The final sync of a write lists its entry.
LEMMA PersistIndex ==
    ASSUME TypeOK, LockInv, ProcInv, DiskInv, IndexInv, NEW e \in Entry, PersistEnds(e)
    PROVE  IndexInv'
  <1>1. /\ writer[e] \in Threaded /\ dir[e] = "stored" /\ proc = "up" /\ todo = {}
        /\ replay.at \notin Removing
    BY DEF PersistEnds, DiskInv, LockInv, ProcInv, Threaded
  <1>2. e \notin orphans
    BY <1>1 DEF IndexInv
  <1>3. /\ entries' = entries \cup {e} /\ used' = IF e \in entries THEN used ELSE used + 1
        /\ empty' = FALSE /\ dir' = [dir EXCEPT ![e] = "stored"]
        /\ UNCHANGED <<orphans, todo, proc, replay>>
    BY DEF PersistEnds, Register, SyncedAs
  <1>4. used' = Cardinality(entries \cup orphans)'
    BY <1>2, <1>3, CountAdd
  <1>5. \A f \in Entry \ {e} : writer'[f] = writer[f]
    BY DEF PersistEnds, TypeOK
  <1>6. (empty <=> entries = {})'
    BY <1>3
  <1> HIDE DEF Removing
  <1> QED
    BY <1>1, <1>2, <1>3, <1>4, <1>5, <1>6 DEF IndexInv, TypeOK, Removing

\* An uploaded entry leaves the index as the one the replay task works on.
LEMMA ForgetIndex ==
    ASSUME TypeOK, ProcInv, IndexInv, ReplayInv, Forget,
           replay.at \in {"syncing", "deleting"},
           \A e \in Entry \ {Current} : dir'[e] = dir[e]
    PROVE  IndexInv'
  <1>1. Current \in entries /\ Current \notin orphans /\ proc = "up" /\ todo = {}
    BY DEF ReplayInv, Removing, IndexInv, ProcInv
  <1>2. /\ entries' = entries \ {Current} /\ used' = used - 1
        /\ UNCHANGED <<orphans, writer, todo, proc>>
    BY DEF Forget
  <1>3. used' = Cardinality(entries \cup orphans)'
    BY <1>1, <1>2, CountRemove
  <1>4. empty' <=> entries' = {}
    <2>1. empty' = IF entries' = {} THEN TRUE ELSE empty
      BY DEF Forget
    <2>2. ~empty
      BY <1>1 DEF IndexInv
    <2> QED
      BY <2>1, <2>2
  <1>5. \A e \in entries' : dir'[e] = "stored"
    BY <1>2 DEF IndexInv, TypeOK
  <1>6. \A e \in orphans' : dir'[e] = "filling" /\ writer'[e] \notin Threaded
    BY <1>1, <1>2 DEF IndexInv, TypeOK
  <1> QED
    BY <1>1, <1>2, <1>3, <1>4, <1>5, <1>6 DEF IndexInv

\* Every step keeps the index in agreement with the disk.
LEMMA IndexStep ==
    ASSUME TypeOK, LockInv, ProcInv, DiskInv, IndexInv, ReplayInv, Next
    PROVE  IndexInv'
  <1> USE DEF Current
  <1>1. CASE Open
    BY <1>1, FS_EmptySet DEF Open, IndexInv, ProcInv
  <1>2. CASE Opened
    BY <1>2 DEF Opened, IndexInv, ProcInv
  <1>3. ASSUME NEW e \in Entry, Scan(e)
        PROVE  IndexInv'
    BY <1>3, ScanIndex
  <1>4. CASE Look \/ Awake
    BY <1>4 DEF Look, Awake, IndexInv
  <1>5. CASE Upload
    <2>1. UNCHANGED <<dir, writer, entries, orphans, used, todo, proc, empty>>
          /\ replay.at \notin Removing
      BY <1>5 DEF Upload, UploadMedia, UploadMetadata, UploadCorrupt, UploadFails, UploadQuota,
                  Reclaim, Uploading, Removing
    <2> QED
      BY <2>1 DEF IndexInv, Removing
  <1>6. CASE BeginRemoval
    BY <1>6 DEF BeginRemoval, IndexInv
  <1>7. CASE MarkCommitted
    BY <1>7 DEF MarkCommitted, Becomes, ReplayGoes, IndexInv, ReplayInv, TypeOK
  <1>8. CASE MarkFails
    BY <1>8 DEF MarkFails, IndexInv
  <1>9. CASE SyncMark
    BY <1>9 DEF SyncMark, SyncedAs, ReplayGoes, IndexInv, ReplayInv, TypeOK
  <1>10. CASE DeleteMarked
    BY <1>10, ForgetIndex DEF DeleteMarked, SyncedAs, TypeOK
  <1>11. CASE CleanupFails
    BY <1>11, ForgetIndex DEF CleanupFails
  <1>12. CASE Crash \/ Close
    <2>1. ProcessEnds
      BY <1>12 DEF Crash, Close
    <2> QED
      BY <2>1, FS_EmptySet DEF ProcessEnds, IndexInv
  <1>13. CASE BeginDrain \/ QuotaExhausted
    BY <1>13 DEF BeginDrain, QuotaExhausted, IndexInv
  <1>14. ASSUME NEW e \in Entry, NEW part \in Part, LateCommit(e, part) \/ Rot(e, part)
         PROVE  IndexInv'
    BY <1>14, SMTT(30) DEF LateCommit, Rot, IndexInv
  <1>15. ASSUME NEW e \in Entry, WriteBatch(e) \/ RefuseWrite(e) \/ CancelWrite(e)
         PROVE  IndexInv'
    BY <1>15, SMTT(30) DEF WriteBatch, RefuseWrite, Raise, CancelWrite, IndexInv, TypeOK, Threaded
  <1>16. ASSUME NEW e \in Entry, BeginResync(e)
         PROVE  IndexInv'
    BY <1>16 DEF BeginResync, IndexInv, TypeOK
  <1>17. ASSUME NEW e \in Entry, BeginPersist(e)
         PROVE  IndexInv'
    <2>1. e \notin entries /\ e \notin orphans
      BY <1>17 DEF BeginPersist, IndexInv, ReplayInv
    <2> QED
      BY <1>17, <2>1, WriterIndex DEF BeginPersist, DirState, TypeOK
  <1>18. ASSUME NEW e \in Entry, writer[e] \in {"filling", "sealed"}
         PROVE  e \notin entries /\ e \notin orphans
    BY <1>18 DEF DiskInv, IndexInv, ReplayInv, Threaded
  <1>19. ASSUME NEW e \in Entry, WriteFiles(e)
         PROVE  IndexInv'
    BY <1>18, <1>19, WriterIndex DEF WriteFiles, DirState, TypeOK
  <1>20. ASSUME NEW e \in Entry, RenamePartial(e)
         PROVE  IndexInv'
    BY <1>18, <1>20, WriterIndex DEF RenamePartial, DirState, TypeOK
  <1>21. ASSUME NEW e \in Entry, PersistEnds(e)
         PROVE  IndexInv'
    BY <1>21, PersistIndex
  <1>22. ASSUME NEW e \in Entry, PersistFails(e)
         PROVE  IndexInv'
    <2>1. CASE UNCHANGED diskVars
      BY <1>22, <2>1 DEF PersistFails, Raise, IndexInv, TypeOK, Threaded
    <2>2. ASSUME writer[e] \in {"filling", "sealed"}, NEW d \in {"none", "filling"}, Becomes(e, d)
          PROVE  IndexInv'
      BY <1>18, <1>22, <2>2, WriterIndex DEF PersistFails, Raise, DirState, TypeOK
    <2> QED
      BY <1>22, <2>1, <2>2 DEF PersistFails
  <1> QED
    BY <1>1, <1>2, <1>3, <1>4, <1>5, <1>6, <1>7, <1>8, <1>9, <1>10, <1>11, <1>12, <1>13,
       <1>14, <1>15, <1>16, <1>17, <1>19, <1>20, <1>21, <1>22
    DEF Next, Write, Removal, Environment

-----------------------------------------------------------------------------
(* The replay task.                                                        *)

\* Every step keeps the replay task's entry as far as the task has come.
LEMMA ReplayStep ==
    ASSUME TypeOK, LockInv, ProcInv, DiskInv, IndexInv, ReplayInv, Next
    PROVE  ReplayInv'
  <1> USE DEF Current
  <1>1. CASE Open \/ BeginDrain \/ QuotaExhausted
    BY <1>1 DEF Open, BeginDrain, QuotaExhausted, ReplayInv
  <1>2. CASE Opened
    BY <1>2 DEF Opened, ReplayInv, TypeOK, Uploading, Removing
  <1>3. ASSUME NEW e \in Entry, Scan(e)
        PROVE  ReplayInv'
    BY <1>3 DEF Scan, ProcInv, ReplayInv, Uploading, Removing
  <1>4. CASE Look
    <2>1. Candidates # {} => Least(Candidates) \in entries
      <3>1. Candidates \subseteq Nat
        BY ConstantsAssumption DEF Candidates, TypeOK
      <3> QED
        BY <3>1, LeastType DEF Candidates
    <2> QED
      BY <1>4, <2>1 DEF Look, ReplayGoes, ReplayInv, TypeOK, Uploading, Removing
  <1>5. CASE Awake
    BY <1>5 DEF Awake, ReplayGoes, ReplayInv, TypeOK, Uploading, Removing
  <1>6. CASE Upload
    <2>1. UNCHANGED <<dir, entries>> /\ replay'.entry = replay.entry
      BY <1>6, UploadEffect DEF diskVars
    <2>2. CASE replay'.at = "metadata"
      BY <1>6, <2>1, <2>2, UploadEffect DEF ReplayInv, Uploading, Removing
    <2>3. CASE replay'.at = "finishing"
      BY <1>6, <2>1, <2>3, UploadEffect DEF ReplayInv, Uploading, Removing
    <2>4. CASE replay'.at \in {"look", "reclaim"}
      BY <2>4 DEF ReplayInv, Uploading, Removing
    <2> QED
      BY <1>6, <2>2, <2>3, <2>4, UploadEffect
  <1>7. CASE BeginRemoval
    <2>1. dir[Current] = "stored"
      BY <1>7 DEF BeginRemoval, IndexInv, ReplayInv
    <2> QED
      BY <1>7, <2>1 DEF BeginRemoval, ReplayGoes, ReplayInv, TypeOK, Removing
  <1>8. CASE MarkCommitted
    BY <1>8 DEF MarkCommitted, Becomes, ReplayGoes, ReplayInv, TypeOK, Removing
  <1>9. CASE SyncMark
    BY <1>9 DEF SyncMark, SyncedAs, ReplayGoes, ReplayInv, TypeOK, Removing
  <1>10. CASE MarkFails \/ DeleteMarked \/ CleanupFails
    BY <1>10 DEF MarkFails, DeleteMarked, CleanupFails, Forget, ReplayGoes, ReplayInv, TypeOK,
                 Uploading, Removing
  <1>11. CASE Crash \/ Close
    <2>1. ProcessEnds
      BY <1>11 DEF Crash, Close
    <2> QED
      BY <2>1 DEF ProcessEnds, ReplayInv, TypeOK, Uploading, Removing
  <1>12. ASSUME NEW e \in Entry, NEW part \in Part, LateCommit(e, part) \/ Rot(e, part)
         PROVE  ReplayInv'
    BY <1>12 DEF LateCommit, Rot, ReplayInv, TypeOK
  <1>13. ASSUME NEW e \in Entry, Write(e)
         PROVE  ReplayInv'
    <2>1. entries \subseteq entries' /\ UNCHANGED <<replay, remote>>
      BY <1>13 DEF Write, WriteBatch, BeginPersist, BeginResync, RefuseWrite, WriteFiles,
                   RenamePartial, PersistEnds, Register, PersistFails, CancelWrite
    <2>2. replay.at \in Removing => UNCHANGED dir
      BY <1>13 DEF Write, WriteBatch, BeginPersist, BeginResync, RefuseWrite, WriteFiles,
                   RenamePartial, PersistEnds, PersistFails, CancelWrite, LockInv, Threaded
    <2> QED
      BY <2>1, <2>2 DEF ReplayInv, Removing
  <1> QED
    BY <1>1, <1>2, <1>3, <1>4, <1>5, <1>6, <1>7, <1>8, <1>9, <1>10, <1>11, <1>12, <1>13
    DEF Next, Removal, Environment

-----------------------------------------------------------------------------
(* The acknowledged recordings.                                            *)

\* What keeps an acknowledged recording: nothing remote is lost, and its local
\* copy is neither touched nor dropped from the index.
Kept(e) ==
    /\ remote[e] = "pair" => remote'[e] = "pair"
    /\ survivors[e] = {"stored"} /\ dir[e] = "stored" => survivors'[e] = {"stored"}
    /\ e \in entries => e \in entries'
    /\ e \in todo => e \in todo' \cup entries'
    /\ proc = proc'

\* If every acknowledged recording is kept, the new ones alone matter.
LEMMA KeptAck ==
    ASSUME TypeOK, DiskInv, AckInv,
           \A e \in acked : remote'[e] = "pair" \/ Kept(e),
           acked' = acked
    PROVE  AckInv'
  BY DEF AckInv, Kept, DiskInv, TypeOK

\* Every step keeps the acknowledged recordings.
LEMMA AckStep ==
    ASSUME TypeOK, LockInv, ProcInv, DiskInv, IndexInv, ReplayInv, AckInv, Next
    PROVE  AckInv'
  <1>1. CASE Open
    BY <1>1 DEF Open, AckInv, DiskInv, ProcInv, TypeOK
  <1>2. CASE Opened
    BY <1>2 DEF Opened, AckInv
  <1>3. ASSUME NEW e \in Entry, Scan(e)
        PROVE  AckInv'
    <2>1. remote[e] = "pair" \/ dir[e] = "stored" \/ e \notin acked
      BY DEF AckInv, DiskInv, TypeOK
    <2>2. dir[e] = "stored" => Adopt(e) /\ UNCHANGED diskVars
      BY <1>3 DEF Scan, Adopt, FinishRemoval, Retain
    <2>3. \A f \in acked : remote'[f] = "pair" \/ Kept(f)
      <3>1. CASE dir[e] = "stored"
        BY <1>3, <2>2, <3>1 DEF Scan, Adopt, Kept
      <3>2. CASE dir[e] # "stored"
        BY <1>3, <2>1, <3>2 DEF Scan, Adopt, FinishRemoval, Retain, SyncedAs, Kept, TypeOK
      <3> QED
        BY <3>1, <3>2
    <2> QED
      BY <1>3, <2>3, KeptAck DEF Scan
  <1>4. CASE Look \/ Awake \/ BeginRemoval \/ MarkFails \/ BeginDrain \/ QuotaExhausted
    BY <1>4 DEF Look, Awake, BeginRemoval, MarkFails, BeginDrain, QuotaExhausted, AckInv
  <1>5. CASE Upload
    <2>1. UNCHANGED <<acked, survivors, entries, proc, todo>>
      BY <1>5, UploadEffect DEF diskVars, lifeVars
    <2> QED
      BY <1>5, <2>1, UploadEffect DEF AckInv, TypeOK
  <1>6. CASE MarkCommitted
    <2>1. \A f \in acked : remote'[f] = "pair" \/ Kept(f)
      BY <1>6 DEF MarkCommitted, Becomes, Kept, ReplayInv, Removing, TypeOK
    <2> QED
      BY <1>6, <2>1, KeptAck DEF MarkCommitted
  <1>7. CASE SyncMark
    <2>1. \A f \in acked : remote'[f] = "pair" \/ Kept(f)
      BY <1>7 DEF SyncMark, SyncedAs, Kept, ReplayInv, Removing, TypeOK
    <2> QED
      BY <1>7, <2>1, KeptAck DEF SyncMark
  <1>8. CASE DeleteMarked \/ CleanupFails
    <2>1. /\ UNCHANGED <<remote, proc, todo>> /\ remote[Current] = "pair"
          /\ entries' = entries \ {Current}
      BY <1>8 DEF DeleteMarked, CleanupFails, Forget, cloudVars, lifeVars, ReplayInv, Removing
    <2>2. ASSUME NEW f \in Entry \ {Current}, survivors[f] = {"stored"}, dir[f] = "stored"
          PROVE  survivors'[f] = {"stored"}
      BY <1>8, <2>2 DEF DeleteMarked, CleanupFails, SyncedAs, diskVars
    <2>3. \A f \in acked : remote'[f] = "pair" \/ Kept(f)
      BY <2>1, <2>2 DEF Kept, TypeOK
    <2> QED
      BY <1>8, <2>3, KeptAck DEF DeleteMarked, CleanupFails, Forget
  <1>9. CASE Crash
    BY <1>9 DEF Crash, ProcessEnds, AckInv, TypeOK
  <1>10. CASE Close
    BY <1>10 DEF Close, ProcessEnds, AckInv, TypeOK
  <1>11. ASSUME NEW e \in Entry, NEW part \in Part, LateCommit(e, part) \/ Rot(e, part)
         PROVE  AckInv'
    BY <1>11 DEF LateCommit, Rot, AckInv, TypeOK
  <1>12. ASSUME NEW e \in Entry, WriteBatch(e) \/ BeginResync(e) \/ RefuseWrite(e) \/ CancelWrite(e)
         PROVE  AckInv'
    BY <1>12 DEF WriteBatch, BeginResync, RefuseWrite, CancelWrite, AckInv
  <1>13. ASSUME NEW e \in Entry, BeginPersist(e) \/ WriteFiles(e) \/ RenamePartial(e)
         PROVE  AckInv'
    <2>1. dir[e] # "stored"
      BY <1>13 DEF BeginPersist, WriteFiles, RenamePartial, DiskInv
    <2>2. \A f \in acked : Kept(f)
      BY <1>13, <2>1 DEF BeginPersist, WriteFiles, RenamePartial, Becomes, Kept, TypeOK
    <2> QED
      BY <1>13, <2>2, KeptAck DEF BeginPersist, WriteFiles, RenamePartial
  <1>14. ASSUME NEW e \in Entry, PersistEnds(e)
         PROVE  AckInv'
    <2>1. \A f \in Entry : Kept(f)
      BY <1>14 DEF PersistEnds, SyncedAs, Register, Kept, TypeOK
    <2>2. survivors'[e] = {"stored"} /\ e \in entries' /\ proc' = "up"
      BY <1>14 DEF PersistEnds, SyncedAs, Register, LockInv, Threaded
    <2>3. acked' \subseteq acked \cup {e}
      BY <1>14 DEF PersistEnds
    <2> QED
      BY <2>1, <2>2, <2>3 DEF AckInv, Kept, DiskInv, TypeOK
  <1>15. ASSUME NEW e \in Entry, PersistFails(e)
         PROVE  AckInv'
    <2>1. \A f \in acked : Kept(f)
      <3>1. CASE UNCHANGED diskVars
        BY <1>15, <3>1 DEF PersistFails, Kept
      <3>2. ASSUME writer[e] \in {"filling", "sealed"}, NEW d \in {"none", "filling"}, Becomes(e, d)
            PROVE  \A f \in acked : Kept(f)
        BY <1>15, <3>2 DEF PersistFails, Becomes, Kept, DiskInv, TypeOK
      <3> QED
        BY <1>15, <3>1, <3>2 DEF PersistFails
    <2> QED
      BY <1>15, <2>1, KeptAck DEF PersistFails
  <1> QED
    BY <1>1, <1>2, <1>3, <1>4, <1>5, <1>6, <1>7, <1>8, <1>9, <1>10, <1>11, <1>12, <1>13,
       <1>14, <1>15 DEF Next, Write, Removal, Environment
-----------------------------------------------------------------------------
(* The theorems.                                                           *)

\* Every step keeps the types.
LEMMA TypeStep ==
    ASSUME TypeOK, IndexInv, ReplayInv, Next
    PROVE  TypeOK'
  <1>1. \A e \in Entry : Scan(e) => TypeOK'
    BY OpeningType DEF Opening
  <1>2. Open \/ Opened => TypeOK'
    BY OpeningType DEF Opening
  <1> QED
    BY <1>1, <1>2, WriteType, UploadType, RemovalType, EnvironmentType DEF Next

\* The inductive invariant holds when the process starts for the first time.
LEMMA InitInv == Init => IInv
  <1> SUFFICES ASSUME Init PROVE IInv
    OBVIOUS
  <1>1. TypeOK
    <2>1. replay \in [at : ReplayAt, entry : Nat]
      BY DEF Init, ReplayAt
    <2>2. /\ backoff \in BOOLEAN /\ wake \in BOOLEAN /\ empty \in BOOLEAN
          /\ draining \in BOOLEAN /\ full \in BOOLEAN
      BY Zenon DEF Init
    <2>3. restarts \in 0..MaxRestarts /\ failures \in 0..2 /\ used \in Nat
      BY ConstantsAssumption DEF Init
    <2> QED
      BY <2>1, <2>2, <2>3 DEF Init, TypeOK, DirState, WriterState
  <1>2. LockInv /\ ProcInv /\ ReplayInv
    BY DEF Init, LockInv, ProcInv, ReplayInv, Threaded, Removing, Uploading
  <1>3. DiskInv /\ AckInv
    BY DEF Init, DiskInv, AckInv, Threaded
  <1>4. IndexInv
    BY FS_EmptySet DEF Init, IndexInv
  <1> QED
    BY <1>1, <1>2, <1>3, <1>4 DEF IInv

\* The inductive invariant is kept by every step.
LEMMA InvStep == IInv /\ [Next]_vars => IInv'
  <1> SUFFICES ASSUME IInv, [Next]_vars PROVE IInv'
    OBVIOUS
  <1>1. CASE Next
    BY <1>1, TypeStep, LockStep, ProcStep, DiskStep, IndexStep, ReplayStep, AckStep DEF IInv
  <1>2. CASE UNCHANGED vars
    BY <1>2 DEF vars, IInv, TypeOK, LockInv, ProcInv, DiskInv, IndexInv, ReplayInv, AckInv, Current
  <1> QED
    BY <1>1, <1>2

\* The inductive invariant holds in every reachable state.
LEMMA Inductive == Spec => []IInv
  BY InitInv, InvStep, PTL DEF Spec

\* Types of the variables in every reachable state.
THEOREM TypeCorrect == Spec => []TypeOK
  BY Inductive, PTL DEF IInv

\* No acknowledged recording is lost to a crash, a power loss, a cancelled
\* write or a failed upload, wherever it strikes.
THEOREM AckedSurvives == Spec => []AckedIsDurable
  <1>1. IInv => AckedIsDurable
    BY DEF IInv, AckInv, AckedIsDurable
  <1> QED
    BY <1>1, Inductive, PTL

\* The marker startup deletes unread stands for a delivered entry.
THEOREM MarkerSafe == Spec => []MarkerMeansDelivered
  <1>1. IInv => MarkerMeansDelivered
    BY DEF IInv, DiskInv, MarkerMeansDelivered
  <1> QED
    BY <1>1, Inductive, PTL

\* Whoever gets the lock finds the index, its counter and the drain's signal
\* in agreement with the disk, and every acknowledged recording listed or remote.
THEOREM IndexAgrees == Spec => []IndexMatchesDisk
  <1>1. IInv => IndexMatchesDisk
    <2> SUFFICES ASSUME IInv, proc = "up", lock = "free"
                 PROVE  /\ \A e \in entries : dir[e] = "stored"
                        /\ \A e \in acked : e \in entries \/ remote[e] = "pair"
                        /\ empty <=> entries = {}
                        /\ used = Cardinality(entries \cup orphans)
      BY DEF IndexMatchesDisk
    <2>1. replay.at \notin Removing
      BY DEF IInv, LockInv
    <2>2. \A e \in acked : e \in entries \/ remote[e] = "pair"
      BY DEF IInv, AckInv
    <2> QED
      BY <2>1, <2>2 DEF IInv, IndexInv, Removing
  <1> QED
    BY <1>1, Inductive, PTL

-----------------------------------------------------------------------------
(* The refinement of DurableOutbox.                                        *)

Local == {e \in Entry : survivors[e] = {"stored"}}
Delivered == {e \in Entry : remote[e] = "pair"}

\* A step that only adds durable copies, and acknowledges what has one.
LEMMA StoreStep ==
    ASSUME Local \subseteq Local', UNCHANGED Delivered,
           NEW A \in SUBSET Entry, acked' = acked \cup A, A \subseteq Local'
    PROVE  Outbox!Next
  <1>1. Local' \ Local \in SUBSET Entry /\ Local' = Local \cup (Local' \ Local)
    BY DEF Local
  <1>2. Outbox!Store(Local' \ Local, A)
    BY <1>1 DEF Outbox!Store, Local, Delivered
  <1> QED
    BY <1>1, <1>2 DEF Outbox!Next

\* A step that gives up the durable copy of a delivered entry.
LEMMA DiscardStep ==
    ASSUME NEW e \in Delivered, Local' = Local \ {e}, UNCHANGED <<Delivered, acked>>
    PROVE  Outbox!Next
  <1>1. Outbox!Discard({e})
    BY DEF Outbox!Discard, Local, Delivered
  <1>2. {e} \in SUBSET Entry
    BY DEF Delivered
  <1> QED
    BY <1>1, <1>2 DEF Outbox!Next

\* A step that completes an entry on the remote side.
LEMMA DeliverStep ==
    ASSUME NEW e \in Entry, Delivered' = Delivered \cup {e}, UNCHANGED <<Local, acked>>
    PROVE  Outbox!Next
  <1>1. Outbox!Deliver(e)
    BY DEF Outbox!Deliver, Local, Delivered
  <1> QED
    BY <1>1 DEF Outbox!Next

\* The directory of an entry that is not in its final place may change without
\* any durable copy appearing or disappearing.
LEMMA BecomesLocal ==
    ASSUME TypeOK, DiskInv, NEW e \in Entry, NEW d \in DirState, Becomes(e, d), dir[e] # "stored"
    PROVE  UNCHANGED Local
  BY DEF TypeOK, DiskInv, Becomes, Local

\* A sync takes no durable copy away, except of the entry it is about.
LEMMA SyncedLocal ==
    ASSUME TypeOK, DiskInv, NEW e \in Entry, NEW d \in DirState, SyncedAs(e, d),
           d = "stored" \/ dir[e] # "stored"
    PROVE  Local \subseteq Local'
  BY DEF TypeOK, DiskInv, SyncedAs, Local

\* Every step of the disk outbox is a step of the durable outbox or none.
LEMMA OutboxStep ==
    ASSUME IInv, Next
    PROVE  Outbox!Next \/ UNCHANGED Outbox!vars
  <1> USE DEF IInv
  <1>0. ASSUME UNCHANGED <<survivors, remote, acked>>
        PROVE  UNCHANGED Outbox!vars
    BY <1>0 DEF Outbox!vars
  <1>1. CASE Open \/ Opened \/ Look \/ Awake \/ BeginRemoval \/ MarkFails \/ CleanupFails
             \/ Close \/ BeginDrain \/ QuotaExhausted
    <2>1. UNCHANGED <<survivors, remote, acked>>
      BY <1>1 DEF Open, Opened, Look, Awake, BeginRemoval, MarkFails, CleanupFails, Forget, Close,
                  ProcessEnds, BeginDrain, QuotaExhausted
    <2> QED
      BY <1>0, <2>1
  <1>2. ASSUME NEW e \in Entry,
               WriteBatch(e) \/ BeginResync(e) \/ RefuseWrite(e) \/ CancelWrite(e)
        PROVE  UNCHANGED Outbox!vars
    <2>1. UNCHANGED <<survivors, remote, acked>>
      BY <1>2 DEF WriteBatch, BeginResync, RefuseWrite, CancelWrite
    <2> QED
      BY <1>0, <2>1
  <1>3. ASSUME Local \subseteq Local', UNCHANGED <<remote, acked>>
        PROVE  Outbox!Next
    <2>1. UNCHANGED Delivered
      BY <1>3 DEF Delivered
    <2> DEFINE A == {}
    <2>2. A \in SUBSET Entry /\ acked' = acked \cup A /\ A \subseteq Local'
      BY <1>3
    <2> HIDE DEF A
    <2> QED
      BY <1>3, <2>1, <2>2, StoreStep
  <1>4. ASSUME NEW e \in Entry, Scan(e)
        PROVE  Outbox!Next
    <2>1. Local \subseteq Local'
      BY <1>4, SyncedLocal DEF Scan, Adopt, FinishRemoval, Retain, DirState, Local
    <2> QED
      BY <1>3, <1>4, <2>1 DEF Scan
  <1>5. CASE Crash
    <2>1. Local \subseteq Local'
      BY <1>5 DEF Crash, Local
    <2> QED
      BY <1>3, <1>5, <2>1 DEF Crash, ProcessEnds
  <1>6. CASE SyncMark
    <2>1. Current \in Entry /\ dir[Current] = "committed"
      BY <1>6 DEF SyncMark, ReplayInv, Removing, TypeOK
    <2>2. Local \subseteq Local'
      BY <1>6, <2>1, SyncedLocal DEF SyncMark, DirState
    <2> QED
      BY <1>3, <1>6, <2>2 DEF SyncMark
  <1>7. CASE DeleteMarked
    <2>1. Current \in Entry /\ dir[Current] = "committed"
      BY <1>7 DEF DeleteMarked, ReplayInv, Removing, TypeOK
    <2>2. Local \subseteq Local'
      BY <1>7, <2>1, SyncedLocal DEF DeleteMarked, DirState
    <2> QED
      BY <1>3, <1>7, <2>2 DEF DeleteMarked, Forget
  <1>8. CASE MarkCommitted
    <2>1. Current \in Delivered
      BY <1>8 DEF MarkCommitted, ReplayInv, Removing, TypeOK, Delivered
    <2>2. Local' = Local \ {Current}
      BY <1>8, <2>1 DEF MarkCommitted, Becomes, TypeOK, Local, Delivered
    <2>3. UNCHANGED <<Delivered, acked>>
      BY <1>8 DEF MarkCommitted, Delivered
    <2> QED
      BY <2>1, <2>2, <2>3, DiscardStep
  <1>9. CASE Upload
    <2>1. UNCHANGED <<survivors, acked>>
      BY <1>9
      DEF Upload, UploadMedia, UploadMetadata, UploadCorrupt, UploadFails, UploadQuota, Reclaim
    <2>2. CASE UploadMetadata
      <3>1. Current \in Entry
        BY <2>2 DEF UploadMetadata, ReplayInv, Uploading, TypeOK
      <3>2. Delivered' = Delivered \cup {Current}
        BY <2>2, <3>1 DEF UploadMetadata, Delivered, TypeOK
      <3>3. UNCHANGED Local
        BY <2>1 DEF Local
      <3> QED
        BY <2>1, <3>1, <3>2, <3>3, DeliverStep
    <2>3. CASE UploadMedia
      <3>1. Delivered' = Delivered
        BY <2>3 DEF UploadMedia, Delivered, TypeOK
      <3> QED
        BY <2>1, <3>1 DEF Outbox!vars, Delivered
    <2>4. CASE UploadCorrupt \/ UploadFails \/ UploadQuota \/ Reclaim
      BY <1>0, <2>1, <2>4 DEF UploadCorrupt, UploadFails, UploadQuota, Reclaim
    <2> QED
      BY <1>9, <2>2, <2>3, <2>4 DEF Upload
  <1>10. ASSUME NEW e \in Entry, NEW part \in Part, LateCommit(e, part)
         PROVE  Outbox!Next \/ UNCHANGED Outbox!vars
    <2>1. UNCHANGED <<survivors, acked, Local>>
      BY <1>10 DEF LateCommit, Local
    <2>2. CASE part = "metadata"
      <3>1. Delivered' = Delivered \cup {e}
        BY <1>10, <2>2 DEF LateCommit, Delivered, TypeOK
      <3> QED
        BY <2>1, <3>1, DeliverStep
    <2>3. CASE part # "metadata"
      <3>1. Delivered' = Delivered
        BY <1>10, <2>3 DEF LateCommit, Delivered, TypeOK
      <3> QED
        BY <2>1, <3>1 DEF Outbox!vars, Delivered
    <2> QED
      BY <2>2, <2>3
  <1>11. ASSUME NEW e \in Entry, NEW part \in Part, Rot(e, part)
         PROVE  UNCHANGED Outbox!vars
    BY <1>0, <1>11 DEF Rot
  <1>12. ASSUME UNCHANGED <<Local, remote, acked>>
         PROVE  UNCHANGED Outbox!vars
    BY <1>12 DEF Outbox!vars, Local
  <1>13. ASSUME NEW e \in Entry, BeginPersist(e) \/ WriteFiles(e) \/ RenamePartial(e)
         PROVE  UNCHANGED Outbox!vars
    <2>1. dir[e] # "stored"
      BY <1>13 DEF BeginPersist, WriteFiles, RenamePartial, DiskInv
    <2>2. UNCHANGED Local
      BY <1>13, <2>1, BecomesLocal DEF BeginPersist, WriteFiles, RenamePartial, DirState
    <2> QED
      BY <1>12, <1>13, <2>2 DEF BeginPersist, WriteFiles, RenamePartial
  <1>14. ASSUME NEW e \in Entry, PersistFails(e)
         PROVE  UNCHANGED Outbox!vars
    <2>1. UNCHANGED Local
      BY <1>14, BecomesLocal DEF PersistFails, DiskInv, DirState, Local
    <2> QED
      BY <1>12, <1>14, <2>1 DEF PersistFails
  <1>15. ASSUME NEW e \in Entry, PersistEnds(e)
         PROVE  Outbox!Next
    <2>1. Local \subseteq Local' /\ e \in Local'
      BY <1>15, SyncedLocal DEF PersistEnds, SyncedAs, DirState, TypeOK, Local
    <2>2. UNCHANGED Delivered
      BY <1>15 DEF PersistEnds, Delivered
    <2>3. acked' = acked \cup IF e \in cancelled THEN {} ELSE {e}
      BY <1>15 DEF PersistEnds
    <2> DEFINE A == IF e \in cancelled THEN {} ELSE {e}
    <2>4. A \in SUBSET Entry /\ A \subseteq Local'
      BY <2>1
    <2> HIDE DEF A
    <2> QED
      BY <2>1, <2>2, <2>3, <2>4, StoreStep DEF A
  <1> QED
    BY <1>1, <1>2, <1>4, <1>5, <1>6, <1>7, <1>8, <1>9, <1>10, <1>11, <1>13, <1>14, <1>15
    DEF Next, Write, Removal, Environment

\* The disk outbox implements the durable outbox through every crash.
THEOREM OutboxImplemented == Spec => ImplementsDurableOutbox
  <1>1. Init => Outbox!Init
    BY DEF Init, Outbox!Init
  <1>2. IInv /\ [Next]_vars => [Outbox!Next]_(Outbox!vars)
    <2> SUFFICES ASSUME IInv, [Next]_vars
                 PROVE  Outbox!Next \/ UNCHANGED Outbox!vars
      OBVIOUS
    <2>1. CASE Next
      BY <2>1, OutboxStep
    <2>2. CASE UNCHANGED vars
      BY <2>2 DEF vars, Outbox!vars
    <2> QED
      BY <2>1, <2>2
  <1> QED
    BY <1>1, <1>2, Inductive, PTL DEF Spec, ImplementsDurableOutbox, Outbox!Spec
=============================================================================
