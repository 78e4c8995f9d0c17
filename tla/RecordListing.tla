----------------------------- MODULE RecordListing ----------------------------
(***************************************************************************)
(* What a request for the recordings of a camera answers: the outbox's     *)
(* entries and the cloud's listing, which is cached for thirty seconds.    *)
(* Meanwhile recordings move from the outbox to the cloud, and retention   *)
(* deletes them there.                                                     *)
(***************************************************************************)
EXTENDS Naturals, FiniteSets

CONSTANTS Recording, \* numbers, oldest first
          Reader     \* requests under way

VARIABLES
    outbox,    \* recordings that are entries of the outbox
    cloud,     \* recordings with both objects in the cloud
    deleted,   \* recordings retention deleted
    upload,    \* [step, record] the replay task's upload
    retaining, \* retention has deleted and not yet invalidated
    waiting,   \* _next_retry lies ahead
    cache,     \* [records, age, missing] _records_cache; age Expired is none
    request    \* [Reader -> [step, local, remote, since, answer, excused]]

storeVars == <<outbox, cloud, deleted>>
vars == <<storeVars, upload, retaining, waiting, cache, request>>

Expired == 2 \* 30 seconds, in ticks

NoCache == [records |-> {}, age |-> Expired, missing |-> {}]
NoUpload == [step |-> "idle", record |-> 0]
NoRequest == [step |-> "idle", local |-> {}, remote |-> {}, since |-> {}, answer |-> {},
              excused |-> {}]
-----------------------------------------------------------------------------
Init ==
    /\ outbox = {} /\ cloud = {} /\ deleted = {}
    /\ upload = NoUpload /\ retaining = FALSE /\ waiting = FALSE
    /\ cache = NoCache
    /\ request = [r \in Reader |-> NoRequest]

Archived == outbox \cup cloud

\* _register.
Register ==
    /\ \E n \in Recording \ (Archived \cup deleted) : outbox' = outbox \cup {n}
    /\ UNCHANGED <<cloud, deleted, upload, retaining, waiting, cache, request>>

\* The server has taken the sidecar of the oldest entry; the answer is on its way.
Commit ==
    /\ upload = NoUpload /\ ~waiting
    /\ \E n \in outbox :
          /\ \A m \in outbox : n <= m
          /\ cloud' = cloud \cup {n}
          /\ upload' = [step |-> "committed", record |-> n]
    /\ UNCHANGED <<outbox, deleted, retaining, waiting, cache, request>>

\* Fault: the cache is left as it is.
NotInvalidated ==
    /\ upload.step = "committed"
    /\ upload' = [upload EXCEPT !.step = "delivered"]
    /\ UNCHANGED <<storeVars, retaining, waiting, cache, request>>

\* write_prepared ends with _invalidate_camera.
Delivered ==
    /\ upload.step = "committed"
    /\ upload' = [upload EXCEPT !.step = "delivered"]
    /\ cache' = NoCache
    /\ UNCHANGED <<storeVars, retaining, waiting, request>>

\* An attempt fails, with or without effect in the cloud.
UploadFails ==
    /\ upload.step = "committed" \/ (upload = NoUpload /\ outbox # {})
    /\ upload' = NoUpload /\ waiting' = TRUE
    /\ UNCHANGED <<storeVars, retaining, cache, request>>

\* _remove_committed, and the entry is dropped.
Remove ==
    /\ upload.step = "delivered"
    /\ outbox' = outbox \ {upload.record}
    /\ upload' = NoUpload
    /\ UNCHANGED <<cloud, deleted, retaining, waiting, cache, request>>

BackoffEnds ==
    /\ waiting
    /\ waiting' = FALSE
    /\ UNCHANGED <<storeVars, upload, retaining, cache, request>>

\* delete_record: the DELETE, and the invalidation when it is answered.
Delete ==
    /\ ~retaining
    /\ \E n \in cloud \ outbox : cloud' = cloud \ {n} /\ deleted' = deleted \cup {n}
    /\ retaining' = TRUE
    /\ UNCHANGED <<outbox, upload, waiting, cache, request>>

DeleteAnswered ==
    /\ retaining
    /\ retaining' = FALSE
    /\ cache' = NoCache
    /\ UNCHANGED <<storeVars, upload, waiting, request>>
-----------------------------------------------------------------------------
(* list_records of the outbox, which asks list_records of the backend.     *)

Answer(r, q, records) ==
    request' = [request EXCEPT ![r] = [q EXCEPT !.step = "answered", !.answer = records]]

\* While the outbox waits for its next attempt, the cloud is not asked.
Asked == [NoRequest EXCEPT !.step = "asked", !.local = outbox, !.since = Archived]

\* Fault: a hit renews the entry.
RenewingHit(r) ==
    /\ cache' = [cache EXCEPT !.age = 0]
    /\ Answer(r, [Asked EXCEPT !.excused = cache.missing], outbox \cup cache.records)

Hit(r) ==
    /\ Answer(r, [Asked EXCEPT !.excused = cache.missing], outbox \cup cache.records)
    /\ UNCHANGED cache

List(r) ==
    /\ request[r].step \in {"idle", "answered"}
    /\ IF waiting THEN /\ Answer(r, [Asked EXCEPT !.excused = Recording], outbox)
                       /\ UNCHANGED cache
       ELSE IF cache.age < Expired THEN Hit(r)
       ELSE request' = [request EXCEPT ![r] = Asked] /\ UNCHANGED cache
    /\ UNCHANGED <<storeVars, upload, retaining, waiting>>

\* The server evaluates the PROPFIND.
Evaluate(r) ==
    /\ request[r].step = "asked"
    /\ request' = [request EXCEPT ![r].step = "evaluated", ![r].remote = cloud]
    /\ UNCHANGED <<storeVars, upload, retaining, waiting, cache>>

\* Its answer arrives and is cached, whatever was invalidated meanwhile.
Fill(r) ==
    /\ request[r].step = "evaluated"
    /\ cache' = [records |-> request[r].remote, age |-> 0, missing |-> cloud \ request[r].remote]
    /\ Answer(r, request[r], request[r].local \cup request[r].remote)
    /\ UNCHANGED <<storeVars, upload, retaining, waiting>>

\* After an error or five seconds the local entries are the answer; without any it
\* is an error.
AskingFails(r) ==
    /\ request[r].step \in {"asked", "evaluated"}
    /\ IF request[r].local = {} THEN request' = [request EXCEPT ![r] = NoRequest]
       ELSE Answer(r, [request[r] EXCEPT !.excused = Recording], request[r].local)
    /\ UNCHANGED <<storeVars, upload, retaining, waiting, cache>>

Tick ==
    /\ cache.age < Expired
    /\ cache' = IF cache.age + 1 = Expired THEN NoCache ELSE [cache EXCEPT !.age = @ + 1]
    /\ UNCHANGED <<storeVars, upload, retaining, waiting, request>>

Next ==
    \/ Register \/ Commit \/ Delivered \/ UploadFails \/ Remove \/ BackoffEnds
    \/ Delete \/ DeleteAnswered
    \/ \E r \in Reader : List(r) \/ Evaluate(r) \/ Fill(r) \/ AskingFails(r)
    \/ Tick

\* Somebody keeps looking while there is something to see, the cloud answers now and
\* then, and the outbox is not in its backoff at every look.
LooksAgain ==
    /\ WF_vars(Tick) /\ WF_vars(BackoffEnds)
    /\ SF_vars(\E r \in Reader : cloud # {} /\ ~waiting /\ List(r))
    /\ SF_vars(\E r \in Reader : Evaluate(r))
    /\ SF_vars(\E r \in Reader : Fill(r))

Spec == Init /\ [][Next]_vars /\ LooksAgain
-----------------------------------------------------------------------------
\* A request that asked the cloud or its cache shows every recording that was archived
\* when it began, wherever it has moved to meanwhile, unless retention deleted it or
\* the cached listing lacked it when it was cached already.
AnswerHasNoGap ==
    \A r \in Reader :
       request[r].step = "answered" =>
          request[r].since \subseteq request[r].answer \cup request[r].excused \cup deleted

\* A recording that left the outbox is shown again at last, though a listing from
\* before its upload was cached after the invalidation.
DeliveredIsListed ==
    \A n \in Recording :
       n \in cloud \ outbox ~>
          \/ n \in deleted
          \/ \E r \in Reader : request[r].step = "answered" /\ n \in request[r].answer
=============================================================================
