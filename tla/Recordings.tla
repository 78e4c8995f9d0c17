------------------------------ MODULE Recordings ------------------------------
(***************************************************************************)
(* What becomes of the recordings: the local archive, the listing, the     *)
(* window of time a listing is for, ranged reads and the export.  They     *)
(* share no state, so that a behaviour is one of the component that is its *)
(* subject, while the others stay in their initial states.  None of the    *)
(* actions that are fair is enabled there: the fairness of one asks        *)
(* nothing of the behaviours of the others.                                *)
(***************************************************************************)
EXTENDS LocalArchive

CONSTANTS
    Recording, Reader,
    ChunkSize, Header, Tag, MaxSize, MaxFragment,
    Browser, Pieces,
    Hour, Interval, MaxScan, Entries, Time, Footage

ASSUME RangeAssumption ==
    /\ ChunkSize \in Nat \ {0} /\ MaxSize \in Nat \ {0} /\ MaxFragment \in Nat \ {0}
    /\ Header \in Nat /\ Tag \in Nat

VARIABLES
    subject,
    outbox, cloud, gone, upload, retaining, waiting, cache, request,
    size, asked, reading, taken, pending, index, object, response, remaining, skip, body,
    slot, stream, ffmpeg, stdin, stdout, stderr, closed, left, feeder, listener,
    stored, scans, answer

Listing == INSTANCE RecordListing WITH deleted <- gone
Reading == INSTANCE RangeRead WITH step <- reading
Export == INSTANCE Download
Windows == INSTANCE ListingWindow WITH cache <- scans

ASSUME BrowserAssumption == Export!Nobody \notin Browser

ASSUME WindowAssumption ==
    /\ Hour \in Nat \ {0} /\ Interval \in Nat /\ MaxScan \in Nat /\ Time \subseteq Nat
    /\ Footage \subseteq [start : Nat, duration : Nat]

listingVars == <<outbox, cloud, gone, upload, retaining, waiting, cache, request>>
rangeVars ==
    <<size, asked, reading, taken, pending, index, object, response, remaining, skip, body>>
exportVars == <<slot, stream, ffmpeg, stdin, stdout, stderr, closed, left, feeder, listener>>
windowVars == <<stored, scans, answer>>

RecordingsInit ==
    /\ subject \in {"localArchive", "listing", "range", "export", "window"}
    /\ Init /\ Listing!Init /\ Export!Init /\ Windows!Init
    /\ Reading!Init /\ (subject # "range" => size = 1)

RecordingsNext ==
    \/ subject = "localArchive" /\ Next
       /\ UNCHANGED <<subject, listingVars, rangeVars, exportVars, windowVars>>
    \/ subject = "listing" /\ Listing!Next
       /\ UNCHANGED <<subject, vars, rangeVars, exportVars, windowVars>>
    \/ subject = "range" /\ Reading!Next
       /\ UNCHANGED <<subject, vars, listingVars, exportVars, windowVars>>
    \/ subject = "export" /\ Export!Next
       /\ UNCHANGED <<subject, vars, listingVars, rangeVars, windowVars>>
    \/ subject = "window" /\ Windows!Next
       /\ UNCHANGED <<subject, vars, listingVars, rangeVars, exportVars>>

RecordingsSpec ==
    /\ RecordingsInit
    /\ [][RecordingsNext]_<<subject, vars, listingVars, rangeVars, exportVars, windowVars>>
    /\ DiskRecovers /\ Listing!LooksAgain /\ Export!ExportGoesOn
-----------------------------------------------------------------------------
(* The properties of the instances under the names of their modules.       *)

\* A request for the recordings misses none that moved from the outbox to the cloud.
AnswerHasNoGap == Listing!AnswerHasNoGap

\* A recording that left the outbox is shown again at last.
DeliveredIsListed == Listing!DeliveredIsListed

\* A listing has what overlaps its window and is within reach of its scan.
ReachedIsListed == Windows!ReachedIsListed

\* The body of a range request is the range, or ends with an error.
BodyIsRange == Reading!BodyIsRange

\* A reading fails only when bytes it needs are not stored.
StoredIsServed == Reading!StoredIsServed

\* A sealed recording is as long as its upload announced.
SealedAsAnnounced == Reading!SealedAsAnnounced

\* Only the export that has the slot is under way.
OneExport == Export!OneExport

\* An export gives the slot back at last, finished or abandoned.
SlotComesBack == Export!SlotComesBack
=============================================================================
