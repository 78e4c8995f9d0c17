----------------------------- MODULE ListingWindow -----------------------------
(***************************************************************************)
(* Which recordings a listing of a time window finds in the cloud.  They   *)
(* lie in one directory for each hour, by the hour they begin in; a        *)
(* listing scans the hours of its window and those one interval before it, *)
(* and its result is cached under the hours of the window.                 *)
(***************************************************************************)
EXTENDS Integers, FiniteSets

CONSTANTS
    Hour,     \* its length, in the unit of all times
    Interval, \* archive_chunk_seconds
    MaxScan,  \* targeted_scan_max_hours: the longest window scanned by hours
    Entries,  \* index_cache_entries
    Time,     \* the times that are asked for
    Footage   \* the recordings of a camera, [start, duration]

Open == -1 \* a bound that is not given

Given(t) == t # Open

Window ==
    {w \in [start : Time \cup {Open}, end : Time \cup {Open}] :
        Given(w.start) /\ Given(w.end) => w.start < w.end}

VARIABLES
    stored, \* recordings in the cloud
    cache,  \* {[key, records, reach]}: _records_cache; reach is a history variable,
            \*   the time from which on the recordings were looked for
    answer  \* what the last listing of the recordings that are stored has found

vars == <<stored, cache, answer>>

NoAnswer == [window |-> [start |-> Open, end |-> 0], records |-> {}, reach |-> 0]
-----------------------------------------------------------------------------
HourOf(t) == t \div Hour

Overlaps(r, w) ==
    /\ Given(w.start) => r.start + r.duration > w.start
    /\ Given(w.end) => r.start < w.end

Key(w) == <<IF Given(w.start) THEN HourOf(w.start) ELSE Open,
            IF Given(w.end) THEN HourOf(w.end) ELSE Open>>

Targeted(w) == Given(w.start) /\ Given(w.end) /\ w.end - w.start <= MaxScan

\* Fault: the hours of the window alone.
WindowHours(w) == HourOf(w.start)..HourOf(w.end)

\* _hour_paths.
Hours(w) == HourOf(w.start - Interval)..HourOf(w.end)

\* The directories of the hours, or everything.
Scanned(w) ==
    IF Targeted(w) THEN {r \in stored : HourOf(r.start) \in Hours(w)} ELSE stored

Reach(w) == IF Targeted(w) THEN w.start - Interval ELSE 0
-----------------------------------------------------------------------------
Init == stored = {} /\ cache = {} /\ answer = NoAnswer

\* An upload is complete, or a recording is deleted: _invalidate_camera.
Change ==
    /\ \E r \in Footage : stored' \in {stored \cup {r}, stored \ {r}}
    /\ cache' = {} /\ answer' = NoAnswer

Found(w, entry) ==
    answer' = [window |-> w, records |-> {r \in entry.records : Overlaps(r, w)},
               reach |-> entry.reach]

\* list_records finds a fresh entry.
Hit(w) ==
    /\ \E entry \in cache : entry.key = Key(w) /\ Found(w, entry)
    /\ UNCHANGED <<stored, cache>>

\* It scans, and makes room for the result: other cameras' entries count too, and older
\* ones go first.
Scan(w) ==
    /\ \A entry \in cache : entry.key # Key(w)
    /\ LET entry == [key |-> Key(w), records |-> Scanned(w), reach |-> Reach(w)]
       IN  /\ Found(w, entry)
           /\ \E kept \in SUBSET cache :
                 Cardinality(kept) < Entries /\ cache' = kept \cup {entry}
    /\ UNCHANGED stored

\* An entry is thirty seconds old.
Expire ==
    /\ \E entry \in cache : cache' = cache \ {entry}
    /\ UNCHANGED <<stored, answer>>

Next == Change \/ Expire \/ \E w \in Window : Hit(w) \/ Scan(w)

Spec == Init /\ [][Next]_vars
-----------------------------------------------------------------------------
\* A listing has every recording that overlaps its window and began no more than the
\* interval before it, or before the window whose scan answers it from the cache: no
\* boundary of hours, of windows or of scans hides one.
ReachedIsListed ==
    \A r \in stored :
       Overlaps(r, answer.window) /\ r.start >= answer.reach /\ answer # NoAnswer
          => r \in answer.records
=============================================================================
