------------------------------ MODULE LiveBuffer ------------------------------
(***************************************************************************)
(* The live buffer of one camera: the last segments in memory, and the     *)
(* HLS playlist made of them.  FFmpeg uploads segment n and then a         *)
(* playlist that announces its duration; requests overtake each other, are *)
(* lost, and are sent again.  FFmpeg restarts make a new stream.           *)
(***************************************************************************)
EXTENDS Naturals, Sequences, SequencesExt, FiniteSets, FiniteSetsExt

CONSTANTS
    Stream,       \* Seq: the FFmpeg run, from 1 on, that makes segment n
    Size,         \* Seq: its bytes
    Window,       \* window_segments
    MaxBytes,     \* max_bytes
    RecentNames,  \* maxlen of _recent_names
    HintLimit,    \* window_segments * 4
    Lag           \* bound: FFmpeg is this many segments ahead of a request

Name == DOMAIN Stream

VARIABLES
    segments,      \* Seq: _segments
    hints,         \* Seq of names: _duration_hints, in the order of the dictionary
    nextSequence,
    recent,        \* Seq: _recent_names
    stream,        \* _current_stream_id, 0 for none
    discontinuities,
    made,          \* segments FFmpeg has made
    requests,      \* uploads under way
    announced      \* history: names a playlist announced

bufferVars == <<segments, hints, nextSequence, recent, stream, discontinuities>>
vars == <<bufferVars, made, requests, announced>>
-----------------------------------------------------------------------------
Init ==
    /\ segments = <<>> /\ hints = <<>> /\ recent = <<>>
    /\ nextSequence = 0 /\ stream = 0 /\ discontinuities = 0
    /\ made = 0 /\ requests = {} /\ announced = {}

InBuffer(n) == \E i \in DOMAIN segments : segments[i].name = n

Newest(s, k) == SubSeq(s, Max({Len(s) - k, 0}) + 1, Len(s))

Bytes(s) == FoldSeq(LAMBDA x, sum : sum + Size[x.name], 0, s)

\* _evict: from the oldest while there is one, so that a segment larger than max_bytes
\* goes as well.
Evict(s) ==
    LET fits == {k \in 0..Len(s) : k = 0 \/ (k <= Window /\ Bytes(Newest(s, k)) <= MaxBytes)}
    IN  Newest(s, Max(fits))

\* _remember_name.
Remember(n) == recent' = Newest(Append(recent, n), RecentNames)

Duplicate(n) == InBuffer(n) \/ n \in ToSet(recent)

\* A segment of another stream than the last one comes after a discontinuity.
Follow(n) ==
    /\ stream' = Stream[n]
    /\ discontinuities' =
          IF stream \notin {0, Stream[n]} THEN discontinuities + 1 ELSE discontinuities

Store(n) ==
    /\ segments' = Evict(Append(segments,
          [name |-> n, sequence |-> nextSequence, discontinuity |-> discontinuities',
           duration |-> IF n \in ToSet(hints) THEN "own" ELSE "default"]))
    /\ hints' = RemoveFirst(hints, n)
    /\ nextSequence' = nextSequence + 1
    /\ Remember(n)

\* Fault: the change of stream is counted before the duplicate is recognised.
CountThenAdd(n) ==
    /\ Follow(n)
    /\ IF Duplicate(n) THEN UNCHANGED <<segments, hints, nextSequence, recent>> ELSE Store(n)

AddSegment(n) == IF Duplicate(n) THEN UNCHANGED bufferVars ELSE Follow(n) /\ Store(n)

\* The names of FFmpeg's playlist after segment n.
Listed(n) == {m \in 1..n : m + Window > n /\ Stream[m] = Stream[n]}

\* Fault: the newest hint is dropped.
HintNewestGoes(known, n) ==
    IF n \in ToSet(known) \/ InBuffer(n) \/ Len(known) = HintLimit THEN known ELSE Append(known, n)

\* A hint for a name that has one keeps its place.
Hint(known, n) ==
    IF n \in ToSet(known) \/ InBuffer(n) THEN known ELSE Newest(Append(known, n), HintLimit)

\* The hints after the playlist's names up to m, taken in its order.
Hinted(n) ==
    LET known[m \in 0..n] ==
            IF m = 0 THEN hints
            ELSE IF m \in Listed(n) THEN Hint(known[m - 1], m) ELSE known[m - 1]
    IN  known

ApplyPlaylist(n) ==
    /\ segments' = [i \in DOMAIN segments |->
                       IF segments[i].name \in Listed(n)
                       THEN [segments[i] EXCEPT !.duration = "own"] ELSE segments[i]]
    /\ hints' = Hinted(n)[n]
    /\ UNCHANGED <<nextSequence, recent, stream, discontinuities>>
-----------------------------------------------------------------------------
\* FFmpeg makes the next segment, uploads it and then its playlist.
Make ==
    /\ made + 1 \in Name
    /\ \A r \in requests : r[2] + Lag > made + 1
    /\ made' = made + 1
    /\ requests' = requests \cup {<<"segment", made'>>, <<"playlist", made'>>}
    /\ UNCHANGED <<bufferVars, announced>>

\* FFmpeg may miss the answer and send the segment again.
ReceiveSegment(n) ==
    /\ <<"segment", n>> \in requests
    /\ requests' \in {requests, requests \ {<<"segment", n>>}}
    /\ AddSegment(n)
    /\ UNCHANGED <<made, announced>>

ReceivePlaylist(n) ==
    /\ <<"playlist", n>> \in requests
    /\ requests' = requests \ {<<"playlist", n>>}
    /\ ApplyPlaylist(n)
    /\ announced' = announced \cup Listed(n)
    /\ UNCHANGED made

Lost ==
    /\ \E r \in requests : requests' = requests \ {r}
    /\ UNCHANGED <<bufferVars, made, announced>>

Next ==
    \/ Make \/ Lost
    \/ \E n \in Name : ReceiveSegment(n) \/ ReceivePlaylist(n)

Spec == Init /\ [][Next]_vars
-----------------------------------------------------------------------------
(* render_playlist and the properties.                                     *)

\* What a player reads of the rendered playlist: EXT-X-MEDIA-SEQUENCE,
\* EXT-X-DISCONTINUITY-SEQUENCE and the segments after an EXT-X-DISCONTINUITY.
Rendered ==
    [mediaSequence |-> segments[1].sequence,
     discontinuitySequence |-> segments[1].discontinuity,
     tagged |-> {i \in 2..Len(segments) :
                    segments[i].discontinuity > segments[i - 1].discontinuity}]

\* A player counts: from the header on, one for every segment and one for every tag.
\* It counts to each segment's own numbers in every playlist, so that no segment
\* changes its number between two of them, whatever was evicted, sent twice or came
\* after the next stream had begun.
PlaylistNumbersSegments ==
    \A i \in DOMAIN segments :
       /\ Rendered.mediaSequence + i - 1 = segments[i].sequence
       /\ Rendered.discontinuitySequence + Cardinality({t \in Rendered.tagged : t <= i})
             = segments[i].discontinuity

\* A segment has the duration FFmpeg announced for it, whether the playlist or the
\* segment came first and however many names the hints still held.
DurationIsAnnounced ==
    \A i \in DOMAIN segments :
       segments[i].name \in announced => segments[i].duration = "own"
=============================================================================
