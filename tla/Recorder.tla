------------------------------- MODULE Recorder -------------------------------
(***************************************************************************)
(* What runs while the program records: the service, the supervisor of one *)
(* camera, one live buffer, the log file and the configuration store.      *)
(* They share no state, so that a behaviour is one of the component that   *)
(* is its subject, while the other four stay in their initial states.      *)
(* None of the actions that Service and CameraSupervisor are fair to is    *)
(* enabled there: the fairness of one asks nothing of the behaviours of    *)
(* the others.                                                             *)
(***************************************************************************)
EXTENDS Service

CONSTANTS
    RestartMin, RestartMax,
    Stream, Size, Window, BufferBytes, RecentNames, HintLimit, Lag,
    BatchRecords, MaxBytes, BackupCount, MaxLines,
    Client, Content, Valid

VARIABLES
    subject,
    run, unwinding, stopping, caller, terminate, held, ffmpeg, owed, watch, late, backoff,
    segments, hints, nextSequence, recent, stream, discontinuities, made, requests, announced,
    logged, pending, files, left,
    file, backup, opened, saving, edited

supervisorVars ==
    <<run, unwinding, stopping, caller, terminate, held, ffmpeg, owed, watch, late, backoff>>
liveVars ==
    <<segments, hints, nextSequence, recent, stream, discontinuities, made, requests, announced>>
logVars == <<logged, pending, files, left>>
storeVars == <<file, backup, opened, saving, edited>>

\* The limits outlast the lag of a request: while a segment may still be sent, at most
\* 2 * Lag + Window - 3 other names can be hinted after its own and 2 * Lag - 2 other
\* segments stored after it.  The code keeps the hints of four windows and the names of
\* eight, 64 at least (buffer.py 39, 121), which covers a lag of one and a half windows.
ASSUME BufferAssumption ==
    /\ Stream \in Seq(Nat)
    /\ HintLimit \in Nat /\ RecentNames \in Nat
    /\ Window \in Nat \ {0} /\ Lag \in Nat \ {0}
    /\ 2 * Lag + Window <= HintLimit + 2
    /\ 2 * Lag <= RecentNames + 1

Supervisor == INSTANCE CameraSupervisor
Buffer == INSTANCE LiveBuffer WITH MaxBytes <- BufferBytes
Log == INSTANCE LogFile
Store == INSTANCE ConfigStore

RecorderInit ==
    /\ subject \in {"service", "supervisor", "buffer", "log", "store"}
    /\ Init /\ Supervisor!Init /\ Buffer!Init /\ Log!Init
    /\ Store!Init /\ (subject # "store" => file = CHOOSE c \in Valid : TRUE)

RecorderNext ==
    \/ /\ subject = "service" /\ Next
       /\ UNCHANGED <<subject, supervisorVars, liveVars, logVars, storeVars>>
    \/ /\ subject = "supervisor" /\ Supervisor!Next
       /\ UNCHANGED <<subject, vars, liveVars, logVars, storeVars>>
    \/ /\ subject = "buffer" /\ Buffer!Next
       /\ UNCHANGED <<subject, vars, supervisorVars, logVars, storeVars>>
    \/ /\ subject = "log" /\ Log!Next
       /\ UNCHANGED <<subject, vars, supervisorVars, liveVars, storeVars>>
    \/ /\ subject = "store" /\ Store!Next
       /\ UNCHANGED <<subject, vars, supervisorVars, liveVars, logVars>>

RecorderSpec ==
    /\ RecorderInit
    /\ [][RecorderNext]_<<subject, vars, supervisorVars, liveVars, logVars, storeVars>>
    /\ LoopFairness /\ CloudWorks
    /\ Supervisor!LoopFairness /\ Supervisor!CameraWorks
-----------------------------------------------------------------------------
(* The properties of the instances under the names of their modules.       *)

\* No FFmpeg is left over when stop() and abort() of its supervisor have returned.
NoneLeftOver == Supervisor!NoneLeftOver

\* The tail of an FFmpeg that died is sealed before another one is launched.
SealedBetweenLaunches == Supervisor!SealedBetweenLaunches

\* Until the deadline one FFmpeg gets one TERM.
OneTerm == Supervisor!OneTerm

\* stop() of a supervisor, or the abort() after it, ends.
StopEnds == Supervisor!StopEnds

\* A camera that works is recorded again.
CameraComesBack == Supervisor!CameraComesBack

\* A player that counts from the live playlist's header finds the segments' own numbers.
PlaylistNumbersSegments == Buffer!PlaylistNumbersSegments

\* A segment in the live buffer has the duration that a playlist announced for it.
DurationIsAnnounced == Buffer!DurationIsAnnounced

\* The log forgets from its oldest end only.
NoLineMissing == Log!NoLineMissing

\* A save of the configuration replaces the content its client had opened.
NoLostUpdate == Store!NoLostUpdate
=============================================================================
