-------------------------- MODULE CameraSupervisor ---------------------------
(***************************************************************************)
(* The supervisor of one camera: the task _run, which launches FFmpeg,     *)
(* watches it and launches it again; stop(), which ends both and may be    *)
(* cancelled by the service's deadline; and abort(), which comes then.     *)
(*                                                                         *)
(* An action is what one task does between two awaits.  Timers are free:   *)
(* the watchdog's two clocks are flags that time may set at any moment.    *)
(***************************************************************************)
EXTENDS Naturals

CONSTANTS RestartMin, \* restart_min_seconds, at least 1, in tenths of a second
          RestartMax  \* restart_max_seconds, not less

VARIABLES
    run,      \* where the task _run waits
    unwinding,\* a CancelledError is on its way out of _run
    stopping, \* the event _stop is set
    caller,   \* where the service's stop() or abort() waits
    terminate,\* [Caller -> step of its call of _terminate]
    held,     \* _process is not None
    ffmpeg,   \* [state, own, terms, killed] the last FFmpeg launched
    owed,     \* it ran and on_stream_end was not called for it
    watch,    \* [fresh, silent, startup] what the watchdog compares
    late,     \* a segment of an earlier FFmpeg still waits to be ingested
    backoff

vars == <<run, unwinding, stopping, caller, terminate, held, ffmpeg, owed, watch, late, backoff>>
taskVars == <<run, unwinding, owed, backoff>>
processVars == <<held, ffmpeg>>
segmentVars == <<watch, late>>

Caller == {"run", "stop"}
Alive == ffmpeg.state \in {"good", "hung"}
-----------------------------------------------------------------------------
(* _terminate: q, five seconds, TERM, three seconds, KILL, under a lock.   *)

Holding == {"q", "TERM", "KILL"}

LockFree == \A c \in Caller : terminate[c] \notin Holding

Steps(c, s) == terminate' = [terminate EXCEPT ![c] = s]

\* Fault: there is no lock.
EnterUnlocked(c) == Steps(c, "q")

\* Entered with a live process.
EnterTerminate(c) == Steps(c, IF LockFree THEN "q" ELSE "lock")

TakeLock(c) ==
    /\ terminate[c] = "lock"
    /\ LockFree
    /\ Steps(c, "q")
    /\ UNCHANGED <<taskVars, stopping, caller, processVars, segmentVars>>

\* Five seconds, or the pipe is broken.
SendTerm(c) ==
    /\ terminate[c] = "q" /\ Alive
    /\ Steps(c, "TERM")
    /\ ffmpeg' = [ffmpeg EXCEPT !.terms = @ + 1]
    /\ UNCHANGED <<taskVars, stopping, caller, held, segmentVars>>

\* Fault: it waits for TERM to work.
TermIsEnough(c) == terminate[c] = "KILL" /\ UNCHANGED vars

SendKill(c) ==
    /\ terminate[c] = "TERM" /\ Alive
    /\ Steps(c, "KILL")
    /\ ffmpeg' = [ffmpeg EXCEPT !.killed = TRUE]
    /\ UNCHANGED <<taskVars, stopping, caller, held, segmentVars>>

\* The process has exited; a lock that is taken then is given back at once.
Terminated(c) ==
    /\ ~Alive
    /\ \/ terminate[c] \in Holding
       \/ terminate[c] = "lock" /\ LockFree
-----------------------------------------------------------------------------
(* FFmpeg and its segments.                                                *)

Created ==
    \E s \in {"good", "hung"} :
        ffmpeg' = [state |-> s, own |-> FALSE, terms |-> 0, killed |-> FALSE]

\* ingest_upload counts the segment and stamps its arrival.
Counted(clocks) == watch' = [clocks EXCEPT !.fresh = TRUE, !.silent = FALSE]

Deliver ==
    /\ ffmpeg.state = "good"
    /\ ffmpeg' = [ffmpeg EXCEPT !.own = TRUE]
    /\ Counted(watch)
    /\ UNCHANGED <<taskVars, stopping, caller, terminate, held, late>>

Hang ==
    /\ ffmpeg.state = "good" /\ ffmpeg.own
    /\ ffmpeg' = [ffmpeg EXCEPT !.state = "hung"]
    /\ UNCHANGED <<taskVars, stopping, caller, terminate, held, segmentVars>>

\* For whatever reason, except that a good one delivers first if it is let alone.
\* The upload after those it delivered may still be under way.
Exit ==
    /\ Alive
    /\ ffmpeg.state = "hung" \/ ffmpeg.own \/ ffmpeg.killed \/ ~LockFree
    /\ ffmpeg' = [ffmpeg EXCEPT !.state = "dead"]
    /\ late' \in {late, late \/ ffmpeg.own}
    /\ UNCHANGED <<taskVars, stopping, caller, terminate, held, watch>>

LateSegment ==
    /\ late
    /\ late' = FALSE
    /\ Counted(watch)
    /\ UNCHANGED <<taskVars, stopping, caller, terminate, processVars>>

\* A good FFmpeg delivers before startup_timeout_seconds are over and within
\* no_segment_timeout_seconds of its last segment; the age of a segment of an
\* earlier one may pass that limit before the first of its own.
Delivering == ffmpeg.state = "good" /\ ffmpeg.own

TimePasses ==
    /\ \/ Alive /\ ffmpeg.state = "hung" /\ watch' = [watch EXCEPT !.startup = TRUE]
       \/ watch.fresh /\ ~Delivering /\ watch' = [watch EXCEPT !.silent = TRUE]
    /\ watch' # watch
    /\ UNCHANGED <<taskVars, stopping, caller, terminate, processVars, late>>
-----------------------------------------------------------------------------
(* _run.                                                                   *)

Init ==
    /\ run = "off" /\ unwinding = FALSE
    /\ stopping = FALSE
    /\ caller = "idle"
    /\ terminate = [c \in Caller |-> "no"]
    /\ held = FALSE
    /\ ffmpeg = [state |-> "dead", own |-> FALSE, terms |-> 0, killed |-> FALSE]
    /\ owed = FALSE
    /\ watch = [fresh |-> FALSE, silent |-> FALSE, startup |-> FALSE]
    /\ late = FALSE
    /\ backoff = RestartMin

Runs(p) == run = p
Goes(p) == run' = p

\* Fault: segments_at_launch is taken once, before the loop.
CountedFromStart ==
    /\ Runs("top")
    /\ Goes(IF stopping THEN "off" ELSE "resolving")
    /\ UNCHANGED <<unwinding, owed, backoff, stopping, caller, terminate, processVars, segmentVars>>

\* The top of the loop takes segments_at_launch, before the camera is resolved.
NextCycle ==
    /\ Runs("top")
    /\ IF stopping THEN Goes("off") /\ UNCHANGED watch
       ELSE Goes("resolving") /\ watch' = [fresh |-> FALSE, silent |-> FALSE, startup |-> FALSE]
    /\ UNCHANGED <<unwinding, owed, backoff, stopping, caller, terminate, processVars, late>>

Smaller(a, b) == IF a < b THEN a ELSE b
Greater(a, b) == IF a > b THEN a ELSE b

\* After the finally clause.  "stable" also asks for the time the cycle took.
Pause ==
    IF unwinding \/ stopping
    THEN Goes("off") /\ unwinding' = FALSE /\ UNCHANGED backoff
    ELSE /\ Goes("pausing")
         /\ UNCHANGED unwinding
         /\ \E stable \in IF watch.fresh THEN BOOLEAN ELSE {FALSE} :
               LET b == IF stable THEN RestartMin ELSE backoff
                   delay == Smaller(RestartMax, b)
               IN  backoff' = Smaller(RestartMax, Greater(2 * b, delay + 1))

\* Fault: the tail is left for the next stream to seal.
TailIsLeft == held' = FALSE /\ Pause /\ UNCHANGED owed

\* The finally clause once the process is gone: on_stream_end seals what it sent.
Seal ==
    /\ held' = FALSE
    /\ Goes("sealing")
    /\ owed' = FALSE
    /\ UNCHANGED backoff

NothingRan == Pause /\ UNCHANGED <<held, owed>>

ResolveFails ==
    /\ Runs("resolving")
    /\ NothingRan
    /\ UNCHANGED <<stopping, caller, terminate, ffmpeg, segmentVars>>

Resolved ==
    /\ Runs("resolving")
    /\ IF stopping THEN NothingRan
       ELSE Goes("creating") /\ UNCHANGED <<unwinding, owed, backoff, held>>
    /\ UNCHANGED <<stopping, caller, terminate, ffmpeg, segmentVars>>

\* Its clock of startup_timeout_seconds starts here.
Launch ==
    /\ Runs("creating")
    /\ Created
    /\ held' = TRUE /\ owed' = TRUE
    /\ watch' = [watch EXCEPT !.startup = FALSE]
    /\ IF stopping THEN Goes("stopping") /\ EnterTerminate("run")
       ELSE Goes("watching") /\ UNCHANGED terminate
    /\ UNCHANGED <<unwinding, backoff, stopping, caller, late>>

LaunchFails ==
    /\ Runs("creating")
    /\ NothingRan
    /\ UNCHANGED <<stopping, caller, terminate, ffmpeg, segmentVars>>

\* Every health_check_seconds.
Expired == IF watch.fresh THEN watch.silent ELSE watch.startup

HealthCheck ==
    /\ Runs("watching")
    /\ Alive
    /\ stopping \/ Expired
    /\ Goes("stopping")
    /\ EnterTerminate("run")
    /\ UNCHANGED <<unwinding, owed, backoff, stopping, caller, processVars, segmentVars>>

\* process.wait() returns; the readers of its pipes end with it.
ProcessEnds ==
    /\ \/ Runs("watching") /\ ~Alive /\ UNCHANGED terminate
       \/ run \in {"stopping", "cleaning"} /\ Terminated("run") /\ Steps("run", "no")
    /\ Seal
    /\ UNCHANGED <<unwinding, stopping, caller, ffmpeg, segmentVars>>

\* on_stream_end returned or failed.
SealEnds ==
    /\ Runs("sealing")
    /\ Pause
    /\ UNCHANGED <<owed, stopping, caller, terminate, processVars, segmentVars>>

PauseEnds ==
    /\ Runs("pausing")
    /\ Goes("top")
    /\ UNCHANGED <<unwinding, owed, backoff, stopping, caller, terminate, processVars, segmentVars>>
-----------------------------------------------------------------------------
(* start(), stop() and abort(), as the service calls them: "joined" is     *)
(* _task = None, "cancelled" the time between the deadline and abort().    *)

Start ==
    /\ Runs("off") /\ caller = "idle"
    /\ stopping' = FALSE
    /\ Goes("top")
    /\ backoff' = RestartMin
    /\ UNCHANGED <<unwinding, owed, caller, terminate, processVars, segmentVars>>

Stop ==
    /\ ~Runs("off") /\ caller = "idle"
    /\ stopping' = TRUE
    /\ IF held /\ Alive THEN caller' = "terminating" /\ EnterTerminate("stop")
       ELSE caller' = "joining" /\ UNCHANGED terminate
    /\ UNCHANGED <<taskVars, processVars, segmentVars>>

StopTerminated ==
    /\ caller = "terminating"
    /\ Terminated("stop")
    /\ Steps("stop", "no")
    /\ caller' = "joining"
    /\ UNCHANGED <<taskVars, stopping, processVars, segmentVars>>

Joined ==
    /\ caller \in {"joining", "aborting"}
    /\ Runs("off")
    /\ caller' = "idle"
    /\ UNCHANGED <<taskVars, stopping, terminate, processVars, segmentVars>>

\* The deadline.  The task is shielded, the call of _terminate is not.
CancelStop ==
    /\ caller \in {"terminating", "joining"}
    /\ caller' = "cancelled"
    /\ Steps("stop", "no")
    /\ UNCHANGED <<taskVars, stopping, processVars, segmentVars>>

\* Fault: the finally clause leaves the process to abort().
CancelledAndForgotten == Seal /\ UNCHANGED terminate

\* A CancelledError in the try block: the finally clause may find a process that
\* is not reaped yet.
CancelledWhileWatching ==
    IF Alive THEN Goes("cleaning") /\ Steps("run", "q") /\ UNCHANGED <<owed, backoff, held>>
    ELSE Seal /\ Steps("run", "no")

\* asyncio kills and reaps a child whose creation is cancelled.
Abort ==
    /\ caller = "cancelled"
    /\ caller' = "aborting"
    /\ ffmpeg' = IF held /\ Alive THEN [ffmpeg EXCEPT !.killed = TRUE] ELSE ffmpeg
    /\ IF run \in {"watching", "stopping"}
       THEN CancelledWhileWatching /\ unwinding' = TRUE
       ELSE Goes("off") /\ unwinding' = FALSE /\ UNCHANGED <<terminate, owed, backoff, held>>
    /\ UNCHANGED <<stopping, segmentVars>>
-----------------------------------------------------------------------------
Task == \/ NextCycle \/ ResolveFails \/ Resolved \/ Launch \/ LaunchFails
        \/ HealthCheck \/ ProcessEnds \/ SealEnds \/ PauseEnds

Terminating(c) == TakeLock(c) \/ SendTerm(c) \/ SendKill(c)

Next ==
    \/ Task
    \/ \E c \in Caller : Terminating(c)
    \/ Start \/ Stop \/ StopTerminated \/ Joined \/ CancelStop \/ Abort
    \/ Deliver \/ Hang \/ Exit \/ LateSegment \/ TimePasses

\* The event loop runs what is ready and its timers fire; KILL kills; the
\* archive's part of stop() and of on_stream_end returns.
LoopFairness ==
    /\ WF_vars(Task) /\ WF_vars(TimePasses) /\ WF_vars(HealthCheck)
    /\ \A c \in Caller : WF_vars(Terminating(c))
    /\ WF_vars(StopTerminated) /\ WF_vars(Joined) /\ WF_vars(Abort)
    /\ WF_vars(ffmpeg.killed /\ Exit)

\* The camera can be reached, and FFmpeg works, now and then.
CameraWorks ==
    /\ SF_vars(Resolved)
    /\ SF_vars(Launch /\ ffmpeg'.state = "good")
    /\ WF_vars(Deliver)

Spec == Init /\ [][Next]_vars /\ LoopFairness /\ CameraWorks
-----------------------------------------------------------------------------
(* Properties.                                                             *)

\* Types of the variables.
TypeOK ==
    /\ run \in {"off", "top", "resolving", "creating", "watching", "stopping", "cleaning",
                "sealing", "pausing"}
    /\ unwinding \in BOOLEAN /\ stopping \in BOOLEAN /\ held \in BOOLEAN
    /\ owed \in BOOLEAN /\ late \in BOOLEAN
    /\ caller \in {"idle", "terminating", "joining", "cancelled", "aborting"}
    /\ terminate \in [Caller -> Holding \cup {"no", "lock"}]
    /\ ffmpeg \in [state : {"good", "hung", "dead"}, own : BOOLEAN, terms : 0..3,
                   killed : BOOLEAN]
    /\ watch \in [fresh : BOOLEAN, silent : BOOLEAN, startup : BOOLEAN]
    /\ backoff \in RestartMin..RestartMax

\* A live FFmpeg has its task, which waits for it or is ending it, and stop() and
\* abort() can reach it: none is left over when they have returned, however they
\* met the launch, the watchdog, the deadline or each other.
NoneLeftOver == Alive => held /\ run \in {"watching", "stopping", "cleaning"}

\* Every FFmpeg that ran has its tail sealed, once it is dead and before another
\* is launched: an archive batch never mixes two of them (service.py:500-503).
SealedBetweenLaunches ==
    /\ Runs("sealing") => ~Alive
    /\ run \in {"top", "resolving", "creating", "pausing"} => ~owed

\* Until the deadline one FFmpeg gets one TERM, though the watchdog and stop() both
\* terminate it: a second would cut off its last upload (supervisor.py:286-287).
OneTerm == Alive /\ caller \in {"idle", "terminating", "joining"} => ffmpeg.terms <= 1

\* stop(), or the abort() after it, ends, also when FFmpeg ignores q and TERM.
StopEnds == (caller # "idle") ~> (caller = "idle")

\* A camera that works is recorded again, whatever its FFmpeg did before and
\* whichever late segment misled the watchdog: none hangs for ever.
CameraComesBack == []<>(stopping \/ Runs("off") \/ Delivering)
=============================================================================
