------------------------ MODULE CameraSupervisorProofs -------------------------
(***************************************************************************)
(* What CameraSupervisor promises for every setting of the restart times,  *)
(* whether its loop is fair or not.                                        *)
(***************************************************************************)
EXTENDS CameraSupervisor, TLAPS

Sent == {"TERM", "KILL"}

(***************************************************************************)
(* The inductive invariant.                                                *)
(***************************************************************************)

\* The lock: two calls of _terminate never both talk to the process.
OneHolder == \A c, d \in Caller :
    terminate[c] \in Holding /\ terminate[d] \in Holding => c = d

\* Where a call of _terminate can come from.
CallInv ==
    /\ terminate["run"] # "no" <=> run \in {"stopping", "cleaning"}
    /\ terminate["stop"] # "no" => caller = "terminating"
    /\ run = "cleaning" => caller = "aborting"

\* The tail of an FFmpeg is owed no longer than its task waits for it.
OwedInv ==
    /\ owed => run \in {"watching", "stopping", "cleaning"}
    /\ run = "sealing" => ~Alive

\* What cancelled calls of _terminate may have sent, stop()'s and then the task's.
Cancelled == IF caller = "cancelled" THEN 1 ELSE IF caller = "aborting" THEN 2 ELSE 0

\* The TERM of the call that is under way.
Current == IF \E c \in Caller : terminate[c] \in Sent THEN 1 ELSE 0

TermInv == Alive => ffmpeg.terms <= Cancelled + Current

\* TypeOK but for backoff, which alone depends on the constants.
Typed ==
    /\ run \in {"off", "top", "resolving", "creating", "watching", "stopping", "cleaning",
                "sealing", "pausing"}
    /\ unwinding \in BOOLEAN /\ stopping \in BOOLEAN /\ held \in BOOLEAN
    /\ owed \in BOOLEAN /\ late \in BOOLEAN
    /\ caller \in {"idle", "terminating", "joining", "cancelled", "aborting"}
    /\ terminate \in [Caller -> Holding \cup {"no", "lock"}]
    /\ ffmpeg \in [state : {"good", "hung", "dead"}, own : BOOLEAN, terms : 0..3,
                   killed : BOOLEAN]
    /\ watch \in [fresh : BOOLEAN, silent : BOOLEAN, startup : BOOLEAN]

IInv == Typed /\ OneHolder /\ CallInv /\ NoneLeftOver /\ OwedInv /\ TermInv
-----------------------------------------------------------------------------
USE DEF vars, taskVars, processVars, segmentVars

\* The actions by what they have to do with the process and with _terminate.
Quiet == NextCycle \/ ResolveFails \/ Resolved \/ LaunchFails \/ SealEnds \/ PauseEnds
         \/ Start \/ Joined \/ LateSegment \/ TimePasses

LEMMA StepCases ==
    ASSUME [Next]_vars
    PROVE  \/ Quiet \/ UNCHANGED vars
           \/ Launch \/ HealthCheck \/ ProcessEnds
           \/ \E c \in Caller : TakeLock(c) \/ SendTerm(c) \/ SendKill(c)
           \/ Stop \/ StopTerminated \/ CancelStop \/ Abort
           \/ Deliver \/ Hang \/ Exit
BY DEF Next, Task, Terminating, Quiet

\* A quiet action leaves the process and the calls of _terminate alone, and the task
\* is not at a place where it waits for the process, neither before nor after.
LEMMA QuietStep ==
    ASSUME Quiet
    PROVE  /\ UNCHANGED <<terminate, processVars>>
           /\ owed' = owed
           /\ \/ run' = run
              \/ /\ run \notin {"watching", "stopping", "cleaning"}
                 /\ run' \notin {"watching", "stopping", "cleaning", "sealing"}
           /\ caller' = caller \/ (run = "off" /\ caller \in {"joining", "aborting"}
                                     /\ caller' = "idle" /\ run' = run)
BY DEF Quiet, NextCycle, ResolveFails, Resolved, LaunchFails, SealEnds, PauseEnds, Start, Joined,
       LateSegment, TimePasses, NothingRan, Pause, Runs, Goes

LEMMA OneHolderStep ==
    ASSUME IInv, [Next]_vars
    PROVE  OneHolder'
<1> USE DEF IInv, Typed, OneHolder, Caller, Holding, Steps, LockFree
<1>1. CASE Quiet
  BY <1>1, QuietStep
<1>2. CASE UNCHANGED vars
  BY <1>2
<1>3. CASE Launch
  BY <1>3 DEF Launch, EnterTerminate
<1>4. CASE HealthCheck
  BY <1>4 DEF HealthCheck, EnterTerminate
<1>5. CASE ProcessEnds
  BY <1>5 DEF ProcessEnds, Seal
<1>6. ASSUME NEW c \in Caller, TakeLock(c) \/ SendTerm(c) \/ SendKill(c)
      PROVE  OneHolder'
  BY <1>6 DEF TakeLock, SendTerm, SendKill
<1>7. CASE Stop
  BY <1>7 DEF Stop, EnterTerminate
<1>8. CASE StopTerminated \/ CancelStop
  BY <1>8 DEF StopTerminated, CancelStop
<1>9. CASE Abort
  BY <1>9 DEF Abort, CancelledWhileWatching, CallInv
<1>10. CASE Deliver \/ Hang \/ Exit
  BY <1>10 DEF Deliver, Hang, Exit
<1> QED
  BY StepCases, <1>1, <1>2, <1>3, <1>4, <1>5, <1>6, <1>7, <1>8, <1>9, <1>10

LEMMA CallStep ==
    ASSUME IInv, [Next]_vars
    PROVE  CallInv'
<1> USE DEF IInv, Typed, CallInv, Caller, Holding, Steps, Runs, Goes
<1>1. CASE Quiet
  BY <1>1, QuietStep
<1>2. CASE UNCHANGED vars
  BY <1>2
<1>3. CASE Launch
  BY <1>3 DEF Launch, EnterTerminate
<1>4. CASE HealthCheck
  BY <1>4 DEF HealthCheck, EnterTerminate
<1>5. CASE ProcessEnds
  BY <1>5 DEF ProcessEnds, Seal
<1>6. ASSUME NEW c \in Caller, TakeLock(c) \/ SendTerm(c) \/ SendKill(c)
      PROVE  CallInv'
  BY <1>6 DEF TakeLock, SendTerm, SendKill
<1>7. CASE Stop
  BY <1>7 DEF Stop, EnterTerminate
<1>8. CASE StopTerminated \/ CancelStop
  BY <1>8 DEF StopTerminated, CancelStop
<1>9. CASE Abort
  BY <1>9 DEF Abort, CancelledWhileWatching, Seal
<1>10. CASE Deliver \/ Hang \/ Exit
  BY <1>10 DEF Deliver, Hang, Exit
<1> QED
  BY StepCases, <1>1, <1>2, <1>3, <1>4, <1>5, <1>6, <1>7, <1>8, <1>9, <1>10

\* A process stays dead but for a launch, and keeps its TERMs but for a new one.
LEMMA ProcessStep ==
    ASSUME IInv, [Next]_vars
    PROVE  \/ Launch
           \/ /\ Alive' => Alive
              /\ \/ ffmpeg'.terms = ffmpeg.terms
                 \/ \E c \in Caller : SendTerm(c) /\ ffmpeg'.terms = ffmpeg.terms + 1
<1> USE DEF IInv, Typed, Alive
<1>1. CASE Quiet
  BY <1>1, QuietStep
<1>2. CASE UNCHANGED vars
  BY <1>2
<1>4. CASE HealthCheck
  BY <1>4 DEF HealthCheck
<1>5. CASE ProcessEnds
  BY <1>5 DEF ProcessEnds
<1>6. ASSUME NEW c \in Caller, TakeLock(c) \/ SendTerm(c) \/ SendKill(c)
      PROVE  /\ Alive' => Alive
             /\ \/ ffmpeg'.terms = ffmpeg.terms
                \/ SendTerm(c) /\ ffmpeg'.terms = ffmpeg.terms + 1
  BY <1>6 DEF TakeLock, SendTerm, SendKill
<1>7. CASE Stop \/ StopTerminated \/ CancelStop
  BY <1>7 DEF Stop, StopTerminated, CancelStop
<1>9. CASE Abort
  BY <1>9 DEF Abort
<1>10. CASE Deliver \/ Hang \/ Exit
  BY <1>10 DEF Deliver, Hang, Exit
<1> QED
  BY StepCases, <1>1, <1>2, <1>4, <1>5, <1>6, <1>7, <1>9, <1>10

LEMMA NoneLeftOverStep ==
    ASSUME IInv, [Next]_vars
    PROVE  NoneLeftOver'
<1> USE DEF IInv, NoneLeftOver, Runs, Goes
<1>1. CASE Quiet
  BY <1>1, QuietStep DEF Alive
<1>2. CASE UNCHANGED vars
  BY <1>2 DEF Alive
<1>3. CASE Launch
  BY <1>3 DEF Launch
<1>4. CASE HealthCheck
  BY <1>4 DEF HealthCheck, Alive
<1>5. CASE ProcessEnds
  BY <1>5 DEF ProcessEnds, Terminated, Alive
<1>6. ASSUME NEW c \in Caller, TakeLock(c) \/ SendTerm(c) \/ SendKill(c)
      PROVE  NoneLeftOver'
  BY <1>6, ProcessStep DEF TakeLock, SendTerm, SendKill, Launch, Alive
<1>7. CASE Stop \/ StopTerminated \/ CancelStop
  BY <1>7 DEF Stop, StopTerminated, CancelStop, Alive
<1>9. CASE Abort
  BY <1>9, ProcessStep DEF Abort, CancelledWhileWatching, Seal, CallInv, Launch
<1>10. CASE Deliver \/ Hang \/ Exit
  BY <1>10, ProcessStep DEF Deliver, Hang, Exit, Launch
<1> QED
  BY StepCases, <1>1, <1>2, <1>3, <1>4, <1>5, <1>6, <1>7, <1>9, <1>10

LEMMA OwedStep ==
    ASSUME IInv, [Next]_vars
    PROVE  OwedInv'
<1> USE DEF IInv, OwedInv, Runs, Goes
<1>1. CASE Quiet
  BY <1>1, QuietStep DEF Alive
<1>2. CASE UNCHANGED vars
  BY <1>2 DEF Alive
<1>3. CASE Launch
  BY <1>3 DEF Launch
<1>4. CASE HealthCheck
  BY <1>4 DEF HealthCheck
<1>5. CASE ProcessEnds
  BY <1>5 DEF ProcessEnds, Seal, Terminated, Alive
<1>6. ASSUME NEW c \in Caller, TakeLock(c) \/ SendTerm(c) \/ SendKill(c)
      PROVE  OwedInv'
  <2>1. run' = run /\ owed' = owed
    BY <1>6 DEF TakeLock, SendTerm, SendKill
  <2>2. ~Launch
    BY <2>1 DEF Launch
  <2> QED
    BY <2>1, <2>2, ProcessStep
<1>7. CASE Stop \/ StopTerminated \/ CancelStop
  BY <1>7 DEF Stop, StopTerminated, CancelStop, Alive
<1>9. CASE Abort
  BY <1>9, ProcessStep DEF Abort, CancelledWhileWatching, Seal, CallInv, Launch
<1>10. CASE Deliver \/ Hang \/ Exit
  <2>1. run' = run /\ owed' = owed
    BY <1>10 DEF Deliver, Hang, Exit
  <2>2. ~Launch
    BY <2>1 DEF Launch
  <2> QED
    BY <2>1, <2>2, ProcessStep
<1> QED
  BY StepCases, <1>1, <1>2, <1>3, <1>4, <1>5, <1>6, <1>7, <1>9, <1>10

LEMMA TermStep ==
    ASSUME IInv, [Next]_vars
    PROVE  TermInv'
<1> USE DEF IInv, TermInv
<1>0. /\ Cancelled \in {0, 1, 2} /\ Cancelled' \in {0, 1, 2}
      /\ Current \in {0, 1} /\ Current' \in {0, 1}
      /\ ffmpeg.terms \in 0..3
  BY DEF Cancelled, Current, Typed
<1>1. CASE Quiet
  <2>1. terminate' = terminate /\ ffmpeg' = ffmpeg
    BY <1>1, QuietStep
  <2>2. caller' = caller \/ run = "off"
    BY <1>1, QuietStep
  <2>3. CASE run = "off"
    BY <2>1, <2>3 DEF NoneLeftOver, Alive
  <2>4. CASE caller' = caller
    BY <2>1, <2>4 DEF Alive, Cancelled, Current
  <2> QED
    BY <2>2, <2>3, <2>4
<1>2. CASE UNCHANGED vars
  BY <1>2 DEF Alive, Cancelled, Current
<1>3. CASE Launch
  <2>1. ffmpeg'.terms = 0
    BY <1>3 DEF Launch, Created
  <2>2. Cancelled' \in Nat /\ Current' \in Nat
    BY DEF Cancelled, Current
  <2>3. \A n, m \in Nat : 0 <= n + m
    OBVIOUS
  <2>4. ffmpeg'.terms <= Cancelled' + Current'
    BY <2>1, <2>2, <2>3
  <2> QED
    BY <2>4
<1>4. CASE HealthCheck
  <2>1. ffmpeg' = ffmpeg /\ caller' = caller
    BY <1>4 DEF HealthCheck
  <2>2. Current' = Current
    BY <1>4 DEF HealthCheck, EnterTerminate, Steps, Current, Sent, Typed, Caller, Holding, Runs,
                CallInv
  <2> QED
    BY <2>1, <2>2 DEF Alive, Cancelled
<1>5. CASE ProcessEnds
  BY <1>5 DEF ProcessEnds, Terminated, NoneLeftOver, Runs, Alive
<1>6. ASSUME NEW c \in Caller, TakeLock(c)
      PROVE  TermInv'
  <2>1. ffmpeg' = ffmpeg /\ caller' = caller
    BY <1>6 DEF TakeLock
  <2>2. Current' = Current
    BY <1>6 DEF TakeLock, Steps, Current, Sent, Typed, Caller, Holding, LockFree
  <2> QED
    BY <2>1, <2>2 DEF Alive, Cancelled
<1>7. ASSUME NEW c \in Caller, SendTerm(c)
      PROVE  TermInv'
  <2>1. caller' = caller /\ ffmpeg'.terms = ffmpeg.terms + 1 /\ Alive
    BY <1>7 DEF SendTerm, Typed
  <2>2. Current = 0
    BY <1>7 DEF SendTerm, Current, Sent, Caller, Holding, OneHolder
  <2>3. Current' = 1
    BY <1>7 DEF SendTerm, Steps, Current, Sent, Typed
  <2> QED
    BY <2>1, <2>2, <2>3, <1>0 DEF Cancelled
<1>8. ASSUME NEW c \in Caller, SendKill(c)
      PROVE  TermInv'
  <2>1. caller' = caller /\ ffmpeg'.terms = ffmpeg.terms /\ Alive
    BY <1>8 DEF SendKill, Typed
  <2>2. Current' = 1
    BY <1>8 DEF SendKill, Steps, Current, Sent, Typed
  <2> QED
    BY <2>1, <2>2, <1>0 DEF Cancelled
<1>9. CASE Stop
  <2>1. ffmpeg' = ffmpeg /\ Cancelled = 0 /\ Cancelled' = 0
    BY <1>9 DEF Stop, Cancelled
  <2>2. terminate["stop"] = "no"
    BY <1>9 DEF Stop, CallInv
  <2>3. Current' = Current
    BY <1>9, <2>2 DEF Stop, EnterTerminate, Steps, Current, Sent, Typed, Caller, Holding
  <2> QED
    BY <2>1, <2>3 DEF Alive
<1>10. CASE StopTerminated
  BY <1>10 DEF StopTerminated, Terminated, Alive
<1>11. CASE CancelStop
  <2>1. ffmpeg' = ffmpeg /\ Cancelled = 0 /\ Cancelled' = 1
    BY <1>11 DEF CancelStop, Cancelled
  <2> QED
    BY <2>1, <1>0 DEF Alive
<1>12. CASE Abort
  <2>1. Cancelled = 1 /\ Cancelled' = 2
    BY <1>12 DEF Abort, Cancelled
  <2>2. ffmpeg'.terms = ffmpeg.terms /\ (Alive' => Alive)
    <3>1. ~Launch
      BY <1>12 DEF Abort, Launch
    <3>2. ~\E c \in Caller : SendTerm(c)
      BY <1>12 DEF Abort, SendTerm
    <3> QED
      BY <3>1, <3>2, ProcessStep
  <2> QED
    BY <2>1, <2>2, <1>0
<1>13. CASE Deliver \/ Hang \/ Exit
  <2>1. terminate' = terminate /\ caller' = caller
    BY <1>13 DEF Deliver, Hang, Exit
  <2>2. ffmpeg'.terms = ffmpeg.terms /\ (Alive' => Alive)
    BY <1>13 DEF Deliver, Hang, Exit, Alive, Typed
  <2> QED
    BY <2>1, <2>2 DEF Cancelled, Current
<1> QED
  BY StepCases, <1>1, <1>2, <1>3, <1>4, <1>5, <1>6, <1>7, <1>8, <1>9, <1>10, <1>11, <1>12, <1>13

\* The record of an FFmpeg whose fields are of their types is one of the records.
Process == [state : {"good", "hung", "dead"}, own : BOOLEAN, terms : 0..3, killed : BOOLEAN]
Clocks == [fresh : BOOLEAN, silent : BOOLEAN, startup : BOOLEAN]

\* There are never more than three TERMs: a SendTerm finds fewer.
LEMMA ProcessTyped ==
    ASSUME IInv, [Next]_vars
    PROVE  ffmpeg' \in Process
<1> USE DEF IInv, Process
<1>0. ffmpeg \in Process
  BY DEF Typed
<1>1. CASE ffmpeg' = ffmpeg
  BY <1>0, <1>1
<1>2. CASE Launch
  BY <1>2 DEF Launch, Created
<1>3. ASSUME NEW c \in Caller, SendTerm(c)
      PROVE  ffmpeg' \in Process
  <2>1. Current = 0
    BY <1>3 DEF SendTerm, Current, Sent, Caller, Holding, OneHolder
  <2>2. ffmpeg.terms <= 2
    BY <1>0, <1>3, <2>1 DEF SendTerm, TermInv, Cancelled
  <2> QED
    BY <1>0, <1>3, <2>2 DEF SendTerm
<1>4. ASSUME NEW c \in Caller, SendKill(c)
      PROVE  ffmpeg' \in Process
  BY <1>0, <1>4 DEF SendKill
<1>5. CASE Abort
  BY <1>0, <1>5 DEF Abort
<1>6. CASE Deliver \/ Hang \/ Exit
  BY <1>0, <1>6 DEF Deliver, Hang, Exit
<1>7. CASE HealthCheck \/ ProcessEnds \/ Stop \/ StopTerminated \/ CancelStop
  BY <1>1, <1>7 DEF HealthCheck, ProcessEnds, Stop, StopTerminated, CancelStop
<1>8. ASSUME NEW c \in Caller, TakeLock(c)
      PROVE  ffmpeg' \in Process
  BY <1>1, <1>8 DEF TakeLock
<1> QED
  BY StepCases, QuietStep, <1>1, <1>2, <1>3, <1>4, <1>5, <1>6, <1>7, <1>8

LEMMA ClocksTyped ==
    ASSUME IInv, [Next]_vars
    PROVE  watch' \in Clocks
<1> USE DEF IInv, Clocks
<1>0. watch \in Clocks
  BY DEF Typed
<1>1. CASE NextCycle
  <2>1. CASE watch' = watch
    BY <1>0, <2>1
  <2>2. CASE watch' = [fresh |-> FALSE, silent |-> FALSE, startup |-> FALSE]
    BY <2>2
  <2> QED
    BY <1>1, <2>1, <2>2 DEF NextCycle
<1>7. CASE Launch
  BY <1>0, <1>7 DEF Launch
<1>2. CASE Deliver \/ LateSegment
  BY <1>0, <1>2 DEF Deliver, LateSegment, Counted
<1>3. CASE TimePasses
  BY <1>0, <1>3 DEF TimePasses
<1>4. CASE \/ ResolveFails \/ Resolved \/ LaunchFails \/ HealthCheck \/ ProcessEnds
           \/ SealEnds \/ PauseEnds
  BY <1>0, <1>4 DEF ResolveFails, Resolved, LaunchFails, HealthCheck, ProcessEnds, SealEnds,
                    PauseEnds
<1>5. CASE \/ Start \/ Stop \/ StopTerminated \/ Joined \/ CancelStop \/ Abort
           \/ Hang \/ Exit \/ UNCHANGED vars
  BY <1>0, <1>5 DEF Start, Stop, StopTerminated, Joined, CancelStop, Abort, Hang, Exit
<1>6. ASSUME NEW c \in Caller, TakeLock(c) \/ SendTerm(c) \/ SendKill(c)
      PROVE  watch' \in Clocks
  BY <1>0, <1>6 DEF TakeLock, SendTerm, SendKill
<1> QED
  BY StepCases, <1>1, <1>2, <1>3, <1>4, <1>5, <1>6, <1>7 DEF Quiet

LEMMA TypedStep ==
    ASSUME IInv, [Next]_vars
    PROVE  Typed'
<1> USE DEF IInv, Typed, Runs, Goes
<1>1. CASE Quiet
  <2>1. UNCHANGED <<terminate, processVars, owed>> /\ unwinding' \in BOOLEAN
        /\ stopping' \in BOOLEAN /\ late' \in BOOLEAN
    BY <1>1, QuietStep DEF Quiet, NextCycle, ResolveFails, Resolved, LaunchFails, SealEnds,
       PauseEnds, Start, Joined, LateSegment, TimePasses, NothingRan, Pause
  <2>2. run' \in {"off", "top", "resolving", "creating", "watching", "stopping", "cleaning",
                  "sealing", "pausing"}
    BY <1>1 DEF Quiet, NextCycle, ResolveFails, Resolved, LaunchFails, SealEnds,
       PauseEnds, Start, Joined, LateSegment, TimePasses, NothingRan, Pause
  <2> QED
    BY <1>1, <2>1, <2>2, QuietStep, ClocksTyped DEF Clocks
<1>2. CASE UNCHANGED vars
  BY <1>2
<1>3. CASE Launch
  <2>1. terminate' \in [Caller -> Holding \cup {"no", "lock"}]
    BY <1>3 DEF Launch, EnterTerminate, Steps, Holding
  <2>2. /\ run' \in {"stopping", "watching"} /\ held' = TRUE /\ owed' = TRUE
        /\ UNCHANGED <<unwinding, stopping, caller, late>>
    BY <1>3 DEF Launch
  <2> QED
    BY <2>1, <2>2, ProcessTyped, ClocksTyped, ZenonT(30) DEF Process, Clocks
<1>4. CASE HealthCheck
  BY <1>4 DEF HealthCheck, EnterTerminate, Steps, Caller, Holding
<1>5. CASE ProcessEnds
  <2>1. terminate' \in [Caller -> Holding \cup {"no", "lock"}]
    BY <1>5 DEF ProcessEnds, Steps, Holding
  <2>2. run' = "sealing" /\ held' = FALSE /\ owed' = FALSE
        /\ UNCHANGED <<unwinding, stopping, caller, late>>
    BY <1>5 DEF ProcessEnds, Seal
  <2> QED
    BY <2>1, <2>2, ProcessTyped, ClocksTyped DEF Process, Clocks
<1>6. ASSUME NEW c \in Caller, TakeLock(c) \/ SendTerm(c) \/ SendKill(c)
      PROVE  Typed'
  BY <1>6, ProcessTyped DEF TakeLock, SendTerm, SendKill, Steps, Holding, Process
<1>7. CASE Stop
  BY <1>7 DEF Stop, EnterTerminate, Steps, Caller, Holding
<1>8. CASE StopTerminated \/ CancelStop
  BY <1>8 DEF StopTerminated, CancelStop, Steps, Caller, Holding
<1>9. CASE Abort
  <2>1. terminate' \in [Caller -> Holding \cup {"no", "lock"}]
    BY <1>9 DEF Abort, CancelledWhileWatching, Steps, Holding
  <2>2. /\ run' \in {"cleaning", "sealing", "off"} /\ caller' = "aborting"
        /\ unwinding' \in BOOLEAN /\ UNCHANGED <<stopping, late>>
    BY <1>9 DEF Abort, CancelledWhileWatching, Seal
  <2>3. held' \in BOOLEAN /\ owed' \in BOOLEAN
    BY <1>9, Zenon DEF Abort, CancelledWhileWatching, Seal
  <2> QED
    BY <2>1, <2>2, <2>3, ProcessTyped, ClocksTyped DEF Process, Clocks
<1>10. CASE Deliver \/ Hang \/ Exit
  <2>1. late' \in BOOLEAN
    BY <1>10 DEF Deliver, Hang, Exit
  <2> QED
    BY <1>10, <2>1, ProcessTyped, ClocksTyped DEF Deliver, Hang, Exit, Process, Clocks
<1> QED
  BY StepCases, <1>1, <1>2, <1>3, <1>4, <1>5, <1>6, <1>7, <1>8, <1>9, <1>10

LEMMA Initially == Init => IInv
<1> SUFFICES ASSUME Init PROVE IInv
  OBVIOUS
<1>1. Typed
  <2>1. terminate \in [Caller -> Holding \cup {"no", "lock"}]
    BY DEF Init
  <2>2. ffmpeg \in Process /\ watch \in Clocks
    BY DEF Init, Process, Clocks
  <2> QED
    BY <2>1, <2>2 DEF Init, Typed, Process, Clocks
<1>2. OneHolder /\ CallInv
  BY DEF Init, OneHolder, CallInv, Caller, Holding
<1>3. NoneLeftOver /\ OwedInv /\ TermInv
  BY DEF Init, NoneLeftOver, OwedInv, TermInv, Alive
<1> QED
  BY <1>1, <1>2, <1>3 DEF IInv

LEMMA Inductive == IInv /\ [Next]_vars => IInv'
BY TypedStep, OneHolderStep, CallStep, NoneLeftOverStep, OwedStep, TermStep DEF IInv

LEMMA Invariant == Spec => []IInv
BY Initially, Inductive, PTL DEF Spec
-----------------------------------------------------------------------------
(***************************************************************************)
(* The theorems.                                                           *)
(***************************************************************************)

\* A live FFmpeg always has its task and its supervisor's reference; on_stream_end was
\* called for every FFmpeg that ran; and until the deadline cancels a call, the lock lets
\* one call of _terminate send one TERM.
LEMMA Promises == IInv => NoneLeftOver /\ SealedBetweenLaunches /\ OneTerm
<1>1. IInv => NoneLeftOver
  BY DEF IInv
<1>2. IInv => SealedBetweenLaunches
  BY DEF IInv, OwedInv, SealedBetweenLaunches, Runs
<1>3. ASSUME IInv, Alive, caller \in {"idle", "terminating", "joining"}
      PROVE  ffmpeg.terms <= 1
  <2>1. Cancelled = 0 /\ Current \in {0, 1} /\ ffmpeg.terms \in 0..3
    BY <1>3 DEF Cancelled, Current, IInv, Typed
  <2> QED
    BY <1>3, <2>1 DEF IInv, TermInv
<1> QED
  BY <1>1, <1>2, <1>3 DEF OneTerm

\* Whatever the order of launch, watchdog, stop(), deadline and abort(), and whether the
\* event loop is fair or not (supervisor.py 42-209, 285-316).
THEOREM Safe == Spec => [](NoneLeftOver /\ SealedBetweenLaunches /\ OneTerm)
BY Invariant, Promises, PTL

\* The types, where restart_max_seconds is not below restart_min_seconds (config.py
\* accepts no other): the pause between two launches stays between the two.
THEOREM TypeCorrect ==
    ASSUME RestartMin \in Nat, RestartMax \in Nat, RestartMin <= RestartMax
    PROVE  Spec => []TypeOK
<1> DEFINE Between == backoff \in RestartMin..RestartMax
<1>1. Init => Between
  BY DEF Init
<1>2. Between /\ [Next]_vars => Between'
  <2> SUFFICES ASSUME Between, [Next]_vars PROVE Between'
    OBVIOUS
  <2>1. CASE Pause
    <3>1. ASSUME NEW b \in RestartMin..RestartMax
          PROVE  Smaller(RestartMax, Greater(2 * b, Smaller(RestartMax, b) + 1))
                   \in RestartMin..RestartMax
      BY <3>1 DEF Smaller, Greater
    <3>2. \/ backoff' = backoff
          \/ \E b \in {RestartMin, backoff} :
                backoff' = Smaller(RestartMax, Greater(2 * b, Smaller(RestartMax, b) + 1))
      BY <2>1, Zenon DEF Pause
    <3> QED
      BY <3>1, <3>2
  <2>2. CASE Start
    BY <2>2 DEF Start
  <2>3. CASE backoff' = backoff
    BY <2>3
  <2>4. CASE Quiet
    BY <2>1, <2>2, <2>3, <2>4 DEF Quiet, NextCycle, ResolveFails, Resolved, LaunchFails,
       SealEnds, PauseEnds, Joined, LateSegment, TimePasses, NothingRan
  <2>5. CASE Launch \/ HealthCheck \/ ProcessEnds \/ Abort
    BY <2>3, <2>5 DEF Launch, HealthCheck, ProcessEnds, Abort, CancelledWhileWatching, Seal
  <2>6. CASE \E c \in Caller : TakeLock(c) \/ SendTerm(c) \/ SendKill(c)
    BY <2>3, <2>6 DEF TakeLock, SendTerm, SendKill
  <2>7. CASE \/ Stop \/ StopTerminated \/ CancelStop \/ Deliver \/ Hang \/ Exit
             \/ UNCHANGED vars
    BY <2>3, <2>7 DEF Stop, StopTerminated, CancelStop, Deliver, Hang, Exit
  <2> QED
    BY StepCases, <2>4, <2>5, <2>6, <2>7
<1>3. IInv /\ Between => TypeOK
  BY DEF IInv, Typed, TypeOK
<1> QED
  BY <1>1, <1>2, <1>3, Invariant, PTL DEF Spec
=============================================================================
