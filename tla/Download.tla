-------------------------------- MODULE Download -------------------------------
(***************************************************************************)
(* The export of a time range as one MP4 file: a task feeds recordings to  *)
(* an FFmpeg, the response streams what it puts out to the browser, a      *)
(* second task reads what it complains of, and one slot admits one export. *)
(* Pipes hold one piece; the browser may leave at any time.                *)
(***************************************************************************)
EXTENDS Naturals

CONSTANTS Browser, Pieces \* pieces of the recordings of one export

VARIABLES
    slot,    \* the browser whose export has download_slot
    stream,  \* [Browser -> step of _stream_download]
    ffmpeg,  \* [Browser -> what the process is about, or whether there is none]
    stdin, stdout, stderr, \* [Browser -> 0..1] pieces in the pipe
    closed,  \* [Browser -> BOOLEAN] its standard input has been closed
    left,    \* [Browser -> 0..Pieces] to be fed
    feeder,  \* [Browser -> step of _feed_download_input]
    listener \* [Browser -> whether _read_process_stderr runs]

pipes == <<stdin, stdout, stderr, closed>>
tasks == <<left, feeder, listener>>
vars == <<slot, stream, ffmpeg, pipes, tasks>>

Nobody == "nobody"

Alive(b) == ffmpeg[b] \in {"reads", "putsOut", "complains"}
-----------------------------------------------------------------------------
Init ==
    /\ slot = Nobody
    /\ stream = [b \in Browser |-> "idle"]
    /\ ffmpeg = [b \in Browser |-> "none"]
    /\ stdin = [b \in Browser |-> 0] /\ stdout = stdin /\ stderr = stdin
    /\ closed = [b \in Browser |-> FALSE]
    /\ left = [b \in Browser |-> 0]
    /\ feeder = [b \in Browser |-> "done"]
    /\ listener = [b \in Browser |-> FALSE]

\* download_recording: any other export is refused while the slot is taken.
Ask(b) ==
    /\ slot = Nobody /\ stream[b] = "idle"
    /\ slot' = b
    /\ stream' = [stream EXCEPT ![b] = "launching"]
    /\ UNCHANGED <<ffmpeg, pipes, tasks>>

\* create_subprocess_exec raises an Exception.  (A CancelledError at this await is none
\* and keeps the slot; only the end of the server cancels a request here.)
LaunchFails(b) ==
    /\ stream[b] = "launching"
    /\ slot' = Nobody
    /\ stream' = [stream EXCEPT ![b] = "idle"]
    /\ UNCHANGED <<ffmpeg, pipes, tasks>>

\* FFmpeg runs, and the response begins: _stream_download starts its tasks.
Launch(b) ==
    /\ stream[b] = "launching"
    /\ stream' = [stream EXCEPT ![b] = "reading"]
    /\ ffmpeg' = [ffmpeg EXCEPT ![b] = "reads"]
    /\ stdin' = [stdin EXCEPT ![b] = 0]
    /\ stdout' = [stdout EXCEPT ![b] = 0]
    /\ stderr' = [stderr EXCEPT ![b] = 0]
    /\ closed' = [closed EXCEPT ![b] = FALSE]
    /\ left' = [left EXCEPT ![b] = Pieces]
    /\ feeder' = [feeder EXCEPT ![b] = "feeding"]
    /\ listener' = [listener EXCEPT ![b] = TRUE]
    /\ UNCHANGED slot
-----------------------------------------------------------------------------
(* FFmpeg, as far as the streams go: it blocks on a full pipe.             *)

Read(b) ==
    /\ ffmpeg[b] = "reads" /\ stdin[b] > 0
    /\ stdin' = [stdin EXCEPT ![b] = @ - 1]
    /\ \E next \in {"reads", "putsOut", "complains"} :
          ffmpeg' = [ffmpeg EXCEPT ![b] = next]
    /\ UNCHANGED <<slot, stream, stdout, stderr, closed, tasks>>

PutOut(b) ==
    /\ ffmpeg[b] = "putsOut" /\ stdout[b] = 0
    /\ stdout' = [stdout EXCEPT ![b] = 1]
    /\ ffmpeg' = [ffmpeg EXCEPT ![b] = "reads"]
    /\ UNCHANGED <<slot, stream, stdin, stderr, closed, tasks>>

Complain(b) ==
    /\ ffmpeg[b] = "complains" /\ stderr[b] = 0
    /\ stderr' = [stderr EXCEPT ![b] = 1]
    /\ ffmpeg' = [ffmpeg EXCEPT ![b] = "reads"]
    /\ UNCHANGED <<slot, stream, stdin, stdout, closed, tasks>>

EndOfInput(b) ==
    /\ ffmpeg[b] = "reads" /\ closed[b] /\ stdin[b] = 0
    /\ ffmpeg' = [ffmpeg EXCEPT ![b] = "dead"]
    /\ UNCHANGED <<slot, stream, pipes, tasks>>

\* The duration has been put out, FFmpeg failed, or it obeys a TERM.
Exit(b) ==
    /\ Alive(b)
    /\ ffmpeg' = [ffmpeg EXCEPT ![b] = "dead"]
    /\ UNCHANGED <<slot, stream, pipes, tasks>>
-----------------------------------------------------------------------------
(* _feed_download_input and _read_process_stderr.                          *)

Feed(b) ==
    /\ feeder[b] = "feeding" /\ left[b] > 0
    /\ Alive(b) /\ stdin[b] = 0
    /\ stdin' = [stdin EXCEPT ![b] = 1]
    /\ left' = [left EXCEPT ![b] = @ - 1]
    /\ UNCHANGED <<slot, stream, ffmpeg, stdout, stderr, closed, feeder, listener>>

\* All recordings are fed, or FFmpeg has closed its input.
FeedingEnds(b) ==
    /\ feeder[b] = "feeding" /\ (left[b] = 0 \/ ~Alive(b))
    /\ feeder' = [feeder EXCEPT ![b] = "closing"]
    /\ UNCHANGED <<slot, stream, ffmpeg, pipes, left, listener>>

\* A recording cannot be read.
FeedingFails(b) ==
    /\ feeder[b] = "feeding" /\ left[b] > 0
    /\ feeder' = [feeder EXCEPT ![b] = "closing"]
    /\ UNCHANGED <<slot, stream, ffmpeg, pipes, left, listener>>

\* The finally clause: writer.close().
CloseInput(b) ==
    /\ feeder[b] = "closing"
    /\ closed' = [closed EXCEPT ![b] = TRUE]
    /\ feeder' = [feeder EXCEPT ![b] = "flushing"]
    /\ UNCHANGED <<slot, stream, ffmpeg, stdin, stdout, stderr, left, listener>>

\* wait_closed() returns when the rest is written, or cannot be.
Flushed(b) ==
    /\ feeder[b] = "flushing" /\ (stdin[b] = 0 \/ ~Alive(b))
    /\ feeder' = [feeder EXCEPT ![b] = "done"]
    /\ UNCHANGED <<slot, stream, ffmpeg, pipes, left, listener>>

Hear(b) ==
    /\ listener[b]
    /\ IF stderr[b] > 0
       THEN stderr' = [stderr EXCEPT ![b] = 0] /\ UNCHANGED listener
       ELSE ~Alive(b) /\ listener' = [listener EXCEPT ![b] = FALSE] /\ UNCHANGED stderr
    /\ UNCHANGED <<slot, stream, ffmpeg, stdin, stdout, closed, left, feeder>>
-----------------------------------------------------------------------------
(* _stream_download.                                                       *)

ReadChunk(b) ==
    /\ stream[b] = "reading" /\ stdout[b] > 0
    /\ stdout' = [stdout EXCEPT ![b] = 0]
    /\ stream' = [stream EXCEPT ![b] = "sending"]
    /\ UNCHANGED <<slot, ffmpeg, stdin, stderr, closed, tasks>>

Sent(b) ==
    /\ stream[b] = "sending"
    /\ stream' = [stream EXCEPT ![b] = "reading"]
    /\ UNCHANGED <<slot, ffmpeg, pipes, tasks>>

\* The end of the output: process.wait(), then the results of both tasks.
EndOfOutput(b) ==
    /\ stream[b] = "reading" /\ stdout[b] = 0 /\ ~Alive(b)
    /\ stream' = [stream EXCEPT ![b] = "waiting"]
    /\ UNCHANGED <<slot, ffmpeg, pipes, tasks>>

\* The finally clause, up to its first await: a feeder that is still running is
\* cancelled, which ends its wait for the pipe, and FFmpeg gets a TERM.
CleanUp(b) ==
    /\ stream' = [stream EXCEPT ![b] = IF Alive(b) THEN "terminating" ELSE "gathering"]
    /\ feeder' = [feeder EXCEPT ![b] = CASE @ = "feeding"  -> "closing"
                                         [] @ = "flushing" -> "done"
                                         [] OTHER          -> @]
    /\ UNCHANGED <<slot, ffmpeg, pipes, left, listener>>

\* The browser is gone: the await or the yield of the try block raises, once.
Leave(b) == stream[b] \in {"reading", "sending", "waiting"} /\ CleanUp(b)

Finished(b) == stream[b] = "waiting" /\ feeder[b] = "done" /\ ~listener[b] /\ CleanUp(b)

Terminated(b) ==
    /\ stream[b] = "terminating" /\ ~Alive(b)
    /\ stream' = [stream EXCEPT ![b] = "gathering"]
    /\ UNCHANGED <<slot, ffmpeg, pipes, tasks>>

\* Fault: after five seconds the tasks are awaited, and no KILL is sent.
GatherAnyway(b) ==
    /\ stream[b] = "terminating" /\ Alive(b)
    /\ stream' = [stream EXCEPT ![b] = "gathering"]
    /\ UNCHANGED <<slot, ffmpeg, pipes, tasks>>

\* Five seconds are over: process.kill().
Kill(b) ==
    /\ stream[b] = "terminating" /\ Alive(b)
    /\ ffmpeg' = [ffmpeg EXCEPT ![b] = "dead"]
    /\ stream' = [stream EXCEPT ![b] = "gathering"]
    /\ UNCHANGED <<slot, pipes, tasks>>

\* Fault: the second task is not waited for.
ReleaseWithFeeder(b) ==
    /\ stream[b] = "gathering" /\ feeder[b] = "done"
    /\ slot' = Nobody
    /\ stream' = [stream EXCEPT ![b] = "idle"]
    /\ UNCHANGED <<ffmpeg, pipes, tasks>>

\* Both tasks have ended: slot.release().
Release(b) ==
    /\ stream[b] = "gathering" /\ feeder[b] = "done" /\ ~listener[b]
    /\ slot' = Nobody
    /\ stream' = [stream EXCEPT ![b] = "idle"]
    /\ UNCHANGED <<ffmpeg, pipes, tasks>>
-----------------------------------------------------------------------------
Handler(b) == Launch(b) \/ LaunchFails(b)
Process(b) == Read(b) \/ PutOut(b) \/ Complain(b) \/ EndOfInput(b)
Feeding(b) == Feed(b) \/ FeedingEnds(b) \/ CloseInput(b) \/ Flushed(b)
Streaming(b) ==
    ReadChunk(b) \/ EndOfOutput(b) \/ Finished(b) \/ Terminated(b) \/ Kill(b) \/ Release(b)

Next ==
    \E b \in Browser :
       \/ Ask(b) \/ Handler(b) \/ Process(b) \/ Exit(b)
       \/ Feeding(b) \/ FeedingFails(b) \/ Hear(b)
       \/ Streaming(b) \/ Sent(b) \/ Leave(b)

\* The tasks run, FFmpeg works on what it has, and a browser reads or leaves.
ExportGoesOn ==
    \A b \in Browser :
       /\ WF_vars(Handler(b)) /\ WF_vars(Process(b)) /\ WF_vars(Feeding(b))
       /\ WF_vars(Hear(b)) /\ WF_vars(Streaming(b)) /\ WF_vars(Sent(b) \/ Leave(b))

Spec == Init /\ [][Next]_vars /\ ExportGoesOn
-----------------------------------------------------------------------------
\* Only the export that has the slot is under way, and it gives the slot back to the next
\* with nothing of it left: its FFmpeg is dead, and neither of its tasks runs.
OneExport ==
    \A b \in Browser :
        /\ stream[b] # "idle" => slot = b
        /\ slot # b => ~Alive(b) /\ feeder[b] = "done" /\ ~listener[b]

\* An export that takes the slot gives it back, finished or abandoned, with its FFmpeg
\* dead and its feeder at an end: neither a full pipe, nor an FFmpeg that does not obey
\* the TERM, nor a recording that cannot be read keeps the next export out for ever.
SlotComesBack ==
    \A b \in Browser :
       slot = b ~> slot # b /\ ~Alive(b) /\ feeder[b] = "done"
=============================================================================
