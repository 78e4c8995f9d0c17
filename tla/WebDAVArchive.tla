---------------------------- MODULE WebDAVArchive -----------------------------
(***************************************************************************)
(* One recording on the WebDAV server: the transaction with which the      *)
(* replay task uploads it (write_prepared), and the retention task, which  *)
(* lists the server once and then deletes what it saw.  The two share no   *)
(* lock.  Media and sidecar are uploaded under a partial name that is the  *)
(* same in every attempt and moved to their final names, media first.      *)
(*                                                                         *)
(* A request whose client gave up may still take effect, at any later      *)
(* time.  Atomic uploads are modelled (atomic_upload, the default).        *)
(***************************************************************************)
EXTENDS Naturals, FiniteSets

CONSTANTS Retains, \* retention comes by while the recording is there
          MaxLate  \* bound: requests given up and not yet performed

ASSUME ConstantsAssumption ==
    /\ Retains \in BOOLEAN
    /\ MaxLate \in Nat

VARIABLES
    object,    \* [Name -> "absent", "cut" or "whole"] what the server stores
    old,       \* objects last modified before partial_max_age_hours
    late,      \* requests the server may still perform
    writer,    \* [step, part] the replay task's attempt
    sweep,     \* [step, doomed, record] the retention task's run
    expired,   \* history: retention chose to delete the recording
    orphaned,  \* history: retention deleted the media for want of a sidecar
    torn       \* history: parts whose MOVE was answered with success, but moved a cut object

vars == <<object, old, late, writer, sweep, expired, orphaned, torn>>
serverVars == <<object, old, late>>
cleanupVars == <<expired, orphaned>>
historyVars == <<cleanupVars, torn>>

Part == {"media", "side"}
Partial == [media |-> "mediaPart", side |-> "sidePart"]
Partials == {"mediaPart", "sidePart"}
Name == Part \cup Partials
Request == ({"DELETE"} \X Name) \cup ({"PUT", "MOVE"} \X Part)
-----------------------------------------------------------------------------
(* The server.                                                             *)

Holds(n) == object[n] # "absent"

Store(n, bytes) ==
    /\ object' = [object EXCEPT ![n] = bytes]
    /\ old' = old \ {n}

\* Retention asks for the age of these.
Aging == Partials \cup {"media"}

\* MOVE with Overwrite: F.
Movable(p) == Holds(Partial[p]) /\ ~Holds(p)

Move(p) ==
    /\ object' = [object EXCEPT ![p] = object[Partial[p]], ![Partial[p]] = "absent"]
    /\ old' = (old \ {p, Partial[p]}) \cup (IF Partial[p] \in old THEN {p} \cap Aging ELSE {})

\* No answer: the request was lost, or is still on its way.
GivenUp(r) ==
    \/ UNCHANGED late
    \/ Cardinality(late) < MaxLate /\ late' = late \cup {r}

\* What the server stores of a PUT that got no answer: all of its body, or what arrived
\* of one that was cut off.
Arrives(p) == \E bytes \in {"cut", "whole"} : Store(Partial[p], bytes)

Perform(r) ==
    CASE r[1] = "PUT" -> Arrives(r[2])
      [] r[1] = "DELETE" -> Store(r[2], "absent")
      [] r[1] = "MOVE" -> IF Movable(r[2]) THEN Move(r[2]) ELSE UNCHANGED <<object, old>>

LateEffect(r) ==
    /\ r \in late
    /\ late' = late \ {r}
    /\ Perform(r)
    /\ UNCHANGED <<writer, sweep, historyVars>>

\* An attempt is far shorter than partial_max_age_hours.
Age(n) ==
    /\ writer.step \in {"idle", "done"}
    /\ Holds(n) /\ n \in Aging \ old
    /\ old' = old \cup {n}
    /\ UNCHANGED <<object, late, writer, sweep, historyVars>>
-----------------------------------------------------------------------------
\* Nothing is under way, and nothing of it remembered.
Resting == [step |-> "idle", part |-> "media"]
NoRun == [step |-> "idle", doomed |-> {}, record |-> FALSE]

Init ==
    /\ object = [n \in Name |-> "absent"]
    /\ old = {} /\ late = {}
    /\ writer = Resting
    /\ sweep = NoRun
    /\ expired = FALSE /\ orphaned = FALSE /\ torn = {}
-----------------------------------------------------------------------------
(* write_prepared.  The replay task repeats it until it returns.           *)

WriterAt(s) == writer.step = s
Goes(s) == writer' = [writer EXCEPT !.step = s]
Rests == writer' = Resting

BeginAttempt ==
    /\ WriterAt("idle")
    /\ writer' = [step |-> "put", part |-> "media"]
    /\ UNCHANGED <<serverVars, sweep, historyVars>>

PutSucceeds(p) ==
    /\ writer = [step |-> "put", part |-> p]
    /\ Store(Partial[p], "whole")
    /\ Goes("move")
    /\ UNCHANGED <<late, sweep, historyVars>>

\* No answer, or an error: nothing was stored, something was, or will be later.
PutBreaksOff(p) ==
    \/ GivenUp(<<"PUT", p>>) /\ UNCHANGED <<object, old>>
    \/ Arrives(p) /\ UNCHANGED late

PutFails(p) ==
    /\ writer = [step |-> "put", part |-> p]
    /\ PutBreaksOff(p)
    /\ Goes("cleanMedia")
    /\ UNCHANGED <<sweep, historyVars>>

\* After a part is committed.
NextPart == writer' = IF writer.part = "media" THEN [step |-> "put", part |-> "side"]
                      ELSE [step |-> "done", part |-> "side"]

\* 200, 201 or 204 is believed: nothing looks at what was moved.
MoveSucceeds(p) ==
    /\ writer = [step |-> "move", part |-> p]
    /\ Movable(p)
    /\ Move(p)
    /\ NextPart
    /\ torn' = IF object[Partial[p]] = "cut" THEN torn \cup {p} ELSE torn
    /\ UNCHANGED <<late, sweep, cleanupVars>>

\* Fault: 404 and 412 are errors as any other.
MoveRefusedIsFinal(p) ==
    /\ writer = [step |-> "move", part |-> p]
    /\ ~Movable(p)
    /\ Goes("cleanMedia")
    /\ UNCHANGED <<serverVars, sweep, historyVars>>

\* 404, 405, 409 or 412: an earlier attempt may have committed it.
MoveRefused(p) ==
    /\ writer = [step |-> "move", part |-> p]
    /\ ~Movable(p)
    /\ Goes("check")
    /\ UNCHANGED <<serverVars, sweep, historyVars>>

\* No answer, or 500 to 504: it may have been committed.
MoveUnanswered(p) ==
    /\ writer = [step |-> "move", part |-> p]
    /\ GivenUp(<<"MOVE", p>>)
    /\ Goes("check")
    /\ UNCHANGED <<object, old, sweep, historyVars>>

\* Any other status.
MoveDenied(p) ==
    /\ writer = [step |-> "move", part |-> p]
    /\ Goes("cleanMedia")
    /\ UNCHANGED <<serverVars, sweep, historyVars>>

\* Fault: existence is taken for equality.
ObjectExists(p) == Holds(p)

\* _object_matches: size and SHA-256 of what GET returns.
ObjectMatches(p) == object[p] = "whole"

CheckMatches(p) ==
    /\ writer = [step |-> "check", part |-> p]
    /\ ObjectMatches(p)
    /\ Goes("dropPartial")
    /\ UNCHANGED <<serverVars, sweep, historyVars>>

\* Other bytes, no object, or GET fails.
CheckFails(p) ==
    /\ writer = [step |-> "check", part |-> p]
    /\ Goes("cleanMedia")
    /\ UNCHANGED <<serverVars, sweep, historyVars>>

BestEffortDelete(n) ==
    \/ Store(n, "absent") /\ UNCHANGED late
    \/ GivenUp(<<"DELETE", n>>) /\ UNCHANGED <<object, old>>

DropPartial(p) ==
    /\ writer = [step |-> "dropPartial", part |-> p]
    /\ BestEffortDelete(Partial[p])
    /\ NextPart
    /\ UNCHANGED <<sweep, historyVars>>

\* Fault: the error path deletes the final object, too.
CleanBoth ==
    /\ WriterAt("cleanMedia")
    /\ object' = [object EXCEPT !["mediaPart"] = "absent", !["media"] = "absent"]
    /\ Goes("cleanSide")
    /\ UNCHANGED <<old, late, sweep, historyVars>>

\* The error path deletes both partials and never a final object.
CleanMedia ==
    /\ WriterAt("cleanMedia")
    /\ BestEffortDelete("mediaPart")
    /\ Goes("cleanSide")
    /\ UNCHANGED <<sweep, historyVars>>

CleanSide ==
    /\ WriterAt("cleanSide")
    /\ BestEffortDelete("sidePart")
    /\ Rests
    /\ UNCHANGED <<sweep, historyVars>>

\* The upload timeout, or the end of the process, cuts the attempt off where it
\* is: a cancellation is no Exception, so nothing is cleaned up.
Pending ==
    CASE WriterAt("move") -> <<"MOVE", writer.part>>
      [] WriterAt("dropPartial") -> <<"DELETE", Partial[writer.part]>>
      [] WriterAt("cleanSide") -> <<"DELETE", "sidePart">>
      [] OTHER -> <<"DELETE", "mediaPart">>

AttemptCutOff ==
    /\ writer.step \notin {"idle", "done"}
    /\ CASE WriterAt("put") -> PutBreaksOff(writer.part)
         [] WriterAt("check") -> UNCHANGED serverVars
         [] OTHER -> GivenUp(Pending) /\ UNCHANGED <<object, old>>
    /\ Rests
    /\ UNCHANGED <<sweep, historyVars>>

\* The process ended, or a rename failed, before the outbox gave its copy up.
UploadAgain ==
    /\ WriterAt("done")
    /\ Rests
    /\ UNCHANGED <<serverVars, sweep, historyVars>>
-----------------------------------------------------------------------------
(* retention.                                                              *)

StalePartials == Partials \cap old

OrphanMedia == IF Holds("side") THEN {} ELSE {"media"} \cap old

\* PROPFIND: everything that follows uses this listing.
List ==
    /\ sweep.step = "idle"
    /\ sweep' = [step |-> "clean",
                 doomed |-> StalePartials \cup OrphanMedia,
                 record |-> Holds("media") /\ Holds("side")]
    /\ UNCHANGED <<serverVars, writer, historyVars>>

\* A request that fails ends the run.
RunFails(n) ==
    /\ GivenUp(<<"DELETE", n>>)
    /\ sweep' = NoRun
    /\ UNCHANGED <<object, old>>

Delete(n, next) ==
    \/ Store(n, "absent") /\ sweep' = next /\ UNCHANGED late
    \/ RunFails(n)

CleanStale(n) ==
    /\ sweep.step = "clean"
    /\ n \in sweep.doomed
    /\ Delete(n, [sweep EXCEPT !.doomed = @ \ {n}])
    /\ orphaned' = (orphaned \/ n = "media")
    /\ UNCHANGED <<writer, expired, torn>>

\* Age, size, free space or an emergency may ask for the listed record.
ChooseRecord ==
    /\ sweep.step = "clean"
    /\ sweep.doomed = {}
    /\ \/ sweep' = NoRun /\ UNCHANGED expired
       \/ sweep.record /\ sweep' = [sweep EXCEPT !.step = "media"] /\ expired' = TRUE
    /\ UNCHANGED <<serverVars, writer, orphaned, torn>>

DeleteRecordMedia ==
    /\ sweep.step = "media"
    /\ Delete("media", [sweep EXCEPT !.step = "side"])
    /\ UNCHANGED <<writer, historyVars>>

DeleteRecordSidecar ==
    /\ sweep.step = "side"
    /\ Delete("side", NoRun)
    /\ UNCHANGED <<writer, historyVars>>
-----------------------------------------------------------------------------
Attempt ==
    \/ BeginAttempt \/ CleanMedia \/ CleanSide \/ AttemptCutOff
    \/ \E p \in Part : \/ PutSucceeds(p) \/ PutFails(p)
                       \/ MoveSucceeds(p) \/ MoveRefused(p) \/ MoveUnanswered(p) \/ MoveDenied(p)
                       \/ CheckMatches(p) \/ CheckFails(p) \/ DropPartial(p)

Retention ==
    \/ List \/ ChooseRecord \/ DeleteRecordMedia \/ DeleteRecordSidecar
    \/ \E n \in Name : CleanStale(n)

Next ==
    \/ Attempt \/ UploadAgain
    \/ \E r \in Request : LateEffect(r)
    \/ Retains /\ (Retention \/ \E n \in Name : Age(n))

Spec == Init /\ [][Next]_vars

\* The replay task tries again and again.  A server that is asked again and again
\* does what it is asked, and says so.
ServerRecovers ==
    \A p \in Part : /\ SF_vars(PutSucceeds(p)) /\ SF_vars(CheckMatches(p)) /\ SF_vars(DropPartial(p))
                    /\ SF_vars(MoveSucceeds(p)) /\ SF_vars(MoveRefused(p))

RecoveringSpec == Spec /\ WF_vars(Attempt) /\ ServerRecovers
-----------------------------------------------------------------------------
(* Properties.                                                             *)

Delivered == WriterAt("done")

\* A part with its final name has the bytes sent, or the MOVE that named it was believed.
Sound(p) == object[p] = "whole" \/ (Holds(p) /\ p \in torn)

\* When write_prepared has returned and the outbox gives its copy up, both final objects
\* are there and stay, whatever requests of this and of earlier attempts still arrive,
\* unless retention deleted something; and they are what was sent, byte for byte, but for
\* a part whose upload a late PUT had cut again before a MOVE that was believed.
DeliveredIsExact ==
    Delivered /\ ~expired /\ ~orphaned => \A p \in Part : Sound(p)

\* A recording becomes visible to listings when both objects exist: its media is
\* then complete, also before the transaction returned, with the same exception.
VisibleIsPlayable ==
    Holds("media") /\ Holds("side") /\ ~expired /\ ~orphaned => Sound("media")

\* The transaction implements RemotePair, on which the outbox relies: whatever requests are
\* lost or take effect late, and however often the upload is repeated, the final objects
\* come in order, stay as they are, and are both there when it returns; a damaged one lets
\* the upload go on only after a MOVE that was believed.
Remote == INSTANCE RemotePair
            WITH final <- [p \in Part |-> object[p]], mistaken <- torn,
                 returned <- Delivered, givenUp <- expired \/ orphaned

ImplementsRemotePair == Remote!Spec

\* A transaction whose answers were lost is not stuck behind its own success: with
\* a server that recovers, some attempt returns (README.md:423-425), unless what a
\* cut-off PUT had left got a final name.
UploadCompletes == <>(Delivered \/ \E p \in Part : object[p] = "cut")

=============================================================================
