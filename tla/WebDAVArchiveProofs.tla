------------------------ MODULE WebDAVArchiveProofs -------------------------
(***************************************************************************)
(* One recording on the WebDAV server, for every number of requests that   *)
(* were given up and may still take effect, with and without retention.    *)
(***************************************************************************)
EXTENDS WebDAVArchive, TLAPS

\* Types of the variables.
TypeOK ==
    /\ object \in [Name -> {"absent", "cut", "whole"}]
    /\ old \subseteq Name
    /\ late \subseteq Request
    /\ writer \in [step : {"idle", "put", "move", "check", "dropPartial", "cleanMedia",
                           "cleanSide", "done"},
                   part : Part]
    /\ sweep \in [step : {"idle", "clean", "media", "side"},
                  doomed : SUBSET (Partials \cup {"media"}), record : BOOLEAN]
    /\ expired \in BOOLEAN
    /\ orphaned \in BOOLEAN
    /\ torn \subseteq Part

\* The sidecar comes last.
DoneIsLast == WriterAt("done") => writer.part = "side"

\* Nobody deletes the final objects, now or later.
NoFinalDelete ==
    /\ sweep.step \in {"idle", "clean"}
    /\ <<"DELETE", "media">> \notin late
    /\ <<"DELETE", "side">> \notin late

\* The sidecar is begun only after the media has its final name, and is what was sent
\* unless its MOVE was believed.
MediaFirst ==
    writer.part = "side" \/ Holds("side") \/ <<"MOVE", "side">> \in late => Sound("media")

\* So is a part that the attempt has done with; one that was compared is what was sent.
Committed ==
    /\ WriterAt("dropPartial") => object[writer.part] = "whole"
    /\ WriterAt("done") => Sound("side")

Untouched == ~expired /\ ~orphaned

Safe == NoFinalDelete /\ MediaFirst /\ Committed

IInv == TypeOK /\ DoneIsLast /\ (Untouched => Safe)
-----------------------------------------------------------------------------
(* Types.                                                                  *)

USE DEF serverVars, cleanupVars, historyVars

\* The four names are different.
LEMMA Names ==
    /\ Name = {"media", "side", "mediaPart", "sidePart"}
    /\ \A p \in Part : Partial[p] \in Partials /\ Partial[p] \in Name /\ p \in Name
    /\ \A p, q \in Part : Partial[p] = Partial[q] => p = q
    /\ \A p, q \in Part : Partial[p] # q
  BY DEF Name, Part, Partials, Partial

\* The requests an attempt or a run may give up are requests.
LEMMA Requests ==
    /\ \A n \in Name : <<"DELETE", n>> \in Request
    /\ \A p \in Part : <<"PUT", p>> \in Request /\ <<"MOVE", p>> \in Request
  BY DEF Request

\* What a server stores under a name is typed.
LEMMA StoreType ==
    ASSUME TypeOK, NEW n \in Name, NEW bytes \in {"absent", "cut", "whole"}, Store(n, bytes)
    PROVE  object' \in [Name -> {"absent", "cut", "whole"}] /\ old' \subseteq Name
  BY DEF TypeOK, Store

LEMMA ArrivesType ==
    ASSUME TypeOK, NEW p \in Part, Arrives(p)
    PROVE  object' \in [Name -> {"absent", "cut", "whole"}] /\ old' \subseteq Name
  BY StoreType, Names DEF Arrives

\* So is what it moves.
LEMMA MoveType ==
    ASSUME TypeOK, NEW p \in Part, Move(p)
    PROVE  object' \in [Name -> {"absent", "cut", "whole"}] /\ old' \subseteq Name
  BY Names DEF TypeOK, Move, Aging, Name, Partials

\* A given-up request is one that may be performed later.
LEMMA GivenUpType ==
    ASSUME TypeOK, NEW r \in Request, GivenUp(r)
    PROVE  late' \subseteq Request
  BY DEF TypeOK, GivenUp

\* The attempt's next state is typed.
LEMMA WriterType ==
    ASSUME TypeOK
    PROVE  /\ \A s \in {"idle", "put", "move", "check", "dropPartial", "cleanMedia",
                        "cleanSide", "done"} :
                Goes(s) => writer'.step = s /\ writer'.part = writer.part /\
                           writer' \in [step : {"idle", "put", "move", "check", "dropPartial",
                                                "cleanMedia", "cleanSide", "done"},
                                        part : Part]
           /\ NextPart \/ Rests =>
                writer' \in [step : {"idle", "put", "move", "check", "dropPartial",
                                      "cleanMedia", "cleanSide", "done"},
                             part : Part]
  BY DEF TypeOK, Goes, NextPart, Rests, Resting, Part

\* A request that takes effect late keeps the types.
LEMMA LateType ==
    ASSUME TypeOK, NEW r \in Request, LateEffect(r)
    PROVE  TypeOK'
  <1>1. CASE r[1] = "PUT"
    BY <1>1, ArrivesType DEF LateEffect, Perform, Request, TypeOK
  <1>2. CASE r[1] = "DELETE"
    BY <1>2, StoreType DEF LateEffect, Perform, Request, TypeOK
  <1>3. CASE r[1] = "MOVE"
    BY <1>3, MoveType DEF LateEffect, Perform, Request, TypeOK
  <1> QED
    BY <1>1, <1>2, <1>3 DEF Request

\* Every step of an attempt keeps the types.
LEMMA AttemptType ==
    ASSUME TypeOK, Attempt
    PROVE  TypeOK'
  <1>1. CASE BeginAttempt
    BY <1>1 DEF BeginAttempt, TypeOK, Part
  <1>2. ASSUME NEW p \in Part, PutSucceeds(p)
        PROVE  TypeOK'
    BY <1>2, StoreType, WriterType, Names DEF PutSucceeds, TypeOK
  <1>3. ASSUME NEW p \in Part, PutBreaksOff(p)
        PROVE  /\ object' \in [Name -> {"absent", "cut", "whole"}] /\ old' \subseteq Name
               /\ late' \subseteq Request
    BY <1>3, ArrivesType, GivenUpType, Requests, ZenonT(30) DEF PutBreaksOff, TypeOK
  <1>4. ASSUME NEW p \in Part, PutFails(p)
        PROVE  TypeOK'
    BY <1>3, <1>4, WriterType DEF PutFails, TypeOK
  <1>5. ASSUME NEW p \in Part, MoveSucceeds(p)
        PROVE  TypeOK'
    <2>1. torn' \subseteq Part
      BY <1>5 DEF MoveSucceeds, TypeOK
    <2> QED
      BY <1>5, <2>1, MoveType, WriterType DEF MoveSucceeds, TypeOK
  <1>6. ASSUME NEW p \in Part,
               MoveRefused(p) \/ MoveDenied(p) \/ CheckMatches(p) \/ CheckFails(p)
        PROVE  TypeOK'
    BY <1>6, WriterType DEF MoveRefused, MoveDenied, CheckMatches, CheckFails, TypeOK
  <1>7. ASSUME NEW p \in Part, MoveUnanswered(p)
        PROVE  TypeOK'
    BY <1>7, GivenUpType, Requests, WriterType DEF MoveUnanswered, TypeOK
  <1>8. ASSUME NEW n \in Name, BestEffortDelete(n)
        PROVE  /\ object' \in [Name -> {"absent", "cut", "whole"}] /\ old' \subseteq Name
               /\ late' \subseteq Request
    BY <1>8, StoreType, GivenUpType, Requests DEF BestEffortDelete, TypeOK
  <1>9. ASSUME NEW p \in Part, DropPartial(p)
        PROVE  TypeOK'
    BY <1>8, <1>9, WriterType, Names DEF DropPartial, TypeOK
  <1>10. CASE CleanMedia
    BY <1>8, <1>10, WriterType, Names DEF CleanMedia, TypeOK
  <1>11. CASE CleanSide
    BY <1>8, <1>11, WriterType, Names DEF CleanSide, TypeOK
  <1>12. CASE AttemptCutOff
    <2>1. writer.part \in Part
      BY DEF TypeOK
    <2>2. Pending \in Request
      BY <2>1, Requests, Names DEF Pending
    <2>3. /\ object' \in [Name -> {"absent", "cut", "whole"}] /\ old' \subseteq Name
          /\ late' \subseteq Request
      <3>1. CASE WriterAt("put")
        <4>1. PutBreaksOff(writer.part)
          BY <1>12, <3>1 DEF AttemptCutOff, WriterAt
        <4> QED
          BY <1>3, <2>1, <4>1
      <3>2. CASE WriterAt("check")
        BY <1>12, <3>2 DEF AttemptCutOff, TypeOK, WriterAt
      <3>3. CASE ~WriterAt("put") /\ ~WriterAt("check")
        BY <1>12, <2>2, <3>3, GivenUpType DEF AttemptCutOff, TypeOK
      <3> QED
        BY <3>1, <3>2, <3>3
    <2> QED
      BY <1>12, <2>3, WriterType DEF AttemptCutOff, TypeOK
  <1> QED
    BY <1>1, <1>2, <1>4, <1>5, <1>6, <1>7, <1>9, <1>10, <1>11, <1>12 DEF Attempt

\* So is the state of retention between two runs.
LEMMA NoRunType ==
    NoRun \in [step : {"idle", "clean", "media", "side"},
              doomed : SUBSET (Partials \cup {"media"}), record : BOOLEAN]
  BY DEF NoRun

\* Every step of retention keeps the types.
LEMMA RetentionType ==
    ASSUME TypeOK, Retention \/ \E n \in Name : Age(n)
    PROVE  TypeOK'
  <1>1. CASE List
    <2>1. StalePartials \cup OrphanMedia \subseteq Partials \cup {"media"}
      BY DEF StalePartials, OrphanMedia
    <2>2. (Holds("media") /\ Holds("side")) \in BOOLEAN
      OBVIOUS
    <2> QED
      BY <1>1, <2>1, <2>2 DEF List, TypeOK
  <1>2. CASE ChooseRecord
    BY <1>2, NoRunType DEF ChooseRecord, TypeOK
  <1>3. ASSUME NEW n \in Name,
               NEW next \in [step : {"idle", "clean", "media", "side"},
                             doomed : SUBSET (Partials \cup {"media"}), record : BOOLEAN],
               Delete(n, next)
        PROVE  /\ object' \in [Name -> {"absent", "cut", "whole"}] /\ old' \subseteq Name
               /\ late' \subseteq Request
               /\ sweep' \in [step : {"idle", "clean", "media", "side"},
                              doomed : SUBSET (Partials \cup {"media"}), record : BOOLEAN]
    BY <1>3, StoreType, GivenUpType, Requests, NoRunType DEF Delete, RunFails, TypeOK
  <1>4. CASE DeleteRecordMedia
    BY <1>3, <1>4, Names DEF DeleteRecordMedia, TypeOK
  <1>5. CASE DeleteRecordSidecar
    BY <1>3, <1>5, Names, NoRunType DEF DeleteRecordSidecar, TypeOK
  <1>6. ASSUME NEW n \in Name, CleanStale(n)
        PROVE  TypeOK'
    <2>1. orphaned' \in BOOLEAN
      BY <1>6 DEF CleanStale
    <2> QED
      BY <1>3, <1>6, <2>1 DEF CleanStale, TypeOK
  <1>7. ASSUME NEW n \in Name, Age(n)
        PROVE  TypeOK'
    BY <1>7 DEF Age, TypeOK
  <1> QED
    BY <1>1, <1>2, <1>4, <1>5, <1>6, <1>7 DEF Retention

\* Every step keeps the types.
LEMMA TypeStep ==
    ASSUME TypeOK, Next
    PROVE  TypeOK'
  <1>1. CASE UploadAgain
    BY <1>1, WriterType DEF UploadAgain, TypeOK
  <1> QED
    BY <1>1, LateType, AttemptType, RetentionType DEF Next

-----------------------------------------------------------------------------
(* The parts.                                                              *)

\* What the server does to one name leaves the others alone.
LEMMA StoreEffect ==
    ASSUME TypeOK, NEW n \in Name, NEW bytes, Store(n, bytes)
    PROVE  object'[n] = bytes /\ \A m \in Name \ {n} : object'[m] = object[m]
  BY DEF TypeOK, Store

\* A move puts the partial's bytes in the place of nothing.
LEMMA MoveEffect ==
    ASSUME TypeOK, NEW p \in Part, Movable(p), Move(p)
    PROVE  /\ object[p] = "absent"
           /\ object'[p] = object[Partial[p]] /\ object'[Partial[p]] = "absent"
           /\ \A m \in Name \ {p, Partial[p]} : object'[m] = object[m]
  BY Names DEF TypeOK, Move, Movable, Holds

\* The next part, and the end, begin where a part ends.
LEMMA NextEffect ==
    ASSUME TypeOK, NextPart
    PROVE  /\ writer'.part = "side" /\ writer'.step \in {"put", "done"}
           /\ writer'.step = "done" => writer.part = "side"
  BY DEF TypeOK, NextPart, Part

\* The transaction ends with the sidecar.
LEMMA DoneIsLastStep ==
    ASSUME TypeOK, DoneIsLast, Next
    PROVE  DoneIsLast'
  <1>1. ASSUME NEW s \in {"idle", "put", "move", "check", "dropPartial", "cleanMedia", "cleanSide"},
               Goes(s)
        PROVE  DoneIsLast'
    BY <1>1, WriterType DEF DoneIsLast, WriterAt
  <1>2. CASE NextPart
    BY <1>2, NextEffect DEF DoneIsLast
  <1>8. CASE Rests
    BY <1>8 DEF Rests, Resting, DoneIsLast, WriterAt
  <1>3. CASE BeginAttempt
    BY <1>3 DEF BeginAttempt, DoneIsLast, WriterAt
  <1>4. CASE CleanMedia \/ CleanSide \/ AttemptCutOff \/ UploadAgain
    BY <1>1, <1>4, <1>8 DEF CleanMedia, CleanSide, AttemptCutOff, UploadAgain
  <1>5. ASSUME NEW p \in Part,
               PutSucceeds(p) \/ PutFails(p) \/ MoveRefused(p) \/ MoveUnanswered(p)
                 \/ MoveDenied(p) \/ CheckMatches(p) \/ CheckFails(p)
        PROVE  DoneIsLast'
    BY <1>1, <1>5 DEF PutSucceeds, PutFails, MoveRefused, MoveUnanswered, MoveDenied,
       CheckMatches, CheckFails
  <1>6. ASSUME NEW p \in Part, MoveSucceeds(p) \/ DropPartial(p)
        PROVE  DoneIsLast'
    BY <1>2, <1>6 DEF MoveSucceeds, DropPartial
  <1>7. CASE ~Attempt /\ ~UploadAgain
    <2>1. UNCHANGED writer
      BY <1>7 DEF Next, LateEffect, Retention, List, ChooseRecord, DeleteRecordMedia,
         DeleteRecordSidecar, CleanStale, Age
    <2> QED
      BY <2>1 DEF DoneIsLast, WriterAt
  <1> QED
    BY <1>3, <1>4, <1>5, <1>6, <1>7 DEF Attempt

-----------------------------------------------------------------------------
(* The final objects.                                                      *)

\* What the server may do to the final objects while nobody deletes them: they stay.
Keeps ==
    \A p \in Part : (object[p] = "whole" => object'[p] = "whole") /\ (Holds(p) => Holds(p)')

\* What is sound stays sound.
LEMMA SoundStays ==
    ASSUME Keeps, torn \subseteq torn', NEW p \in Part, Sound(p)
    PROVE  Sound(p)'
  BY DEF Keeps, Sound

\* A step of retention, or of a late request, that keeps the final objects and
\* the attempt keeps their safety.
LEMMA KeepsSafe ==
    ASSUME TypeOK, Safe, Keeps, UNCHANGED writer, NoFinalDelete',
           Holds("side")' => Holds("side") \/ <<"MOVE", "side">> \in late,
           <<"MOVE", "side">> \in late' => <<"MOVE", "side">> \in late, torn \subseteq torn'
    PROVE  Safe'
  BY SoundStays DEF TypeOK, Safe, Keeps, MediaFirst, Committed, WriterAt, Part

\* A store under a partial name leaves the final objects alone.
LEMMA PartialKeeps ==
    ASSUME TypeOK, NEW n \in Partials, NEW bytes, Store(n, bytes)
    PROVE  Keeps /\ Holds("side")' = Holds("side")
  <1>1. n \in Name /\ \A p \in Part : p \in Name \ {n}
    BY DEF Name, Part, Partials
  <1>2. \A p \in Part : object'[p] = object[p]
    BY <1>1, StoreEffect
  <1> QED
    BY <1>2 DEF Keeps, Holds, Part

\* A move gives a name only to what had none.
LEMMA MoveKeeps ==
    ASSUME TypeOK, NEW p \in Part, Movable(p), Move(p)
    PROVE  Keeps /\ \A q \in Part \ {p} : object'[q] = object[q]
  <1>1. \A q \in Part \ {p} : q \in Name \ {p, Partial[p]}
    BY Names
  <1>2. \A q \in Part \ {p} : object'[q] = object[q]
    BY <1>1, MoveEffect
  <1>3. object[p] = "absent" /\ object'[p] # "absent"
    BY MoveEffect DEF Movable, Holds
  <1> QED
    BY <1>2, <1>3 DEF Keeps, Holds, Part

\* A late request keeps the final objects safe.
LEMMA LateSafe ==
    ASSUME TypeOK, Safe, NEW r \in Request, LateEffect(r)
    PROVE  Safe'
  <1>1. r \in late /\ late' = late \ {r} /\ UNCHANGED <<writer, sweep, torn>> /\ Perform(r)
    BY DEF LateEffect
  <1>2. NoFinalDelete'
    BY <1>1 DEF Safe, NoFinalDelete
  <1>3. CASE r[1] = "PUT"
    <2>1. r[2] \in Part /\ Arrives(r[2])
      BY <1>1, <1>3 DEF Perform, Request
    <2>2. Keeps /\ Holds("side")' = Holds("side")
      BY <2>1, PartialKeeps, Names DEF Arrives
    <2> QED
      BY <1>1, <1>2, <2>2, KeepsSafe
  <1>4. CASE r[1] = "DELETE"
    <2>1. r[2] \in Name /\ Store(r[2], "absent") /\ r = <<"DELETE", r[2]>>
      BY <1>1, <1>4 DEF Perform, Request
    <2>2. r[2] \in Partials
      BY <1>1, <2>1, Names DEF Safe, NoFinalDelete, Partials
    <2>3. Keeps /\ Holds("side")' = Holds("side")
      BY <2>1, <2>2, PartialKeeps
    <2> QED
      BY <1>1, <1>2, <2>3, KeepsSafe
  <1>5. CASE r[1] = "MOVE"
    <2>1. /\ r[2] \in Part /\ r = <<"MOVE", r[2]>>
          /\ IF Movable(r[2]) THEN Move(r[2]) ELSE UNCHANGED object
      BY <1>1, <1>5 DEF Perform, Request
    <2>2. Keeps
      <3>1. CASE Movable(r[2])
        BY <2>1, <3>1, MoveKeeps
      <3>2. CASE ~Movable(r[2])
        BY <2>1, <3>2 DEF Keeps, Holds
      <3> QED
        BY <3>1, <3>2
    <2>3. Holds("side")' => Holds("side") \/ <<"MOVE", "side">> \in late
      <3>1. CASE r[2] = "side"
        BY <1>1, <2>1, <3>1
      <3>2. CASE r[2] # "side"
        BY <2>1, <3>2, MoveKeeps DEF Holds, Part
      <3> QED
        BY <3>1, <3>2
    <2> QED
      BY <1>1, <1>2, <2>2, <2>3, KeepsSafe
  <1> QED
    BY <1>3, <1>4, <1>5 DEF Request

\* Retention keeps the final objects safe until it deletes one.
LEMMA RetentionSafe ==
    ASSUME TypeOK, Safe, Retention \/ \E n \in Name : Age(n), Untouched'
    PROVE  Safe'
  <1>1. CASE List
    BY <1>1 DEF List, Safe, NoFinalDelete, MediaFirst, Committed, Sound, Holds, WriterAt
  <1>2. CASE ChooseRecord
    BY <1>2 DEF ChooseRecord, Untouched, Safe, NoFinalDelete, MediaFirst, Committed, Sound,
       Holds, WriterAt, NoRun, TypeOK
  <1>3. CASE DeleteRecordMedia \/ DeleteRecordSidecar
    BY <1>3 DEF DeleteRecordMedia, DeleteRecordSidecar, Safe, NoFinalDelete
  <1>4. ASSUME NEW n \in Name, CleanStale(n)
        PROVE  Safe'
    <2>1. n # "media"
      BY <1>4 DEF CleanStale, Untouched
    <2>2. n \in Partials
      BY <1>4, <2>1 DEF CleanStale, TypeOK
    <2>3. CASE Store(n, "absent") /\ UNCHANGED late /\ sweep' = [sweep EXCEPT !.doomed = @ \ {n}]
      <3>1. NoFinalDelete'
        BY <2>3 DEF Safe, NoFinalDelete, TypeOK
      <3> QED
        BY <1>4, <2>2, <2>3, <3>1, PartialKeeps, KeepsSafe DEF CleanStale
    <2>4. CASE RunFails(n)
      <3>1. /\ UNCHANGED object /\ sweep'.step = "idle"
            /\ late' \subseteq late \cup {<<"DELETE", n>>}
        BY <2>4 DEF RunFails, GivenUp, NoRun
      <3>2. NoFinalDelete'
        BY <2>2, <3>1 DEF Safe, NoFinalDelete, Partials
      <3>3. Keeps /\ Holds("side")' = Holds("side")
        BY <3>1 DEF Keeps, Holds
      <3> QED
        BY <1>4, <3>1, <3>2, <3>3, KeepsSafe DEF CleanStale
    <2> QED
      BY <1>4, <2>3, <2>4 DEF CleanStale, Delete
  <1>5. ASSUME NEW n \in Name, Age(n)
        PROVE  Safe'
    BY <1>5 DEF Age, Safe, NoFinalDelete, MediaFirst, Committed, Sound, Holds, WriterAt
  <1> QED
    BY <1>1, <1>2, <1>3, <1>4, <1>5 DEF Retention

\* A step of an attempt that ends before the part is committed keeps the final
\* objects safe.
LEMMA GoesSafe ==
    ASSUME TypeOK, Safe, Keeps, UNCHANGED sweep,
           Rests \/ \E s \in {"put", "move", "check", "cleanMedia", "cleanSide"} : Goes(s),
           torn \subseteq torn',
           Holds("side")' => Holds("side") \/ writer.part = "side",
           \A r \in late' \ late : r[1] = "MOVE" => r[2] = writer.part,
           \A r \in late' \ late : r[1] = "DELETE" => r[2] \in Partials
    PROVE  Safe'
  <1>1. /\ writer'.part \in {writer.part, "media"}
        /\ writer'.step \in {"idle", "put", "move", "check", "cleanMedia", "cleanSide"}
    BY WriterType DEF Rests, Resting
  <1>2. NoFinalDelete'
    <2>1. \A n \in Part : <<"DELETE", n>> \notin late' \ late
      BY DEF Partials, Part
    <2> QED
      BY <2>1 DEF Safe, NoFinalDelete, Part
  <1>3. <<"MOVE", "side">> \in late' => <<"MOVE", "side">> \in late \/ writer.part = "side"
    OBVIOUS
  <1>4. MediaFirst'
    BY <1>1, <1>3, SoundStays DEF Safe, MediaFirst, Part
  <1> QED
    BY <1>1, <1>2, <1>4 DEF Safe, Committed, WriterAt

\* A part that is complete under its final name may be done with.
LEMMA NextSafe ==
    ASSUME TypeOK, Safe, Keeps, UNCHANGED sweep, NextPart, NEW p \in Part, writer.part = p,
           Sound(p)', torn \subseteq torn',
           \A r \in late' \ late : r[1] = "DELETE" /\ r[2] \in Partials
    PROVE  Safe'
  <1>1. NoFinalDelete'
    <2>1. \A n \in Part : <<"DELETE", n>> \notin late' \ late
      BY DEF Partials, Part
    <2> QED
      BY <2>1 DEF Safe, NoFinalDelete, Part
  <1>2. <<"MOVE", "side">> \in late' => <<"MOVE", "side">> \in late
    OBVIOUS
  <1>3. Sound("media")'
    <2>1. writer.part = "side" => Sound("media")
      BY DEF Safe, MediaFirst
    <2> QED
      BY <2>1, SoundStays DEF Part
  <1>4. writer'.step # "dropPartial" /\ (writer'.step = "done" => Sound("side")')
    BY NextEffect
  <1> QED
    BY <1>1, <1>3, <1>4 DEF Safe, MediaFirst, Committed, WriterAt

\* A cleanup, performed or given up, keeps the final objects.
LEMMA DeleteKeeps ==
    ASSUME TypeOK, NEW n \in Partials, BestEffortDelete(n)
    PROVE  /\ Keeps /\ Holds("side")' = Holds("side")
           /\ late' \subseteq late \cup {<<"DELETE", n>>}
  <1>1. CASE Store(n, "absent") /\ UNCHANGED late
    BY <1>1, PartialKeeps
  <1>2. CASE GivenUp(<<"DELETE", n>>) /\ UNCHANGED <<object, old>>
    BY <1>2 DEF GivenUp, Keeps, Holds
  <1> QED
    BY <1>1, <1>2 DEF BestEffortDelete

\* An upload that breaks off keeps the final objects.
LEMMA BreaksOffKeeps ==
    ASSUME TypeOK, NEW p \in Part, PutBreaksOff(p)
    PROVE  /\ Keeps /\ Holds("side")' = Holds("side")
           /\ late' \subseteq late \cup {<<"PUT", p>>}
  <1>1. CASE Arrives(p) /\ UNCHANGED late
    BY <1>1, PartialKeeps, Names DEF Arrives
  <1>2. CASE GivenUp(<<"PUT", p>>) /\ UNCHANGED <<object, old>>
    BY <1>2 DEF GivenUp, Keeps, Holds
  <1> QED
    BY <1>1, <1>2 DEF PutBreaksOff

\* Every step of an attempt keeps the final objects safe.
LEMMA AttemptSafe ==
    ASSUME TypeOK, Safe, Attempt
    PROVE  Safe'
  <1>0. UNCHANGED object => Keeps /\ Holds("side")' = Holds("side")
    BY DEF Keeps, Holds
  <1>1. CASE BeginAttempt
    BY <1>1 DEF BeginAttempt, Safe, NoFinalDelete, MediaFirst, Committed, Sound, Holds,
       WriterAt
  <1>2. ASSUME NEW p \in Part, PutSucceeds(p)
        PROVE  Safe'
    BY <1>2, PartialKeeps, GoesSafe, Names DEF PutSucceeds
  <1>3. ASSUME NEW p \in Part, PutFails(p)
        PROVE  Safe'
    <2>1. /\ Keeps /\ Holds("side")' = Holds("side")
          /\ \A r \in late' \ late : r[1] = "PUT"
      BY <1>3, BreaksOffKeeps DEF PutFails
    <2> QED
      BY <1>3, <2>1, GoesSafe DEF PutFails
  <1>4. ASSUME NEW p \in Part, MoveSucceeds(p)
        PROVE  Safe'
    <2>1. /\ writer.part = p /\ torn \subseteq torn'
          /\ object[Partial[p]] = "cut" => p \in torn'
      BY <1>4 DEF MoveSucceeds
    <2>2. object[Partial[p]] \in {"cut", "whole"}
      BY <1>4, Names DEF MoveSucceeds, Movable, Holds, TypeOK
    <2>3. object'[p] = object[Partial[p]] /\ Keeps
      BY <1>4, MoveEffect, MoveKeeps DEF MoveSucceeds
    <2>4. Sound(p)'
      BY <2>1, <2>2, <2>3 DEF Sound, Holds
    <2> QED
      BY <1>4, <2>1, <2>3, <2>4, NextSafe DEF MoveSucceeds
  <1>5. ASSUME NEW p \in Part, MoveRefused(p) \/ MoveDenied(p) \/ CheckFails(p)
        PROVE  Safe'
    BY <1>0, <1>5, GoesSafe DEF MoveRefused, MoveDenied, CheckFails
  <1>6. ASSUME NEW p \in Part, MoveUnanswered(p)
        PROVE  Safe'
    <2>1. /\ writer.part = p /\ Keeps /\ Holds("side")' = Holds("side")
          /\ late' \subseteq late \cup {<<"MOVE", p>>}
      BY <1>0, <1>6 DEF MoveUnanswered, GivenUp
    <2> QED
      BY <1>6, <2>1, GoesSafe DEF MoveUnanswered
  <1>7. ASSUME NEW p \in Part, CheckMatches(p)
        PROVE  Safe'
    <2>1. writer.part = p /\ writer'.part = p /\ writer'.step = "dropPartial"
      BY <1>7, WriterType DEF CheckMatches
    <2> QED
      BY <1>7, <2>1 DEF CheckMatches, ObjectMatches, Safe, NoFinalDelete, MediaFirst, Committed,
         Sound, Holds, WriterAt
  <1>8. ASSUME NEW p \in Part, DropPartial(p)
        PROVE  Safe'
    <2>1. writer.part = p /\ object[p] = "whole"
      BY <1>8 DEF DropPartial, Safe, Committed, WriterAt
    <2>2. /\ Keeps
          /\ late' \subseteq late \cup {<<"DELETE", Partial[p]>>} /\ Partial[p] \in Partials
      BY <1>8, DeleteKeeps, Names DEF DropPartial
    <2>3. Sound(p)'
      BY <2>1, <2>2 DEF Keeps, Sound
    <2> QED
      BY <1>8, <2>1, <2>2, <2>3, NextSafe DEF DropPartial
  <1>9. CASE CleanMedia
    <2>1. /\ Keeps /\ Holds("side")' = Holds("side")
          /\ late' \subseteq late \cup {<<"DELETE", "mediaPart">>}
      BY <1>9, DeleteKeeps DEF CleanMedia, Partials
    <2> QED
      BY <1>9, <2>1, GoesSafe DEF CleanMedia, Partials
  <1>10. CASE CleanSide
    <2>1. /\ Keeps /\ Holds("side")' = Holds("side")
          /\ late' \subseteq late \cup {<<"DELETE", "sidePart">>}
      BY <1>10, DeleteKeeps DEF CleanSide, Partials
    <2> QED
      BY <1>10, <2>1, GoesSafe DEF CleanSide, Partials
  <1>11. CASE AttemptCutOff
    <2>1. writer.part \in Part
      BY DEF TypeOK
    <2>2. /\ Keeps /\ Holds("side")' = Holds("side")
          /\ \A r \in late' \ late : /\ r[1] = "MOVE" => r[2] = writer.part
                                     /\ r[1] = "DELETE" => r[2] \in Partials
      <3>1. CASE WriterAt("put")
        <4>1. PutBreaksOff(writer.part)
          BY <1>11, <3>1 DEF AttemptCutOff, WriterAt
        <4> QED
          BY <2>1, <4>1, BreaksOffKeeps
      <3>2. CASE WriterAt("check")
        BY <1>0, <1>11, <3>2 DEF AttemptCutOff, WriterAt
      <3>3. CASE ~WriterAt("put") /\ ~WriterAt("check")
        <4>1. GivenUp(Pending) /\ UNCHANGED object
          BY <1>11, <3>3 DEF AttemptCutOff
        <4>2. Pending \in {<<"MOVE", writer.part>>} \cup ({"DELETE"} \X Partials)
          BY <2>1, Names DEF Pending, Partials
        <4>3. late' \subseteq late \cup {Pending}
          BY <4>1 DEF GivenUp
        <4> QED
          BY <1>0, <4>1, <4>2, <4>3
      <3> QED
        BY <3>1, <3>2, <3>3
    <2> QED
      BY <1>11, <2>2, GoesSafe DEF AttemptCutOff
  <1> QED
    BY <1>1, <1>2, <1>3, <1>4, <1>5, <1>6, <1>7, <1>8, <1>9, <1>10, <1>11 DEF Attempt

\* So does the decision to repeat it.
LEMMA AgainSafe ==
    ASSUME TypeOK, Safe, UploadAgain
    PROVE  Safe'
  <1>1. Keeps /\ Holds("side")' = Holds("side") /\ UNCHANGED <<sweep, late, torn>>
    BY DEF UploadAgain, Keeps, Holds
  <1> QED
    BY <1>1, GoesSafe DEF UploadAgain

-----------------------------------------------------------------------------
(* The theorems.                                                           *)

\* History only grows.
LEMMA HistoryStep ==
    ASSUME Next, Untouched'
    PROVE  Untouched
  <1>1. CASE Attempt \/ UploadAgain
    <2>1. UNCHANGED cleanupVars
      BY <1>1
      DEF Attempt, UploadAgain, BeginAttempt, CleanMedia, CleanSide, AttemptCutOff, PutSucceeds, PutFails,
         MoveSucceeds, MoveRefused, MoveUnanswered, MoveDenied, CheckMatches, CheckFails,
         DropPartial
    <2> QED
      BY <2>1 DEF Untouched
  <1>2. CASE \E r \in Request : LateEffect(r)
    BY <1>2 DEF LateEffect, Untouched
  <1>3. CASE Retention \/ \E n \in Name : Age(n)
    <2>1. CASE List \/ DeleteRecordMedia \/ DeleteRecordSidecar \/ \E n \in Name : Age(n)
      BY <2>1 DEF List, DeleteRecordMedia, DeleteRecordSidecar, Age, Untouched
    <2>2. CASE ChooseRecord
      <3>1. orphaned' = orphaned
        BY <2>2 DEF ChooseRecord
      <3>2. expired => expired'
        BY <2>2, Zenon DEF ChooseRecord
      <3> QED
        BY <3>1, <3>2 DEF Untouched
    <2>3. ASSUME NEW n \in Name, CleanStale(n)
          PROVE  Untouched
      BY <2>3, Zenon DEF CleanStale, Untouched
    <2> QED
      BY <1>3, <2>1, <2>2, <2>3 DEF Retention
  <1> QED
    BY <1>1, <1>2, <1>3 DEF Next

\* The inductive invariant holds in every reachable state.
LEMMA Inductive == Spec => []IInv
  <1>1. Init => IInv
    <2> SUFFICES ASSUME Init PROVE IInv
      OBVIOUS
    <2>1. TypeOK
      BY DEF Init, Resting, NoRun, TypeOK, Part
    <2>2. DoneIsLast /\ Safe
      BY Names DEF Init, Resting, NoRun, DoneIsLast, Safe, NoFinalDelete, MediaFirst, Committed,
         Sound, WriterAt, Holds
    <2> QED
      BY <2>1, <2>2 DEF IInv
  <1>2. IInv /\ [Next]_vars => IInv'
    <2> SUFFICES ASSUME IInv, [Next]_vars PROVE IInv'
      OBVIOUS
    <2>1. CASE Next
      <3>1. TypeOK' /\ DoneIsLast'
        BY <2>1, TypeStep, DoneIsLastStep DEF IInv
      <3>2. ASSUME Untouched'
            PROVE  Safe'
        <4>1. Safe
          BY <2>1, <3>2, HistoryStep DEF IInv
        <4> QED
          BY <2>1, <3>2, <4>1, AttemptSafe, AgainSafe, LateSafe, RetentionSafe DEF Next, IInv
      <3> QED
        BY <3>1, <3>2 DEF IInv
    <2>2. CASE UNCHANGED vars
      BY <2>2 DEF vars, IInv, TypeOK, DoneIsLast, Untouched, Safe, NoFinalDelete,
         MediaFirst, Committed, Sound, WriterAt, Holds
    <2> QED
      BY <2>1, <2>2
  <1> QED
    BY <1>1, <1>2, PTL DEF Spec

\* Types of the variables in every reachable state.
THEOREM TypeCorrect == Spec => []TypeOK
  BY Inductive, PTL DEF IInv

\* A transaction that returned has committed both objects for good, byte for byte but for
\* a part whose MOVE was believed (storage.py 1119-1121).
THEOREM DeliveredExact == Spec => []DeliveredIsExact
  <1>1. IInv => DeliveredIsExact
    BY DEF IInv, Untouched, Safe, MediaFirst, Committed, DoneIsLast, DeliveredIsExact, Delivered,
       WriterAt, Part
  <1> QED
    BY <1>1, Inductive, PTL

\* A listed recording can be played, before and after its transaction returned, unless
\* the MOVE of its media was believed.
THEOREM VisiblePlayable == Spec => []VisibleIsPlayable
  <1>1. IInv => VisibleIsPlayable
    BY DEF IInv, Untouched, Safe, MediaFirst, VisibleIsPlayable
  <1> QED
    BY <1>1, Inductive, PTL
-----------------------------------------------------------------------------
(* The refinement.                                                         *)

\* While nobody deletes the final objects, a step changes one of them at most, by a move
\* to a name that is free.
OneMoves ==
    \E p \in Part : /\ Holds(p) => object'[p] = object[p]
                    /\ \A q \in Part \ {p} : object'[q] = object[q]

\* Nothing, a store under a partial name, and a move are such steps.
LEMMA MovesAtMost ==
    ASSUME TypeOK,
           \/ UNCHANGED object
           \/ \E n \in Partials : \E bytes : Store(n, bytes)
           \/ \E p \in Part : Movable(p) /\ Move(p)
    PROVE  OneMoves
  <1>1. CASE UNCHANGED object
    BY <1>1 DEF OneMoves, Part
  <1>2. ASSUME NEW n \in Partials, NEW bytes, Store(n, bytes)
        PROVE  OneMoves
    <2>1. n \in Name /\ \A q \in Part : q \in Name \ {n}
      BY DEF Name, Part, Partials
    <2> QED
      BY <1>2, <2>1, StoreEffect DEF OneMoves, Part
  <1>3. ASSUME NEW p \in Part, Movable(p), Move(p)
        PROVE  OneMoves
    BY <1>3, MoveKeeps DEF OneMoves, Movable
  <1> QED
    BY <1>1, <1>2, <1>3

\* Every step that deletes none of the final objects.
LEMMA OneMovesStep ==
    ASSUME TypeOK, Safe, Next, Untouched'
    PROVE  OneMoves
  <1>1. ASSUME NEW p \in Part, PutBreaksOff(p)
        PROVE  OneMoves
    BY <1>1, MovesAtMost, Names DEF PutBreaksOff, Arrives
  <1>2. ASSUME NEW n \in Partials, BestEffortDelete(n)
        PROVE  OneMoves
    BY <1>2, MovesAtMost DEF BestEffortDelete
  <1>3. CASE Attempt \/ UploadAgain
    <2>1. CASE BeginAttempt \/ UploadAgain
      BY <2>1, MovesAtMost DEF BeginAttempt, UploadAgain
    <2>2. ASSUME NEW p \in Part,
                 MoveRefused(p) \/ MoveUnanswered(p) \/ MoveDenied(p)
                   \/ CheckMatches(p) \/ CheckFails(p)
          PROVE  OneMoves
      BY <2>2, MovesAtMost DEF MoveRefused, MoveUnanswered, MoveDenied, CheckMatches, CheckFails
    <2>3. ASSUME NEW p \in Part, PutSucceeds(p)
          PROVE  OneMoves
      BY <2>3, MovesAtMost, Names DEF PutSucceeds
    <2>4. ASSUME NEW p \in Part, PutFails(p)
          PROVE  OneMoves
      BY <1>1, <2>4 DEF PutFails
    <2>5. ASSUME NEW p \in Part, MoveSucceeds(p)
          PROVE  OneMoves
      BY <2>5, MovesAtMost DEF MoveSucceeds
    <2>6. ASSUME NEW p \in Part, DropPartial(p)
          PROVE  OneMoves
      BY <1>2, <2>6, Names DEF DropPartial
    <2>7. CASE CleanMedia \/ CleanSide
      BY <1>2, <2>7 DEF CleanMedia, CleanSide, Partials
    <2>8. CASE AttemptCutOff
      <3>1. CASE WriterAt("put")
        <4>1. writer.part \in Part /\ PutBreaksOff(writer.part)
          BY <2>8, <3>1 DEF AttemptCutOff, WriterAt, TypeOK
        <4> QED
          BY <1>1, <4>1
      <3>2. CASE ~WriterAt("put")
        <4>1. UNCHANGED object
          BY <2>8, <3>2 DEF AttemptCutOff, WriterAt
        <4> QED
          BY <4>1, MovesAtMost
      <3> QED
        BY <3>1, <3>2
    <2> QED
      BY <1>3, <2>1, <2>2, <2>3, <2>4, <2>5, <2>6, <2>7, <2>8 DEF Attempt
  <1>4. ASSUME NEW r \in Request, LateEffect(r)
        PROVE  OneMoves
    <2>1. CASE r[1] = "PUT"
      <3>1. r[2] \in Part /\ Arrives(r[2])
        BY <1>4, <2>1 DEF LateEffect, Perform, Request
      <3> QED
        BY <3>1, MovesAtMost, Names DEF Arrives
    <2>2. CASE r[1] = "DELETE"
      <3>1. r[2] \in Name /\ Store(r[2], "absent") /\ r = <<"DELETE", r[2]>> /\ r \in late
        BY <1>4, <2>2 DEF LateEffect, Perform, Request
      <3>2. r[2] \in Partials
        BY <3>1, Names DEF Safe, NoFinalDelete, Partials
      <3> QED
        BY <3>1, <3>2, MovesAtMost
    <2>3. CASE r[1] = "MOVE"
      <3>1. r[2] \in Part /\ IF Movable(r[2]) THEN Move(r[2]) ELSE UNCHANGED object
        BY <1>4, <2>3 DEF LateEffect, Perform, Request
      <3> QED
        BY <3>1, MovesAtMost
    <2> QED
      BY <2>1, <2>2, <2>3 DEF Request
  <1>5. CASE Retention \/ \E n \in Name : Age(n)
    <2>1. CASE List \/ ChooseRecord \/ \E n \in Name : Age(n)
      BY <2>1, MovesAtMost DEF List, ChooseRecord, Age
    <2>2. CASE DeleteRecordMedia \/ DeleteRecordSidecar
      BY <2>2 DEF DeleteRecordMedia, DeleteRecordSidecar, Safe, NoFinalDelete
    <2>3. ASSUME NEW n \in Name, CleanStale(n)
          PROVE  OneMoves
      <3>1. n \in Partials
        BY <2>3 DEF CleanStale, Untouched, TypeOK
      <3>2. Store(n, "absent") \/ UNCHANGED object
        BY <2>3 DEF CleanStale, Delete, RunFails
      <3> QED
        BY <3>1, <3>2, MovesAtMost
    <2> QED
      BY <1>5, <2>1, <2>2, <2>3 DEF Retention
  <1> QED
    BY <1>3, <1>4, <1>5 DEF Next

\* Only a MOVE that is believed makes a part torn, and it is that part which it moves.
LEMMA TornStep ==
    ASSUME TypeOK, Next
    PROVE  \/ torn' = torn
           \/ \E p \in Part : /\ object[p] = "absent" /\ object'[p] = "cut"
                              /\ torn' = torn \cup {p}
  <1>1. ASSUME NEW p \in Part, MoveSucceeds(p), torn' # torn
        PROVE  object[p] = "absent" /\ object'[p] = "cut" /\ torn' = torn \cup {p}
    <2>1. object[Partial[p]] = "cut" /\ torn' = torn \cup {p}
      BY <1>1 DEF MoveSucceeds
    <2> QED
      BY <1>1, <2>1, MoveEffect DEF MoveSucceeds
  <1>2. CASE (Attempt \/ UploadAgain) /\ ~\E p \in Part : MoveSucceeds(p)
    BY <1>2
    DEF Attempt, UploadAgain, BeginAttempt, CleanMedia, CleanSide, AttemptCutOff, PutSucceeds,
        PutFails, MoveRefused, MoveUnanswered, MoveDenied, CheckMatches, CheckFails, DropPartial
  <1>3. CASE \E r \in Request : LateEffect(r)
    BY <1>3 DEF LateEffect
  <1>4. CASE Retention \/ \E n \in Name : Age(n)
    BY <1>4 DEF Retention, List, ChooseRecord, DeleteRecordMedia, DeleteRecordSidecar, CleanStale,
       Age
  <1> QED
    BY <1>1, <1>2, <1>3, <1>4 DEF Next, Attempt

\* The objects as RemotePair sees them.
Final == [p \in Part |-> object[p]]

\* RemotePair takes for whole what is sound.
LEMMA SoundIsAccepted ==
    /\ \A p \in Part : Remote!Accepted(p) <=> Sound(p)
    /\ \A p \in Part : Remote!Accepted(p)' <=> Sound(p)'
  BY DEF Remote!Accepted, Sound, Holds, Final

\* The step that gives a part its final name commits it.
LEMMA Committing ==
    ASSUME TypeOK, TypeOK', Next, NEW p \in Part, object[p] = "absent", object'[p] # "absent",
           \A q \in Part \ {p} : object'[q] = object[q]
    PROVE  Remote!Commit(p)
  <1>1. object'[p] \in {"cut", "whole"}
    BY Names DEF TypeOK
  <1>2. Final' = [Final EXCEPT ![p] = object'[p]]
    BY DEF Final
  <1>3. torn' = torn \/ (object'[p] = "cut" /\ torn' = torn \cup {p})
    BY TornStep
  <1>4. Final[p] = "absent"
    BY DEF Final
  <1> QED
    BY <1>1, <1>2, <1>3, <1>4 DEF Remote!Commit, Final

\* A step of the transaction or of retention is one of RemotePair, or changes nothing of it.
LEMMA RemoteStep ==
    ASSUME IInv, IInv', [Next]_vars
    PROVE  [Remote!Next]_Remote!vars
  <1>1. CASE UNCHANGED vars
    BY <1>1 DEF vars, Remote!vars, Delivered, WriterAt
  <1>2. CASE Next /\ ~Untouched'
    BY <1>2 DEF Untouched, IInv, TypeOK, Remote!Next, Remote!GiveUp
  <1>3. CASE Next /\ Untouched'
    <2>1. Untouched
      BY <1>3, HistoryStep
    <2>2. TypeOK /\ Safe /\ DoneIsLast /\ TypeOK' /\ Safe' /\ DoneIsLast'
      BY <1>3, <2>1 DEF IInv
    <2>3. OneMoves
      BY <1>3, <2>2, OneMovesStep
    <2>4. (expired \/ orphaned)' = (expired \/ orphaned)
      BY <1>3, <2>1 DEF Untouched
    <2>5. /\ Holds("side") => Sound("media")
          /\ Delivered => Sound("media") /\ Sound("side")
      BY <2>2 DEF Safe, MediaFirst, Committed, DoneIsLast, Delivered, WriterAt
    <2>6. /\ Holds("side")' => Sound("media")'
          /\ Delivered' => Sound("media")' /\ Sound("side")'
      BY <2>2 DEF Safe, MediaFirst, Committed, DoneIsLast, Delivered, WriterAt
    <2>7. Delivered \in BOOLEAN /\ Delivered' \in BOOLEAN
      BY DEF Delivered, WriterAt
    <2>8. CASE \A p \in Part : object'[p] = object[p]
      <3>1. torn' = torn
        BY <1>3, <2>2, <2>8, TornStep
      <3>2. Final' = Final
        BY <2>8 DEF Final
      <3>3. Delivered' => \A p \in Part : Sound(p)
        BY <2>6, <2>8, <3>1 DEF Sound, Holds, Part
      <3>4. CASE Delivered'
        <4>1. Remote!Return
          BY <2>4, <3>1, <3>2, <3>3, <3>4, SoundIsAccepted DEF Remote!Return, Final, Remote!Part, Part
        <4> QED
          BY <4>1 DEF Remote!Next
      <3>5. CASE ~Delivered'
        <4>1. Remote!UploadAgain
          BY <2>4, <2>7, <3>1, <3>2, <3>5 DEF Remote!UploadAgain, Final
        <4> QED
          BY <4>1 DEF Remote!Next
      <3> QED
        BY <3>4, <3>5
    <2>9. ASSUME NEW p \in Part, object'[p] # object[p]
          PROVE  Remote!Next
      <3>1. \A q \in Part \ {p} : object'[q] = object[q]
        BY <2>3, <2>9 DEF OneMoves
      <3>2. object[p] = "absent" /\ object'[p] # "absent"
        BY <2>3, <2>9 DEF OneMoves, Holds
      <3>3. Remote!Commit(p)
        BY <1>3, <2>2, <3>1, <3>2, Committing
      <3>4. CASE p = "media"
        <4>1. ~Delivered
          BY <2>5, <3>2, <3>4 DEF Sound, Holds
        <4>2. ~Delivered'
          <5>1. Holds("side")' => Holds("side")
            BY <3>1, <3>4 DEF Holds, Part
          <5>2. ~Holds("side")
            BY <2>5, <3>2, <3>4 DEF Sound, Holds
          <5> QED
            BY <2>6, <5>1, <5>2 DEF Sound, Holds
        <4>3. Remote!CommitMedia
          BY <2>4, <2>7, <3>3, <3>4, <4>1, <4>2 DEF Remote!CommitMedia
        <4> QED
          BY <4>3 DEF Remote!Next
      <3>5. CASE p = "side"
        <4>1. Sound("media")
          <5>1. Sound("media")'
            BY <2>6, <3>2, <3>5 DEF Holds
          <5>2. object'["media"] = object["media"]
            BY <3>1, <3>5 DEF Part
          <5>3. "media" \in torn' => "media" \in torn
            BY <1>3, <2>2, <5>2, TornStep, Zenon
          <5> QED
            BY <5>1, <5>2, <5>3 DEF Sound, Holds
        <4>2. Delivered' => Sound("side")'
          BY <2>6
        <4>3. Remote!Accepted("media") /\ (Delivered' => Remote!Accepted("side")')
          BY <4>1, <4>2, SoundIsAccepted DEF Part
        <4>4. Remote!CommitSidecar
          BY <2>4, <2>7, <3>3, <3>5, <4>3 DEF Remote!CommitSidecar
        <4> QED
          BY <4>4 DEF Remote!Next
      <3> QED
        BY <3>4, <3>5 DEF Part
    <2> QED
      BY <2>8, <2>9
  <1> QED
    BY <1>1, <1>2, <1>3

\* The transaction is what the outbox takes it for: final objects that come in order, stay
\* as they are, and are both there when write_prepared (storage.py 503-570) returns; one
\* that is not what was sent stops it unless the MOVE was believed.
THEOREM RemoteImplemented == Spec => ImplementsRemotePair
  <1>1. Init => Remote!Init
    <2> SUFFICES ASSUME Init PROVE Remote!Init
      OBVIOUS
    <2>1. /\ \A p \in Part : object[p] = "absent"
          /\ writer.step = "idle" /\ ~expired /\ ~orphaned /\ torn = {}
      BY Names DEF Init, Resting
    <2> QED
      BY <2>1 DEF Remote!Init, Remote!Part, Part, Delivered, WriterAt
  <1>2. IInv /\ IInv' /\ [Next]_vars => [Remote!Next]_Remote!vars
    BY RemoteStep
  <1> QED
    BY <1>1, <1>2, Inductive, PTL DEF Spec, ImplementsRemotePair, Remote!Spec
=============================================================================
