----------------------------- MODULE RemotePair ------------------------------
(***************************************************************************)
(* What the outbox relies on when it uploads a recording: the media gets   *)
(* its final name before the sidecar does, once and for all, in this       *)
(* attempt or late; an upload returns only when both are there; nothing    *)
(* of a recording goes again unless it is given up.                        *)
(*                                                                         *)
(* A part that is not what was sent stops the upload for good, unless the  *)
(* server's word is taken for it: that is the one way in which an upload   *)
(* returns with a damaged recording.                                       *)
(***************************************************************************)
VARIABLES final,    \* [Part -> "absent", "cut" or "whole"] under the final names
          mistaken, \* parts that are cut and taken for whole
          returned, \* the last upload has returned
          givenUp   \* the recording is no longer to be kept

vars == <<final, mistaken, returned, givenUp>>

Part == {"media", "side"}

Accepted(p) == final[p] = "whole" \/ (final[p] # "absent" /\ p \in mistaken)

Init == final = [p \in Part |-> "absent"] /\ mistaken = {} /\ ~returned /\ ~givenUp

Commit(p) ==
    /\ final[p] = "absent"
    /\ \E bytes \in {"cut", "whole"} :
        /\ final' = [final EXCEPT ![p] = bytes]
        /\ mistaken' = mistaken \/ (bytes = "cut" /\ mistaken' = mistaken \cup {p})

CommitMedia == Commit("media") /\ UNCHANGED <<returned, givenUp>>

\* The upload may return with it.
CommitSidecar ==
    /\ Accepted("media")
    /\ Commit("side")
    /\ returned' \in BOOLEAN
    /\ returned' => Accepted("side")'
    /\ UNCHANGED givenUp

Return ==
    /\ \A p \in Part : Accepted(p)
    /\ returned' = TRUE
    /\ UNCHANGED <<final, mistaken, givenUp>>

UploadAgain ==
    /\ returned' = FALSE
    /\ UNCHANGED <<final, mistaken, givenUp>>

GiveUp == givenUp' = TRUE

Next == CommitMedia \/ CommitSidecar \/ Return \/ UploadAgain \/ GiveUp

Spec == Init /\ [][Next]_vars
=============================================================================
