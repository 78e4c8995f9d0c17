--------------------------- MODULE FootageStream ----------------------------
(***************************************************************************)
(* What the in-memory archive path promises about the cameras' footage,    *)
(* whatever batching, backpressure, retries and rotation do inside it: the *)
(* segments it accepted reach the backend in order and without a gap, the  *)
(* backend is ahead of what was confirmed by one write at most, and a      *)
(* shutdown that reports a complete drain left none out.  A write may be   *)
(* repeated until it is confirmed, so a segment may be committed twice.    *)
(***************************************************************************)
EXTENDS Naturals

CONSTANT Camera

VARIABLES phase,     \* "open" | "closing" | "drained" | "cut"
          accepted,  \* [Camera -> Nat] segments accepted so far
          archived,  \* [Camera -> SUBSET Nat] positions of those committed
          confirmed  \* [Camera -> SUBSET Nat] of those whose commit was confirmed

vars == <<phase, accepted, archived, confirmed>>

Init ==
    /\ phase = "open"
    /\ accepted = [c \in Camera |-> 0]
    /\ archived = [c \in Camera |-> {}]
    /\ confirmed = [c \in Camera |-> {}]

Accept(c) ==
    /\ phase = "open"
    /\ accepted' = [accepted EXCEPT ![c] = @ + 1]
    /\ UNCHANGED <<phase, archived, confirmed>>

\* The committed footage grows to a longer prefix of what was accepted, and no
\* further before that is confirmed.  A write that a cut left running commits late.
Archive(c) ==
    /\ phase # "drained"
    /\ archived[c] = confirmed[c]
    /\ \E n \in 1..accepted[c] :
         n \notin archived[c] /\ archived' = [archived EXCEPT ![c] = 1..n]
    /\ UNCHANGED <<phase, accepted, confirmed>>

\* What was committed, by now at the latest, is confirmed.
Confirm(c) ==
    /\ phase \in {"open", "closing"}
    /\ \E n \in 1..accepted[c] :
         /\ n \notin confirmed[c]
         /\ archived[c] \in {confirmed[c], 1..n}
         /\ archived' = [archived EXCEPT ![c] = 1..n]
         /\ confirmed' = [confirmed EXCEPT ![c] = 1..n]
    /\ UNCHANGED <<phase, accepted>>

Close ==
    /\ phase = "open"
    /\ phase' = "closing"
    /\ UNCHANGED <<accepted, archived, confirmed>>

Drain ==
    /\ phase = "closing"
    /\ \A c \in Camera : archived[c] = 1..accepted[c] /\ confirmed[c] = 1..accepted[c]
    /\ phase' = "drained"
    /\ UNCHANGED <<accepted, archived, confirmed>>

\* The shutdown deadline passed.
Cut ==
    /\ phase = "closing"
    /\ phase' = "cut"
    /\ UNCHANGED <<accepted, archived, confirmed>>

Next == Close \/ Drain \/ Cut \/ \E c \in Camera : Accept(c) \/ Archive(c) \/ Confirm(c)

Spec == Init /\ [][Next]_vars
=============================================================================
