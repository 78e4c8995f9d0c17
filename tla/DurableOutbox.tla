---------------------------- MODULE DurableOutbox ----------------------------
(***************************************************************************)
(* What the disk outbox promises: a recording whose write was acknowledged *)
(* has a durable copy, on the disk or on the remote side, at any time and  *)
(* through any failure; a local copy is given up for nothing less than the *)
(* complete remote one.                                                    *)
(***************************************************************************)
EXTENDS Naturals

CONSTANT Entry

VARIABLES local,     \* entries with a durable local copy
          delivered, \* entries complete on the remote side
          acked      \* entries whose write was acknowledged

vars == <<local, delivered, acked>>

Init == local = {} /\ delivered = {} /\ acked = {}

\* A sync makes local copies durable, at most one of them acknowledged with it.
Store(S, A) ==
    /\ local' = local \cup S
    /\ A \subseteq local' \cup delivered
    /\ acked' = acked \cup A
    /\ UNCHANGED delivered

Deliver(e) ==
    /\ delivered' = delivered \cup {e}
    /\ UNCHANGED <<local, acked>>

\* Local copies go: removed after delivery, or lost before they were promised.
Discard(S) ==
    /\ S \cap acked \subseteq delivered
    /\ local' = local \ S
    /\ UNCHANGED <<delivered, acked>>

Next ==
    \/ \E S, A \in SUBSET Entry : Store(S, A)
    \/ \E S \in SUBSET Entry : Discard(S)
    \/ \E e \in Entry : Deliver(e)

Spec == Init /\ [][Next]_vars
=============================================================================
