----------------------------- MODULE ConfigStore ------------------------------
(***************************************************************************)
(* The configuration file and its backup, as the browsers of the control   *)
(* console read and save them through the store, while an editor outside   *)
(* the program may change the file too.  A revision is a hash of the       *)
(* content, so it is modelled by the content itself.                       *)
(***************************************************************************)
CONSTANTS Client,  \* threads that serve /api/config
          Content, \* contents of the file
          Valid    \* those that parse_config_text accepts

None == "none"

VARIABLES
    file, backup,
    opened,  \* [Client -> content it read, with its revision]
    saving,  \* [Client -> [step, content]] where its write() is
    edited   \* history: the file was edited since a save compared the revision

vars == <<file, backup, opened, saving, edited>>

Idle == [step |-> "idle", content |-> None]
-----------------------------------------------------------------------------
Init ==
    /\ file \in Valid /\ backup = None
    /\ opened = [c \in Client |-> None]
    /\ saving = [c \in Client |-> Idle]
    /\ edited = FALSE

Step(c, s) == saving' = [saving EXCEPT ![c].step = s]

\* Fault: there is no lock around the save.
Unlocked == TRUE

LockFree == \A c \in Client : saving[c].step \notin {"compared", "backed"}

\* read(); a file that cannot be read answers 409.
Read(c) ==
    /\ saving[c] = Idle
    /\ LockFree
    /\ opened' = [opened EXCEPT ![c] = file]
    /\ UNCHANGED <<file, backup, saving, edited>>

\* write(): validated before the lock is taken; what is not valid answers 422.
Write(c) ==
    /\ saving[c] = Idle
    /\ opened[c] # None
    /\ \E v \in Valid : saving' = [saving EXCEPT ![c] = [step |-> "validated", content |-> v]]
    /\ UNCHANGED <<file, backup, opened, edited>>

\* A conflict answers 409.
Compare(c) ==
    /\ saving[c].step = "validated"
    /\ LockFree
    /\ edited' = FALSE
    /\ IF opened[c] = file THEN Step(c, "compared")
       ELSE saving' = [saving EXCEPT ![c] = Idle]
    /\ UNCHANGED <<file, backup, opened>>

\* _atomic_replace of the backup with the content that was compared.
BackUp(c) ==
    /\ saving[c].step = "compared"
    /\ backup' = opened[c]
    /\ Step(c, "backed")
    /\ UNCHANGED <<file, opened, edited>>

\* _atomic_replace of the file.  The answer carries the new revision.
Replace(c) ==
    /\ saving[c].step = "backed"
    /\ file' = saving[c].content
    /\ opened' = [opened EXCEPT ![c] = saving[c].content]
    /\ saving' = [saving EXCEPT ![c] = Idle]
    /\ UNCHANGED <<backup, edited>>

\* An OSError of read() or of either replacement.
Fail(c) ==
    /\ saving[c] # Idle
    /\ saving[c].step = "validated" => LockFree
    /\ saving' = [saving EXCEPT ![c] = Idle]
    /\ UNCHANGED <<file, backup, opened, edited>>

\* Any content, valid or not, and no lock.
Edit ==
    /\ \E v \in Content \ {file} : file' = v
    /\ edited' = TRUE
    /\ UNCHANGED <<backup, opened, saving>>

\* The process ends at any point; it starts again only with a valid file.
Restart ==
    /\ saving' = [c \in Client |-> Idle]
    /\ UNCHANGED <<file, backup, opened, edited>>

Next ==
    \/ \E c \in Client : Read(c) \/ Write(c) \/ Compare(c) \/ BackUp(c) \/ Replace(c) \/ Fail(c)
    \/ Edit \/ Restart

Spec == Init /\ [][Next]_vars
-----------------------------------------------------------------------------
\* A save replaces the very content its client had opened, and leaves that content
\* in the backup, whichever other save it met, failed or was cut off: nobody's save
\* is lost unread.  Only an editor that comes between the comparison and the
\* replacement is overwritten.
NoLostUpdate ==
    [][\A c \in Client : Replace(c) => edited \/ (file = opened[c] /\ backup = file)]_vars
=============================================================================
