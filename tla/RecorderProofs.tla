---------------------------- MODULE RecorderProofs ----------------------------
(***************************************************************************)
(* Theorems about four components around the recorder: the configuration   *)
(* store, the log file, the live buffer and, from CameraSupervisorProofs,  *)
(* the supervisor of a camera; and that a behaviour of the whole is one of *)
(* each component, to which its theorems therefore apply.                  *)
(***************************************************************************)
EXTENDS Recorder, Integers, SequencesExt, FiniteSetTheorems, WellFoundedInduction, TLAPS

USE DEF Store!vars, Log!vars, Buffer!vars, Buffer!bufferVars
-----------------------------------------------------------------------------
(* The configuration store.                                                *)

Locked(c) == saving[c].step \in {"compared", "backed"}

\* The base: what the clients' records are made of.
StoreType ==
    /\ edited \in BOOLEAN
    /\ DOMAIN opened = Client
    /\ saving \in [Client -> [step : {"idle", "validated", "compared", "backed"},
                              content : Valid \cup {Store!None}]]

\* The store's lock: one client at a time is between the comparison and the replacement.
OneSave == \A c, d \in Client : Locked(c) /\ Locked(d) => c = d

\* What the comparison established stays true under the lock, unless an editor comes:
\* the client has opened what is in the file, and then it is in the backup as well.
Compared ==
    \A c \in Client :
       /\ Locked(c) => edited \/ file = opened[c]
       /\ saving[c].step = "backed" => backup = opened[c]

StoreInv == StoreType /\ OneSave /\ Compared

\* It holds before the first client has read.
LEMMA StoreStarts == Store!Init => StoreInv
<1>. SUFFICES ASSUME Store!Init PROVE StoreInv
  OBVIOUS
<1>. USE DEF Store!Init, Store!Idle, Store!None
<1>1. StoreType
  BY DEF StoreType
<1>2. \A c \in Client : ~Locked(c)
  BY DEF Locked
<1>3. OneSave /\ Compared
  BY <1>2 DEF OneSave, Compared
<1>. QED
  BY <1>1, <1>3 DEF StoreInv

\* What a client opens or validates is its own matter, and only while it holds no lock.
LEMMA StoreStep == StoreInv /\ [Store!Next]_Store!vars => StoreInv'
<1>. SUFFICES ASSUME StoreInv PROVE [Store!Next]_Store!vars => StoreInv'
  OBVIOUS
<1>. USE DEF Store!None, StoreInv, StoreType, Locked
<1>1. ASSUME NEW c \in Client, Store!Read(c) PROVE StoreInv'
  <2>1. saving[c].step = "idle"
    <3>1. Store!Idle.step = "idle"
      BY DEF Store!Idle
    <3>2. saving[c] = Store!Idle
      BY <1>1 DEF Store!Read
    <3>. QED
      BY <3>1, <3>2, Zenon
  <2>2. /\ opened' = [opened EXCEPT ![c] = file]
        /\ UNCHANGED <<file, backup, saving, edited>>
    BY <1>1 DEF Store!Read
  <2>3. StoreType' /\ OneSave'
    BY <2>2 DEF OneSave
  <2>4. \A d \in Client \ {c} : opened'[d] = opened[d]
    BY <2>2
  <2>5. Compared'
    BY <2>1, <2>2, <2>4 DEF Compared
  <2>. QED
    BY <2>3, <2>5
<1>2. ASSUME NEW c \in Client, Store!Write(c) PROVE StoreInv'
  <2>1. PICK v \in Valid : saving' = [saving EXCEPT ![c] = [step |-> "validated", content |-> v]]
    BY <1>2 DEF Store!Write
  <2>2. UNCHANGED <<file, backup, opened, edited>>
    BY <1>2 DEF Store!Write
  <2>3. StoreType'
    BY <2>1, <2>2
  <2>4. \A d \in Client : saving'[d].step = IF d = c THEN "validated" ELSE saving[d].step
    BY <2>1
  <2>. QED
    BY <2>2, <2>3, <2>4 DEF OneSave, Compared
<1>3. ASSUME NEW c \in Client, Store!Compare(c) PROVE StoreInv'
  <2>1. /\ \A d \in Client : ~Locked(d)
        /\ edited' \in BOOLEAN
        /\ UNCHANGED <<file, backup, opened>>
    BY <1>3 DEF Store!Compare, Store!LockFree
  <2>2. CASE opened[c] = file
    <3>1. saving' = [saving EXCEPT ![c].step = "compared"]
      BY <1>3, <2>2 DEF Store!Compare, Store!Step
    <3>2. StoreType'
      BY <2>1, <3>1
    <3>3. \A d \in Client : saving'[d].step = IF d = c THEN "compared" ELSE saving[d].step
      BY <3>1
    <3>4. OneSave'
      BY <2>1, <3>3 DEF OneSave
    <3>5. Compared'
      BY <2>1, <2>2, <3>3 DEF Compared
    <3>. QED
      BY <3>2, <3>4, <3>5
  <2>3. CASE opened[c] # file
    <3>1. saving' = [saving EXCEPT ![c] = Store!Idle]
      BY <1>3, <2>3 DEF Store!Compare
    <3>2. StoreType'
      BY <2>1, <3>1 DEF Store!Idle
    <3>3. \A d \in Client : saving'[d].step = IF d = c THEN "idle" ELSE saving[d].step
      BY <3>1 DEF Store!Idle
    <3>. QED
      BY <2>1, <3>2, <3>3 DEF OneSave, Compared
  <2>. QED
    BY <2>2, <2>3
<1>4. ASSUME NEW c \in Client, Store!BackUp(c) PROVE StoreInv'
  <2>1. StoreType'
    BY <1>4 DEF Store!BackUp, Store!Step
  <2>2. OneSave'
    BY <1>4, <2>1 DEF Store!BackUp, Store!Step, OneSave
  <2>3. Compared'
    BY <1>4, <2>1 DEF Store!BackUp, Store!Step, OneSave, Compared
  <2>. QED
    BY <2>1, <2>2, <2>3
<1>5. ASSUME NEW c \in Client, Store!Replace(c) PROVE StoreInv'
  <2>1. StoreType'
    BY <1>5 DEF Store!Replace, Store!Idle
  <2>2. OneSave'
    BY <1>5, <2>1 DEF Store!Replace, Store!Idle, OneSave
  <2>3. Compared'
    BY <1>5, <2>1 DEF Store!Replace, Store!Idle, OneSave, Compared
  <2>. QED
    BY <2>1, <2>2, <2>3
<1>6. ASSUME NEW c \in Client, Store!Fail(c) PROVE StoreInv'
  <2>1. StoreType'
    BY <1>6 DEF Store!Fail, Store!Idle
  <2>2. OneSave'
    BY <1>6, <2>1 DEF Store!Fail, Store!Idle, OneSave
  <2>3. Compared'
    BY <1>6, <2>1 DEF Store!Fail, Store!Idle, OneSave, Compared
  <2>. QED
    BY <2>1, <2>2, <2>3
<1>7. CASE Store!Edit
  BY <1>7 DEF Store!Edit, OneSave, Compared
<1>8. CASE Store!Restart
  BY <1>8 DEF Store!Restart, Store!Idle, OneSave, Compared
<1>9. CASE UNCHANGED Store!vars
  BY <1>9 DEF OneSave, Compared
<1>. QED
  BY <1>1, <1>2, <1>3, <1>4, <1>5, <1>6, <1>7, <1>8, <1>9 DEF Store!Next

\* However the saves of any number of clients meet, fail or are cut off, a replacement
\* of the file replaces what its client had opened, which the backup keeps
\* (config_store.py 91-112), unless an editor outside the program came in between.
THEOREM NoSaveLost == Store!Spec => NoLostUpdate
<1>1. ASSUME StoreInv, NEW c \in Client, Store!Replace(c)
      PROVE  edited \/ (file = opened[c] /\ backup = file)
  BY <1>1 DEF StoreInv, Compared, Locked, Store!Replace
<1>2. StoreInv => [\A c \in Client : Store!Replace(c) =>
                      edited \/ (file = opened[c] /\ backup = file)]_Store!vars
  BY <1>1
<1>. QED
  BY StoreStarts, StoreStep, <1>2, PTL DEF Store!Spec, Store!NoLostUpdate, NoLostUpdate
-----------------------------------------------------------------------------
(* The log file.  Only what a file holds matters, so that most of the      *)
(* argument is about sets.                                                 *)

\* The instance of LogFile has its own name for the set of a sequence.
LEMMA SameSet == \A s : Log!ToSet(s) = ToSet(s)
  BY DEF ToSet, Log!ToSet

\* What a concatenation holds.
LEMMA ConcatHolds ==
  ASSUME NEW s \in Seq(Nat), NEW t \in Seq(Nat)
  PROVE  s \o t \in Seq(Nat) /\ ToSet(s \o t) = ToSet(s) \cup ToSet(t)
<1>1. \A i \in DOMAIN s : i \in DOMAIN (s \o t) /\ (s \o t)[i] = s[i]
  OBVIOUS
<1>2. \A i \in DOMAIN t : Len(s) + i \in DOMAIN (s \o t) /\ (s \o t)[Len(s) + i] = t[i]
  OBVIOUS
<1>3. ASSUME NEW i \in DOMAIN (s \o t) PROVE (s \o t)[i] \in ToSet(s) \cup ToSet(t)
  <2>1. CASE i <= Len(s)
    BY <2>1 DEF ToSet
  <2>2. CASE i > Len(s)
    <3>1. i - Len(s) \in DOMAIN t /\ (s \o t)[i] = t[i - Len(s)]
      BY <2>2
    <3>. QED
      BY <3>1 DEF ToSet
  <2>. QED
    BY <2>1, <2>2
<1>4. ToSet(s) \cup ToSet(t) \subseteq ToSet(s \o t)
  BY <1>1, <1>2 DEF ToSet
<1>5. ToSet(s \o t) \subseteq ToSet(s) \cup ToSet(t)
  BY <1>3 DEF ToSet
<1>. QED
  BY <1>4, <1>5

\* What an appended sequence holds.
LEMMA AppendHolds ==
  ASSUME NEW s \in Seq(Nat), NEW e \in Nat
  PROVE  Append(s, e) \in Seq(Nat) /\ ToSet(Append(s, e)) = ToSet(s) \cup {e}
<1>1. Append(s, e) = s \o <<e>> /\ <<e>> \in Seq(Nat)
  OBVIOUS
<1>2. ToSet(<<e>>) = {e}
  BY DEF ToSet
<1>. QED
  BY <1>1, <1>2, ConcatHolds, ZenonT(30)

\* What the beginning of a sequence holds.
LEMMA PrefixHolds ==
  ASSUME NEW s \in Seq(Nat), NEW n \in 0..Len(s)
  PROVE  /\ SubSeq(s, 1, n) \in Seq(Nat) /\ ToSet(SubSeq(s, 1, n)) \subseteq ToSet(s)
         /\ n = Len(s) => ToSet(SubSeq(s, 1, n)) = ToSet(s)
<1>. DEFINE t == SubSeq(s, 1, n)
<1>1. t \in Seq(Nat) /\ DOMAIN t = 1..n
  OBVIOUS
<1>2. \A i \in 1..n : t[i] = s[i]
  OBVIOUS
<1>3. DOMAIN s = 1..Len(s) /\ 1..n \subseteq 1..Len(s)
  OBVIOUS
<1>. HIDE DEF t
<1>4. ToSet(t) \subseteq ToSet(s)
  BY <1>1, <1>2, <1>3 DEF ToSet
<1>5. n = Len(s) => ToSet(s) \subseteq ToSet(t)
  BY <1>1, <1>2, <1>3 DEF ToSet
<1>. QED
  BY <1>1, <1>4, <1>5 DEF t

\* What a file holds is followed, up to line n, by what the same or a younger file holds
\* or the rest: a rotation deletes from the oldest, so nobody misses what it deletes.
Followed(fs, rest, n) ==
    \A i \in 0..BackupCount : \A l \in ToSet(fs[i]) : \A m \in (l + 1)..n :
       m \in rest \/ \E j \in 0..i : m \in ToSet(fs[j])

\* What is pending is followed by what is pending.
Latest(lines, n) == \A l \in ToSet(lines) : (l + 1)..n \subseteq ToSet(lines)

Files == [0..BackupCount -> Seq(Nat)]

LogType == logged \in Nat /\ pending \in Seq(Nat) /\ files \in Files

LogInv ==
    /\ LogType
    /\ Followed(files, ToSet(pending) \cup left, logged)
    /\ Latest(pending, logged)

\* It holds for the empty log.
LEMMA LogStarts ==
  ASSUME BackupCount \in Nat
  PROVE  Log!Init => LogInv
<1>1. ToSet(<<>>) = {}
  BY DEF ToSet
<1>. QED
  BY <1>1 DEF Log!Init, LogInv, LogType, Files, Followed, Latest

\* A rotation that fails after any of its renames keeps it.
LEMMA ShiftFollowed ==
  ASSUME BackupCount \in Nat, files \in Files, NEW d \in 0..(BackupCount + 1),
         NEW rest, NEW n \in Nat, Followed(files, rest, n)
  PROVE  Log!Shifted(d) \in Files /\ Followed(Log!Shifted(d), rest, n)
<1>. DEFINE G == Log!Shifted(d)
<1>1. \A i \in 0..BackupCount :
         G[i] = IF i > d THEN files[i - 1] ELSE IF i = d THEN <<>> ELSE files[i]
  BY DEF Log!Shifted
<1>2. G \in Files
  BY DEF Log!Shifted, Files
<1>3. ToSet(<<>>) = {}
  BY DEF ToSet
<1>4. ASSUME NEW i \in 0..BackupCount, NEW l \in ToSet(G[i]), NEW m \in (l + 1)..n, m \notin rest
      PROVE  \E j \in 0..i : m \in ToSet(G[j])
  <2>1. CASE i < d
    <3>1. PICK j \in 0..i : m \in ToSet(files[j])
      BY <1>1, <1>4, <2>1 DEF Followed
    <3>. QED
      BY <1>1, <2>1, <3>1
  <2>2. CASE i > d
    <3>1. i - 1 \in 0..BackupCount /\ l \in ToSet(files[i - 1])
      BY <1>1, <2>2
    <3>2. PICK j \in 0..(i - 1) : m \in ToSet(files[j])
      BY <1>4, <3>1 DEF Followed
    <3>3. CASE j < d
      BY <1>1, <3>2, <3>3
    <3>4. CASE j >= d
      <4>1. j + 1 \in 0..i /\ G[j + 1] = files[j]
        BY <1>1, <2>2, <3>2, <3>4
      <4>. QED
        BY <3>2, <4>1
    <3>. QED
      BY <3>2, <3>3, <3>4
  <2>. QED
    BY <1>1, <1>3, <2>1, <2>2
<1>. QED
  BY <1>2, <1>4 DEF Followed

\* So does an append, whole or in part, as long as its lines stay pending.
LEMMA AppendFollowed ==
  ASSUME BackupCount \in Nat, NEW fs \in Files, NEW lines \in Seq(Nat), NEW k \in 0..Len(lines),
         NEW others, NEW n \in Nat, Latest(lines, n), Followed(fs, ToSet(lines) \cup others, n),
         NEW G, G = [fs EXCEPT ![0] = @ \o SubSeq(lines, 1, k)]
  PROVE  /\ G \in Files /\ Followed(G, ToSet(lines) \cup others, n)
         /\ k = Len(lines) => Followed(G, others, n)
<1>1. /\ SubSeq(lines, 1, k) \in Seq(Nat) /\ ToSet(SubSeq(lines, 1, k)) \subseteq ToSet(lines)
      /\ k = Len(lines) => ToSet(SubSeq(lines, 1, k)) = ToSet(lines)
  BY PrefixHolds
<1>2. fs[0] \in Seq(Nat) /\ 0 \in 0..BackupCount
  BY DEF Files
<1>3. /\ fs[0] \o SubSeq(lines, 1, k) \in Seq(Nat)
      /\ ToSet(fs[0] \o SubSeq(lines, 1, k)) = ToSet(fs[0]) \cup ToSet(SubSeq(lines, 1, k))
  BY <1>1, <1>2, ConcatHolds
<1>4. G \in Files
  BY <1>3 DEF Files
<1>5. \A i \in 0..BackupCount : i # 0 => G[i] = fs[i]
  BY DEF Files
<1>6. ToSet(G[0]) = ToSet(fs[0]) \cup ToSet(SubSeq(lines, 1, k))
  BY <1>2, <1>3 DEF Files
<1>7. ASSUME NEW i \in 0..BackupCount, NEW l \in ToSet(G[i]), NEW m \in (l + 1)..n
      PROVE  m \in ToSet(lines) \cup others \/ \E j \in 0..i : m \in ToSet(G[j])
  <2>1. CASE l \in ToSet(lines)
    BY <2>1 DEF Latest
  <2>2. CASE l \in ToSet(fs[i])
    <3>1. m \in ToSet(lines) \cup others \/ \E j \in 0..i : m \in ToSet(fs[j])
      BY <2>2 DEF Followed
    <3>. QED
      BY <1>5, <1>6, <3>1
  <2>. QED
    BY <1>1, <1>5, <1>6, <2>1, <2>2
<1>8. Followed(G, ToSet(lines) \cup others, n)
  BY <1>7 DEF Followed
<1>9. ASSUME k = Len(lines) PROVE Followed(G, others, n)
  <2>1. ToSet(lines) \subseteq ToSet(G[0])
    BY <1>1, <1>6, <1>9
  <2>2. \A i \in 0..BackupCount : 0 \in 0..i
    OBVIOUS
  <2>. QED
    BY <1>7, <2>1, <2>2 DEF Followed
<1>. QED
  BY <1>4, <1>8, <1>9

\* A flush of the lines, which fails or does not, wherever it fails.
LEMMA FlushFollowed ==
  ASSUME BackupCount \in Nat, LogType, NEW lines \in Seq(Nat), NEW n \in Nat, Latest(lines, n),
         Followed(files, ToSet(lines) \cup left, n), Log!Flush(lines)
  PROVE  /\ files' \in Files /\ pending' \in Seq(Nat)
         /\ Followed(files', ToSet(pending)' \cup left, n) /\ Latest(pending', n)
<1>1. files \in Files
  BY DEF LogType
<1>2. ToSet(<<>>) = {}
  BY DEF ToSet
<1>3. ASSUME NEW k \in 0..Len(lines), files' = Log!Written(lines, k)
      PROVE  /\ files' \in Files /\ Followed(files', ToSet(lines) \cup left, n)
             /\ k = Len(lines) => Followed(files', left, n)
  <2>. DEFINE R == Log!Rotated(lines)
  <2>1. R \in Files /\ Followed(R, ToSet(lines) \cup left, n)
    BY <1>1, ShiftFollowed DEF Log!Rotated, Log!File
  <2>2. files' = [R EXCEPT ![0] = @ \o SubSeq(lines, 1, k)]
    BY <1>3 DEF Log!Written, Log!File
  <2>. HIDE DEF R
  <2>. QED
    BY <2>1, <2>2, AppendFollowed, ZenonT(30)
<1>4. CASE Log!FlushSucceeds(lines)
  <2>1. files' = Log!Written(lines, Len(lines)) /\ pending' = <<>>
    BY <1>4 DEF Log!FlushSucceeds
  <2>2. files' \in Files /\ Followed(files', left, n)
    BY <1>3, <2>1
  <2>3. pending' \in Seq(Nat) /\ ToSet(pending)' = {}
    BY <1>2, <2>1
  <2>4. ToSet(pending)' \cup left = left
    BY <2>3
  <2>. QED
    BY <1>2, <2>1, <2>2, <2>3, <2>4 DEF Latest
<1>5. CASE Log!FlushFails(lines)
  <2>1. pending' = lines
    BY <1>5 DEF Log!FlushFails
  <2>2. files' \in Files /\ Followed(files', ToSet(lines) \cup left, n)
    <3>1. CASE \E d \in 1..(BackupCount + 1) : files' = Log!Shifted(d)
      BY <1>1, <3>1, ShiftFollowed
    <3>2. CASE \E k \in 0..Len(lines) : files' = Log!Written(lines, k)
      BY <1>3, <3>2
    <3>. QED
      BY <1>5, <3>1, <3>2 DEF Log!FlushFails
  <2>. QED
    BY <2>1, <2>2
<1>. QED
  BY <1>4, <1>5 DEF Log!Flush

\* The next line is pending with those before it, or flushed with them.
LEMMA LogStep ==
  ASSUME BackupCount \in Nat
  PROVE  LogInv /\ [Log!Next]_Log!vars => LogInv'
<1>. SUFFICES ASSUME LogInv PROVE [Log!Next]_Log!vars => LogInv'
  OBVIOUS
<1>1. LogType /\ Followed(files, ToSet(pending) \cup left, logged) /\ Latest(pending, logged)
  BY DEF LogInv
<1>2. CASE Log!Emit
  <2>. DEFINE lines == Append(pending, logged + 1)
  <2>1. /\ logged' = logged + 1 /\ left' = left
        /\ \/ Log!Flush(lines)
           \/ pending' = lines /\ files' = files
    BY <1>2 DEF Log!Emit
  <2>2. lines \in Seq(Nat) /\ ToSet(lines) = ToSet(pending) \cup {logged + 1}
    BY <1>1, AppendHolds DEF LogType
  <2>. HIDE DEF lines
  <2>3. Followed(files, ToSet(lines) \cup left, logged + 1)
    <3>. SUFFICES ASSUME NEW i \in 0..BackupCount, NEW l \in ToSet(files[i]),
                         NEW m \in (l + 1)..(logged + 1)
                  PROVE  \/ m \in ToSet(lines) \cup left
                         \/ \E j \in 0..i : m \in ToSet(files[j])
      BY DEF Followed
    <3>1. l \in Nat /\ logged \in Nat
      BY <1>1, SMTT(30) DEF LogType, Files, ToSet
    <3>2. m = logged + 1 \/ m \in (l + 1)..logged
      BY <3>1
    <3>. QED
      BY <1>1, <2>2, <3>2 DEF Followed
  <2>4. Latest(lines, logged + 1)
    BY <1>1, <2>2 DEF Latest, LogType
  <2>5. /\ files' \in Files /\ pending' \in Seq(Nat)
        /\ Followed(files', ToSet(pending)' \cup left, logged + 1) /\ Latest(pending', logged + 1)
    <3>1. CASE Log!Flush(lines)
      <4>1. logged + 1 \in Nat
        BY <1>1 DEF LogType
      <4>. QED
        BY <1>1, <2>2, <2>3, <2>4, <3>1, <4>1, FlushFollowed
    <3>2. CASE pending' = lines /\ files' = files
      BY <1>1, <2>2, <2>3, <2>4, <3>2 DEF LogType
    <3>. QED
      BY <2>1, <3>1, <3>2
  <2>. QED
    BY <1>1, <2>1, <2>5 DEF LogInv, LogType, Followed, Latest
<1>3. CASE Log!TimedFlush
  <2>1. Log!Flush(pending) /\ UNCHANGED <<logged, left>>
    BY <1>3 DEF Log!TimedFlush
  <2>2. /\ files' \in Files /\ pending' \in Seq(Nat)
        /\ Followed(files', ToSet(pending)' \cup left, logged) /\ Latest(pending', logged)
    BY <1>1, <2>1, FlushFollowed DEF LogType
  <2>. QED
    BY <1>1, <2>1, <2>2 DEF LogInv, LogType, Followed, Latest
<1>4. CASE Log!Restart
  <2>1. /\ pending' = <<>> /\ left' = left \cup ToSet(pending) /\ UNCHANGED <<logged, files>>
    BY <1>4, SameSet DEF Log!Restart
  <2>2. ToSet(pending)' = {}
    BY <2>1 DEF ToSet
  <2>. QED
    BY <1>1, <2>1, <2>2 DEF LogInv, LogType, Followed, Latest
<1>5. CASE UNCHANGED Log!vars
  BY <1>1, <1>5 DEF LogInv, LogType, Followed, Latest, ToSet
<1>. QED
  BY <1>2, <1>3, <1>4, <1>5 DEF Log!Next

\* Any number of lines, files and failures: whoever finds a line in the files finds every
\* later one there or pending (logging_setup.py 103-162), except those that waited in
\* memory when the process ended.
THEOREM LogComplete ==
  ASSUME BackupCount \in Nat
  PROVE  Log!Spec => []NoLineMissing
<1>1. LogInv => NoLineMissing
  <2>. SUFFICES ASSUME LogInv, NEW l \in Log!OnDisk, NEW m \in (l + 1)..logged
                PROVE  m \in Log!OnDisk \cup ToSet(pending) \cup left
    BY SameSet DEF NoLineMissing, Log!NoLineMissing
  <2>1. PICK i \in 0..BackupCount : l \in ToSet(files[i])
    BY SameSet DEF Log!OnDisk
  <2>2. m \in ToSet(pending) \cup left \/ \E j \in 0..i : m \in ToSet(files[j])
    BY <2>1 DEF LogInv, Followed
  <2>. QED
    BY <2>2, SameSet DEF Log!OnDisk
<1>. QED
  BY LogStarts, LogStep, <1>1, PTL DEF Log!Spec
-----------------------------------------------------------------------------
(* The live buffer: its sequence of segments is numbered without a gap, and *)
(* evicting from the oldest end keeps it so.                               *)

\* Where a player finds the tags between segments i and j.
Tags(s, i, j) == {t \in (i + 1)..j : s[t].discontinuity > s[t - 1].discontinuity}

\* A player that counts from any segment to any later one finds that one's numbers.
Numbered(s) ==
    \A i \in DOMAIN s : \A j \in i..Len(s) :
       /\ s[j].sequence = s[i].sequence + (j - i)
       /\ s[j].discontinuity = s[i].discontinuity + Cardinality(Tags(s, i, j))

Entry == [name : Nat, sequence : Nat, discontinuity : Nat, duration : {"own", "default"}]
Entries == Seq(Entry)

\* The last segment that was added is in the buffer, unless none is.
BufferInv ==
    /\ nextSequence \in Nat /\ discontinuities \in Nat
    /\ segments \in Entries
    /\ Numbered(segments)
    /\ segments # <<>> =>
          /\ segments[Len(segments)].sequence + 1 = nextSequence
          /\ segments[Len(segments)].discontinuity = discontinuities

\* What is left when the first d entries are dropped.
LEMMA SuffixEntries ==
  ASSUME NEW s \in Entries, NEW d \in 0..Len(s)
  PROVE  LET r == SubSeq(s, d + 1, Len(s))
         IN  /\ r \in Entries /\ Len(r) = Len(s) - d /\ DOMAIN r = 1..(Len(s) - d)
             /\ \A i \in 1..(Len(s) - d) : r[i] = s[i + d]
  BY DEF Entries

\* There are finitely many tags.
LEMMA TagsFinite ==
  ASSUME NEW s, NEW i \in Int, NEW j \in Int
  PROVE  IsFiniteSet(Tags(s, i, j)) /\ Cardinality(Tags(s, i, j)) \in Nat
<1>1. IsFiniteSet((i + 1)..j) /\ Tags(s, i, j) \in SUBSET ((i + 1)..j)
  BY FS_Interval DEF Tags
<1>2. IsFiniteSet(Tags(s, i, j))
  BY <1>1, FS_Subset
<1>. QED
  BY <1>2, FS_CardinalityType

\* Shifting a set of numbers keeps its size.
LEMMA ShiftSize ==
  ASSUME NEW S, S \subseteq Int, IsFiniteSet(S), NEW T, NEW d \in Int, T = {x + d : x \in S}
  PROVE  Cardinality(T) = Cardinality(S)
<1>. DEFINE f == [x \in S |-> x + d]
<1>1. f \in Bijection(S, T)
  BY DEF Bijection, Injection, Surjection, IsInjective
<1>. QED
  BY <1>1, FS_Bijection DEF ExistsBijection

\* What is left of a numbered sequence when its beginning is dropped.
LEMMA SuffixNumbered ==
  ASSUME NEW s \in Entries, Numbered(s), NEW k \in 0..Len(s)
  PROVE  LET r == SubSeq(s, Len(s) - k + 1, Len(s))
         IN  /\ r \in Entries /\ Len(r) = k /\ Numbered(r)
             /\ k > 0 => r[k] = s[Len(s)]
<1>. DEFINE d == Len(s) - k
            r == SubSeq(s, d + 1, Len(s))
<1>1. Len(s) \in Nat /\ d \in Nat /\ DOMAIN s = 1..Len(s)
  BY DEF Entries
<1>2. r \in Entries /\ Len(r) = k /\ DOMAIN r = 1..k
  <2>1. d \in 0..Len(s) /\ Len(s) - d = k
    BY <1>1
  <2>. QED
    BY <2>1, SuffixEntries
<1>3. \A i \in 1..k : r[i] = s[i + d]
  <2>1. d \in 0..Len(s) /\ Len(s) - d = k
    BY <1>1
  <2>. QED
    BY <2>1, SuffixEntries
<1>. HIDE DEF d, r
<1>4. ASSUME NEW i \in 1..k, NEW j \in i..k
      PROVE  /\ r[j].sequence = r[i].sequence + (j - i)
             /\ r[j].discontinuity = r[i].discontinuity + Cardinality(Tags(r, i, j))
  <2>1. i + d \in 1..Len(s) /\ j + d \in (i + d)..Len(s) /\ j \in 1..k /\ i \in Int /\ j \in Int
    BY <1>1 DEF d
  <2>2. /\ s[j + d].sequence = s[i + d].sequence + ((j + d) - (i + d))
        /\ s[j + d].discontinuity = s[i + d].discontinuity + Cardinality(Tags(s, i + d, j + d))
    BY <1>1, <2>1 DEF Numbered
  <2>3. (j + d) - (i + d) = j - i
    BY <1>1, <2>1
  <2>4. Tags(s, i + d, j + d) = {t + d : t \in Tags(r, i, j)}
    <3>1. ASSUME NEW t \in Int
          PROVE  t \in Tags(r, i, j) <=> t + d \in Tags(s, i + d, j + d)
      <4>1. t \in (i + 1)..j <=> t + d \in ((i + d) + 1)..(j + d)
        BY <1>1, <2>1
      <4>2. ASSUME t \in (i + 1)..j PROVE r[t] = s[t + d] /\ r[t - 1] = s[(t + d) - 1]
        <5>1. t \in 1..k /\ t - 1 \in 1..k /\ (t - 1) + d = (t + d) - 1
          BY <1>1, <4>2
        <5>. QED
          BY <1>3, <5>1
      <4>. QED
        BY <4>1, <4>2 DEF Tags
    <3>2. Tags(r, i, j) \subseteq Int /\ Tags(s, i + d, j + d) \subseteq Int
      BY DEF Tags
    <3>3. ASSUME NEW u \in Tags(s, i + d, j + d) PROVE \E t \in Tags(r, i, j) : u = t + d
      <4>1. u \in Int /\ u - d \in Int /\ (u - d) + d = u
        BY <1>1, <3>2
      <4>. QED
        BY <3>1, <4>1
    <3>. QED
      BY <3>1, <3>2, <3>3
  <2>5. Cardinality(Tags(s, i + d, j + d)) = Cardinality(Tags(r, i, j))
    <3>. DEFINE S == Tags(r, i, j)
                T == Tags(s, i + d, j + d)
    <3>1. S \subseteq Int /\ d \in Int
      BY <1>1 DEF Tags
    <3>2. IsFiniteSet(S)
      BY <2>1, TagsFinite
    <3>3. T = {t + d : t \in S}
      BY <2>4
    <3>. HIDE DEF S, T
    <3>4. Cardinality(T) = Cardinality(S)
      BY <3>1, <3>2, <3>3, ShiftSize
    <3>. QED
      BY <3>4 DEF S, T
  <2>. QED
    BY <1>3, <2>1, <2>2, <2>3, <2>5
<1>5. Numbered(r)
  BY <1>2, <1>4 DEF Numbered
<1>6. k > 0 => r[k] = s[Len(s)]
  BY <1>1, <1>3 DEF d
<1>. QED
  BY <1>2, <1>5, <1>6 DEF r, d

\* A segment with the next number continues the numbering.
LEMMA AppendNumbered ==
  ASSUME NEW s \in Entries, Numbered(s), NEW e \in Entry,
         s # <<>> => /\ e.sequence = s[Len(s)].sequence + 1
                     /\ e.discontinuity \in {s[Len(s)].discontinuity, s[Len(s)].discontinuity + 1}
  PROVE  Append(s, e) \in Entries /\ Numbered(Append(s, e))
<1>. DEFINE r == Append(s, e)
            n == Len(s)
<1>1. n \in Nat /\ DOMAIN s = 1..n
  BY DEF Entries
<1>2. r \in Entries /\ Len(r) = n + 1 /\ DOMAIN r = 1..(n + 1)
  BY DEF Entries
<1>3. r[n + 1] = e /\ \A i \in 1..n : r[i] = s[i]
  BY DEF Entries
<1>4. \A i \in 1..n : s[i].sequence \in Nat /\ s[i].discontinuity \in Nat
  <2>1. \A i \in 1..n : s[i] \in Entry
    BY <1>1 DEF Entries
  <2>. QED
    BY <2>1 DEF Entry
<1>5. e.sequence \in Nat /\ e.discontinuity \in Nat
  BY DEF Entry
<1>6. n > 0 => s # <<>>
  OBVIOUS
<1>. HIDE DEF r, n
<1>7. ASSUME NEW i \in 1..(n + 1), NEW j \in i..(n + 1)
      PROVE  /\ r[j].sequence = r[i].sequence + (j - i)
             /\ r[j].discontinuity = r[i].discontinuity + Cardinality(Tags(r, i, j))
  <2>1. CASE j <= n
    <3>1. i \in 1..n /\ j \in 1..n /\ j \in i..n
      BY <1>1, <2>1
    <3>2. Tags(r, i, j) = Tags(s, i, j)
      <4>1. \A t \in (i + 1)..j : r[t] = s[t] /\ r[t - 1] = s[t - 1]
        BY <1>1, <1>3, <3>1
      <4>. QED
        BY <4>1 DEF Tags
    <3>. QED
      BY <1>1, <1>3, <3>1, <3>2 DEF Numbered, n
  <2>2. CASE i = n + 1
    <3>1. Tags(r, i, j) = {} /\ j = i
      BY <1>1, <2>2 DEF Tags
    <3>2. Cardinality(Tags(r, i, j)) = 0
      BY <3>1, FS_EmptySet
    <3>. QED
      BY <1>1, <1>3, <1>5, <2>2, <3>1, <3>2
  <2>3. CASE i <= n /\ j = n + 1
    <3>1. i \in 1..n /\ n \in 1..n /\ n \in i..n /\ i \in Int /\ n \in Int
      BY <1>1, <2>3
    <3>2. /\ s[n].sequence = s[i].sequence + (n - i)
          /\ s[n].discontinuity = s[i].discontinuity + Cardinality(Tags(s, i, n))
      BY <1>1, <3>1 DEF Numbered, n
    <3>3. /\ e.sequence = s[n].sequence + 1
          /\ e.discontinuity \in {s[n].discontinuity, s[n].discontinuity + 1}
      BY <1>6, <3>1 DEF n
    <3>4. IsFiniteSet(Tags(s, i, n)) /\ Cardinality(Tags(s, i, n)) \in Nat
      BY <3>1, TagsFinite
    <3>5. \A t \in (i + 1)..n : r[t] = s[t] /\ r[t - 1] = s[t - 1]
      BY <1>1, <1>3, <3>1
    <3>6. (n + 1) - 1 = n /\ n + 1 \in (i + 1)..(n + 1) /\ n + 1 \notin Tags(s, i, n)
      BY <1>1, <3>1 DEF Tags
    <3>7. Tags(r, i, j) = IF e.discontinuity > s[n].discontinuity
                          THEN Tags(s, i, n) \cup {n + 1} ELSE Tags(s, i, n)
      <4>1. (i + 1)..(n + 1) = ((i + 1)..n) \cup {n + 1}
        BY <1>1, <3>1
      <4>2. r[n + 1] = e /\ r[(n + 1) - 1] = s[n]
        BY <1>3, <3>1, <3>6
      <4>. QED
        BY <2>3, <3>5, <4>1, <4>2 DEF Tags
    <3>8. Cardinality(Tags(s, i, n) \cup {n + 1}) = Cardinality(Tags(s, i, n)) + 1
      BY <3>4, <3>6, FS_AddElement
    <3>9. e.discontinuity = s[i].discontinuity + Cardinality(Tags(r, i, j))
      <4>. DEFINE C == Cardinality(Tags(s, i, n))
      <4>1. /\ C \in Nat /\ s[i].discontinuity \in Nat
            /\ s[n].discontinuity = s[i].discontinuity + C
        BY <1>4, <3>1, <3>2, <3>4
      <4>2. CASE e.discontinuity > s[n].discontinuity
        <5>1. Cardinality(Tags(r, i, j)) = C + 1
          BY <3>7, <3>8, <4>2
        <5>2. e.discontinuity = s[n].discontinuity + 1
          BY <1>4, <3>1, <3>3, <4>2
        <5>. HIDE DEF C
        <5>. QED
          BY <4>1, <5>1, <5>2, SMTT(30)
      <4>3. CASE ~(e.discontinuity > s[n].discontinuity)
        <5>1. Cardinality(Tags(r, i, j)) = C
          BY <3>7, <4>3
        <5>2. e.discontinuity = s[n].discontinuity
          BY <1>4, <3>1, <3>3, <4>3
        <5>. HIDE DEF C
        <5>. QED
          BY <4>1, <5>1, <5>2
      <4>. QED
        BY <4>2, <4>3
    <3>10. e.sequence = s[i].sequence + (j - i)
      <4>1. /\ s[i].sequence \in Int /\ i \in Int /\ n \in Int /\ j = n + 1
            /\ s[n].sequence = s[i].sequence + (n - i)
            /\ e.sequence = s[n].sequence + 1
        BY <1>4, <2>3, <3>1, <3>2, <3>3
      <4>. HIDE DEF n
      <4>. QED
        BY <4>1
    <3>. QED
      BY <1>3, <2>3, <3>1, <3>9, <3>10
  <2>. QED
    BY <1>1, <2>1, <2>2, <2>3
<1>8. Numbered(r)
  BY <1>2, <1>7 DEF Numbered
<1>. QED
  BY <1>2, <1>8 DEF r

\* The largest number of a bounded, non-empty set.
LEMMA MaxExists ==
  ASSUME NEW n \in Nat, NEW S, S \subseteq 0..n, S # {}
  PROVE  Buffer!Max(S) \in S
<1>. DEFINE T == {n - x : x \in S}
            R == OpToRel(<, Nat)
<1>1. S \subseteq Nat /\ \A x \in S : n - x \in Nat
  OBVIOUS
<1>2. T \subseteq Nat /\ T # {}
  BY <1>1
<1>3. PICK t \in T : \A y \in T : <<y, t>> \notin R
  BY <1>2, NatLessThanWellFounded, WFMin
<1>4. ASSUME NEW y \in T
      PROVE  t <= y
  <2>1. y \in Nat /\ t \in Nat
    BY <1>2
  <2>2. y < t => <<y, t>> \in R
    BY <2>1, Zenon DEF OpToRel
  <2>3. ~(y < t)
    BY <1>3, <2>2
  <2>. HIDE DEF R
  <2>. QED
    BY <2>1, <2>3
<1>5. PICK x \in S : t = n - x
  OBVIOUS
<1>. HIDE DEF R
<1>6. ASSUME NEW y \in S PROVE x >= y
  <2>1. n - x <= n - y
    BY <1>4, <1>5
  <2>. QED
    BY <1>1, <2>1
<1>. QED
  BY <1>6 DEF Buffer!Max

\* Evicting leaves the last segments.
LEMMA EvictIsSuffix ==
  ASSUME NEW s \in Entries
  PROVE  \E k \in 0..Len(s) : Buffer!Evict(s) = SubSeq(s, Len(s) - k + 1, Len(s))
<1>1. PICK k \in 0..Len(s) : Buffer!Evict(s) = Buffer!Newest(s, k)
  <2>. DEFINE small(k) == k <= Window /\ Buffer!Bytes(Buffer!Newest(s, k)) <= BufferBytes
              fits == {k \in 0..Len(s) : k = 0 \/ small(k)}
  <2>1. Len(s) \in Nat
    BY DEF Entries
  <2>2. fits \subseteq 0..Len(s) /\ 0 \in fits
    BY <2>1
  <2>3. Buffer!Evict(s) = Buffer!Newest(s, Buffer!Max(fits))
    BY DEF Buffer!Evict
  <2>. HIDE DEF fits
  <2>. QED
    BY <2>1, <2>2, <2>3, MaxExists
<1>2. Buffer!Newest(s, k) = SubSeq(s, Len(s) - k + 1, Len(s))
  <2>1. Len(s) - k \in Nat
    BY DEF Entries
  <2>2. Buffer!Max({Len(s) - k, 0}) = Len(s) - k
    BY <2>1 DEF Buffer!Max
  <2>. QED
    BY <2>2 DEF Buffer!Newest
<1>. QED
  BY <1>1, <1>2

\* Evicting keeps the numbering, and the last segment unless all go.
LEMMA EvictNumbered ==
  ASSUME NEW s \in Entries, Numbered(s)
  PROVE  /\ Buffer!Evict(s) \in Entries /\ Numbered(Buffer!Evict(s))
         /\ Buffer!Evict(s) # <<>> => Buffer!Evict(s)[Len(Buffer!Evict(s))] = s[Len(s)]
<1>1. PICK k \in 0..Len(s) : Buffer!Evict(s) = SubSeq(s, Len(s) - k + 1, Len(s))
  BY EvictIsSuffix
<1>. DEFINE r == SubSeq(s, Len(s) - k + 1, Len(s))
<1>2. r \in Entries /\ Len(r) = k /\ Numbered(r) /\ (k > 0 => r[k] = s[Len(s)])
  BY SuffixNumbered
<1>. HIDE DEF r
<1>3. r # <<>> => k > 0
  BY <1>2 DEF Entries
<1>. QED
  BY <1>1, <1>2, <1>3 DEF r

\* The instance counts as this module does.
LEMMA SameCardinality == \A S : Buffer!Cardinality(S) = Cardinality(S)
  BY Zenon DEF Buffer!Cardinality, Cardinality

\* It holds for the empty buffer.
LEMMA BufferStarts == Buffer!Init => BufferInv
  BY DEF Buffer!Init, BufferInv, Numbered, Entries

\* Every step keeps it; what is stored is numbered on, and a playlist changes durations only.
LEMMA BufferStep ==
  ASSUME Stream \in Seq(Nat)
  PROVE  BufferInv /\ [Buffer!Next]_Buffer!vars => BufferInv'
<1>. SUFFICES ASSUME BufferInv PROVE [Buffer!Next]_Buffer!vars => BufferInv'
  OBVIOUS
<1>1. ASSUME NEW n \in DOMAIN Stream, Buffer!ReceiveSegment(n) PROVE BufferInv'
  <2>. DEFINE e == [name |-> n, sequence |-> nextSequence, discontinuity |-> discontinuities',
                    duration |-> IF n \in Buffer!ToSet(hints) THEN "own" ELSE "default"]
              all == Append(segments, e)
  <2>1. CASE UNCHANGED Buffer!bufferVars
    BY <2>1 DEF BufferInv
  <2>2. CASE Buffer!Follow(n) /\ Buffer!Store(n)
    <3>1. discontinuities' \in {discontinuities, discontinuities + 1}
      BY <2>2 DEF Buffer!Follow
    <3>2. segments' = Buffer!Evict(all) /\ nextSequence' = nextSequence + 1
      BY <2>2 DEF Buffer!Store
    <3>3. n \in Nat
      OBVIOUS
    <3>4. nextSequence \in Nat /\ discontinuities' \in Nat
      BY <3>1 DEF BufferInv
    <3>5. e \in Entry
      BY <3>3, <3>4 DEF Entry
    <3>6. /\ e.sequence = nextSequence /\ e.discontinuity = discontinuities'
      OBVIOUS
    <3>. HIDE DEF e
    <3>7. segments # <<>> => /\ segments[Len(segments)].sequence + 1 = e.sequence
                             /\ e.discontinuity \in {segments[Len(segments)].discontinuity,
                                                     segments[Len(segments)].discontinuity + 1}
      BY <3>1, <3>6 DEF BufferInv
    <3>8. all \in Entries /\ Numbered(all)
      BY <3>5, <3>7, AppendNumbered DEF BufferInv
    <3>9. all[Len(all)] = e
      BY <3>5 DEF BufferInv, Entries
    <3>. HIDE DEF all
    <3>10. /\ segments' \in Entries /\ Numbered(segments')
           /\ segments' # <<>> => segments'[Len(segments')] = e
      BY <3>2, <3>8, <3>9, EvictNumbered
    <3>11. segments' # <<>> => /\ segments'[Len(segments')].sequence + 1 = nextSequence'
                               /\ segments'[Len(segments')].discontinuity = discontinuities'
      BY <3>2, <3>6, <3>10
    <3>12. nextSequence' \in Nat /\ discontinuities' \in Nat
      BY <3>2, <3>4, SMTT(30)
    <3>. QED
      BY <3>10, <3>11, <3>12 DEF BufferInv, Numbered, Tags
  <2>. QED
    BY <1>1, <2>1, <2>2 DEF Buffer!ReceiveSegment, Buffer!AddSegment
<1>2. ASSUME NEW n, Buffer!ReceivePlaylist(n) PROVE BufferInv'
  <2>1. /\ segments' = [i \in DOMAIN segments |->
                            IF segments[i].name \in Buffer!Listed(n)
                            THEN [segments[i] EXCEPT !.duration = "own"] ELSE segments[i]]
        /\ UNCHANGED <<nextSequence, discontinuities>>
    BY <1>2 DEF Buffer!ReceivePlaylist, Buffer!ApplyPlaylist
  <2>2. DOMAIN segments = 1..Len(segments) /\ Len(segments) \in Nat
        /\ \A i \in 1..Len(segments) : segments[i] \in Entry
    BY DEF BufferInv, Entries
  <2>3. \A i \in 1..Len(segments) :
           /\ segments'[i] \in Entry
           /\ segments'[i].sequence = segments[i].sequence
           /\ segments'[i].discontinuity = segments[i].discontinuity
    BY <2>1, <2>2 DEF Entry
  <2>4. /\ segments' \in Entries
        /\ Len(segments') = Len(segments) /\ DOMAIN segments' = DOMAIN segments
    BY <2>1, <2>2, <2>3 DEF Entries
  <2>5. \A i \in 1..Len(segments) : \A j \in i..Len(segments) :
           Tags(segments', i, j) = Tags(segments, i, j)
    <3>1. ASSUME NEW i \in 1..Len(segments), NEW j \in i..Len(segments)
          PROVE  Tags(segments', i, j) = Tags(segments, i, j)
      <4>1. \A t \in (i + 1)..j : t \in 1..Len(segments) /\ t - 1 \in 1..Len(segments)
        BY <2>2
      <4>. QED
        BY <2>3, <4>1 DEF Tags
    <3>. QED
      BY <3>1
  <2>6. Numbered(segments')
    <3>1. ASSUME NEW i \in 1..Len(segments), NEW j \in i..Len(segments)
          PROVE  /\ segments'[j].sequence = segments'[i].sequence + (j - i)
                 /\ segments'[j].discontinuity =
                       segments'[i].discontinuity + Cardinality(Tags(segments', i, j))
      <4>1. j \in 1..Len(segments)
        BY <2>2
      <4>. QED
        BY <2>2, <2>3, <2>5, <4>1, ZenonT(30) DEF BufferInv, Numbered
    <3>. QED
      BY <2>2, <2>4, <3>1 DEF Numbered
  <2>7. segments' # <<>> => /\ segments # <<>> /\ Len(segments) \in 1..Len(segments)
    BY <2>2, <2>4 DEF Entries
  <2>8. segments' # <<>> => /\ segments'[Len(segments')].sequence + 1 = nextSequence'
                            /\ segments'[Len(segments')].discontinuity = discontinuities'
    BY <2>1, <2>3, <2>4, <2>7 DEF BufferInv
  <2>. QED
    BY <2>1, <2>4, <2>6, <2>8 DEF BufferInv, Numbered, Tags
<1>3. CASE Buffer!Make \/ Buffer!Lost \/ UNCHANGED Buffer!vars
  <2>1. UNCHANGED <<segments, nextSequence, discontinuities>>
    BY <1>3 DEF Buffer!Make, Buffer!Lost
  <2>. QED
    BY <2>1 DEF BufferInv, Numbered, Tags
<1>. QED
  BY <1>1, <1>2, <1>3 DEF Buffer!Next, Buffer!Name

\* Whatever number of segments, streams, sizes and limits, and whatever is lost, late or
\* sent twice: a player that counts from the playlist's header (buffer.py 131-159) comes
\* to every segment's own numbers.
THEOREM PlaylistCounts ==
  ASSUME Stream \in Seq(Nat)
  PROVE  Buffer!Spec => []PlaylistNumbersSegments
<1>1. BufferInv => PlaylistNumbersSegments
  <2>0. /\ Buffer!Rendered.mediaSequence = segments[1].sequence
        /\ Buffer!Rendered.discontinuitySequence = segments[1].discontinuity
        /\ Buffer!Rendered.tagged = {i \in 2..Len(segments) :
                          segments[i].discontinuity > segments[i - 1].discontinuity}
    BY DEF Buffer!Rendered
  <2>. SUFFICES ASSUME BufferInv, NEW i \in DOMAIN segments
                PROVE  /\ Buffer!Rendered.mediaSequence + i - 1 = segments[i].sequence
                       /\ Buffer!Rendered.discontinuitySequence
                             + Cardinality({t \in Buffer!Rendered.tagged : t <= i})
                             = segments[i].discontinuity
    BY SameCardinality DEF PlaylistNumbersSegments, Buffer!PlaylistNumbersSegments
  <2>1. /\ DOMAIN segments = 1..Len(segments) /\ Len(segments) \in Nat
        /\ \A j \in 1..Len(segments) : segments[j] \in Entry
    BY DEF BufferInv, Entries
  <2>2. 1 \in 1..Len(segments) /\ i \in 1..Len(segments)
    BY <2>1
  <2>3. {t \in Buffer!Rendered.tagged : t <= i} = Tags(segments, 1, i)
    BY <2>0, <2>1, <2>2 DEF Tags
  <2>4. /\ segments[i].sequence = segments[1].sequence + (i - 1)
        /\ segments[i].discontinuity = segments[1].discontinuity + Cardinality(Tags(segments, 1, i))
    BY <2>1, <2>2 DEF BufferInv, Numbered
  <2>5. segments[1].sequence \in Nat
    BY <2>1, <2>2 DEF Entry
  <2>. QED
    BY <2>0, <2>2, <2>3, <2>4, <2>5
<1>. QED
  BY BufferStarts, BufferStep, <1>1, PTL DEF Buffer!Spec
-----------------------------------------------------------------------------
(* The durations in the live buffer.                                       *)

\* No name is there twice, and each is less than d ahead of those that come after it.
Spread(s, d) ==
    \A i \in DOMAIN s : \A j \in (i + 1)..Len(s) : s[i] # s[j] /\ s[i] < s[j] + d

Made == 1..made

\* The hints are spread by the lag of a playlist and its window, the names by the lag of a
\* segment.  A segment that may still be sent is a duplicate only if its name is
\* remembered, and what was announced for it is either used or hinted.
HintInv ==
    /\ made \in Nat /\ announced \subseteq Made
    /\ \A r \in requests : r[2] \in Made /\ r[2] + Lag > made
    /\ hints \in Seq(Made) /\ Spread(hints, Lag + Window - 1)
    /\ recent \in Seq(Made) /\ Spread(recent, Lag)
    /\ \A i \in DOMAIN segments : segments[i].name \in Made
    /\ \A n : <<"segment", n>> \in requests =>
          /\ Buffer!InBuffer(n) => n \in Buffer!ToSet(recent)
          /\ n \in announced => n \in Buffer!ToSet(hints) \cup Buffer!ToSet(recent)

DurationInv == BufferInv /\ HintInv /\ DurationIsAnnounced

\* The newest k entries are what follows some d first ones, none when there are at most k.
LEMMA NewestIsSuffix ==
  ASSUME NEW S, NEW s \in Seq(S), NEW k \in Nat
  PROVE  \E d \in 0..Len(s) : /\ Buffer!Newest(s, k) = SubSeq(s, d + 1, Len(s))
                              /\ d = 0 \/ d + k = Len(s)
<1>1. CASE Len(s) > k
  <2>1. Len(s) - k \in 0..Len(s) /\ Len(s) - k > 0 /\ (Len(s) - k) + k = Len(s)
    BY <1>1
  <2>2. Buffer!Max({Len(s) - k, 0}) = Len(s) - k
    BY <2>1 DEF Buffer!Max
  <2>. QED
    BY <2>1, <2>2 DEF Buffer!Newest
<1>2. CASE Len(s) <= k
  <2>1. Buffer!Max({Len(s) - k, 0}) = 0
    BY <1>2 DEF Buffer!Max
  <2>2. Buffer!Newest(s, k) = SubSeq(s, 0 + 1, Len(s))
    BY <2>1, Zenon DEF Buffer!Newest
  <2>3. 0 \in 0..Len(s)
    OBVIOUS
  <2>. QED
    BY <2>2, <2>3
<1>. QED
  BY <1>1, <1>2

\* Dropping the oldest entries keeps the rest as spread as it was.
LEMMA NewestSpread ==
  ASSUME NEW S, S \subseteq Nat, NEW s \in Seq(S), NEW k \in Nat, NEW d \in Int, Spread(s, d)
  PROVE  Buffer!Newest(s, k) \in Seq(S) /\ Spread(Buffer!Newest(s, k), d)
<1>1. PICK x \in 0..Len(s) : Buffer!Newest(s, k) = SubSeq(s, x + 1, Len(s))
  BY NewestIsSuffix
<1>. DEFINE r == SubSeq(s, x + 1, Len(s))
<1>2. /\ r \in Seq(S) /\ Len(r) = Len(s) - x /\ DOMAIN r = 1..(Len(s) - x)
      /\ \A i \in 1..(Len(s) - x) : r[i] = s[i + x]
  OBVIOUS
<1>. HIDE DEF r
<1>3. ASSUME NEW i \in DOMAIN r, NEW j \in (i + 1)..Len(r)
      PROVE  r[i] # r[j] /\ r[i] < r[j] + d
  <2>1. /\ i + x \in DOMAIN s /\ j + x \in ((i + x) + 1)..Len(s)
        /\ r[i] = s[i + x] /\ r[j] = s[j + x]
    <3>1. /\ DOMAIN s = 1..Len(s) /\ Len(s) \in Nat /\ x \in Nat
          /\ i \in 1..(Len(s) - x) /\ j \in (i + 1)..(Len(s) - x)
      BY <1>2
    <3>2. j \in 1..(Len(s) - x)
      BY <3>1
    <3>3. r[i] = s[i + x] /\ r[j] = s[j + x]
      BY <1>2, <3>1, <3>2
    <3>. QED
      BY <3>1, <3>2, <3>3
  <2>. QED
    BY <2>1 DEF Spread
<1>. QED
  BY <1>1, <1>2, <1>3 DEF Spread, r

\* A new name may follow those that are less than d ahead of it.
LEMMA AppendSpread ==
  ASSUME NEW s \in Seq(Made), NEW d \in Int, Spread(s, d), made \in Nat,
         NEW m \in Made, m \notin Buffer!ToSet(s), m + d > made
  PROVE  Append(s, m) \in Seq(Made) /\ Spread(Append(s, m), d)
<1>. DEFINE r == Append(s, m)
<1>1. /\ r \in Seq(Made) /\ Len(r) = Len(s) + 1 /\ DOMAIN r = 1..(Len(s) + 1)
      /\ DOMAIN s = 1..Len(s) /\ Len(s) \in Nat
      /\ r[Len(s) + 1] = m /\ \A i \in 1..Len(s) : r[i] = s[i] /\ s[i] \in Made
  OBVIOUS
<1>. HIDE DEF r
<1>2. ASSUME NEW i \in DOMAIN r, NEW j \in (i + 1)..Len(r)
      PROVE  r[i] # r[j] /\ r[i] < r[j] + d
  <2>1. i \in DOMAIN s /\ r[i] = s[i] /\ s[i] \in Made
    BY <1>1
  <2>2. CASE j <= Len(s)
    <3>1. j \in (i + 1)..Len(s) /\ r[j] = s[j]
      BY <1>1, <2>2
    <3>. QED
      BY <2>1, <3>1 DEF Spread
  <2>3. CASE j = Len(s) + 1
    <3>1. s[i] \in Buffer!ToSet(s) /\ s[i] <= made /\ s[i] \in Nat /\ m \in Nat
      BY <2>1 DEF Buffer!ToSet, Made
    <3>. QED
      BY <1>1, <2>1, <2>3, <3>1
  <2>. QED
    BY <1>1, <2>2, <2>3
<1>. QED
  BY <1>1, <1>2 DEF Spread, r

\* As many names as the lag and the spread leave room for do not push out one whose
\* request may still come.
LEMMA NewestKeeps ==
  ASSUME made \in Nat, NEW s \in Seq(Made), NEW d \in Nat \ {0}, Spread(s, d),
         NEW limit \in Nat, Lag + d <= limit + 1,
         NEW p \in DOMAIN s, s[p] + Lag > made
  PROVE  s[p] \in Buffer!ToSet(Buffer!Newest(s, limit))
<1>. DEFINE k == s[p]
<1>1. /\ DOMAIN s = 1..Len(s) /\ Len(s) \in Nat /\ p \in 1..Len(s)
      /\ \A i \in 1..Len(s) : s[i] \in Nat /\ s[i] <= made
      /\ Lag \in Nat \ {0}
  BY BufferAssumption DEF Made
<1>2. PICK x \in 0..Len(s) : /\ Buffer!Newest(s, limit) = SubSeq(s, x + 1, Len(s))
                             /\ x = 0 \/ x + limit = Len(s)
  BY NewestIsSuffix
<1>3. x < p
  <2>. SUFFICES ASSUME x >= p PROVE FALSE
    BY <1>1
  <2>1. limit <= Len(s) - p
    <3>. DEFINE n == Len(s)
    <3>1. n \in Nat /\ p \in 1..n /\ x \in 0..n /\ (x = 0 \/ x + limit = n)
      BY <1>1, <1>2, Zenon
    <3>. HIDE DEF n
    <3>2. limit <= n - p
      BY <3>1
    <3>. QED
      BY <3>2 DEF n
  <2>. DEFINE After == (p + 1)..Len(s)
              Wide == ((k - d) + 1)..((k + Lag) - 1)
              Room == Wide \ {k}
              f == [i \in After |-> s[i]]
  <2>2. \A i \in After : i \in 1..Len(s) /\ s[i] \in Room
    <3>1. ASSUME NEW i \in After PROVE i \in 1..Len(s) /\ s[i] # k /\ k < s[i] + d /\ s[i] <= made
      BY <1>1 DEF Spread
    <3>. QED
      BY <1>1, <3>1
  <2>3. \A i \in After : \A j \in After : s[i] = s[j] => i = j
    <3>1. ASSUME NEW i \in After, NEW j \in After, i < j PROVE s[i] # s[j]
      <4>1. i \in DOMAIN s /\ j \in (i + 1)..Len(s)
        BY <1>1, <3>1
      <4>. QED
        BY <4>1 DEF Spread
    <3>. QED
      BY <1>1, <3>1
  <2>4. f \in Injection(After, Room)
    BY <2>2, <2>3 DEF Injection, IsInjective
  <2>5. IsFiniteSet(Wide) /\ Cardinality(Wide) = (d + Lag) - 1 /\ k \in Wide
    <3>1. k \in Nat
      BY <1>1
    <3>. HIDE DEF k
    <3>2. /\ (k - d) + 1 \in Int /\ (k + Lag) - 1 \in Int
          /\ ~((k - d) + 1 > (k + Lag) - 1) /\ k \in Wide
          /\ (((k + Lag) - 1) - ((k - d) + 1)) + 1 = (d + Lag) - 1
      BY <1>1, <3>1
    <3>. QED
      BY <3>2, FS_Interval
  <2>6. IsFiniteSet(Room) /\ Cardinality(Room) = (d + Lag) - 2
    <3>. HIDE DEF Wide, k
    <3>1. IsFiniteSet(Room) /\ Cardinality(Room) = ((d + Lag) - 1) - 1
      BY <2>5, FS_RemoveElement
    <3>. HIDE DEF Room
    <3>. QED
      BY <1>1, <3>1
  <2>7. Cardinality(After) <= Cardinality(Room) /\ Cardinality(After) = Len(s) - p
    <3>1. Cardinality(After) = Len(s) - p
      <4>. DEFINE n == Len(s)
      <4>1. n \in Nat /\ p \in 1..n
        BY <1>1, Zenon
      <4>. HIDE DEF n
      <4>2. /\ p + 1 \in Int /\ n \in Int
            /\ IF p + 1 > n THEN n - p = 0 ELSE (n - (p + 1)) + 1 = n - p
        BY <4>1
      <4>3. Cardinality((p + 1)..n) = n - p
        BY <4>2, FS_Interval
      <4>. QED
        BY <4>3 DEF n
    <3>. QED
      BY <2>4, <2>6, <3>1, FS_Injection
  <2>. HIDE DEF Room, After
  <2>. QED
    BY <1>1, <2>1, <2>6, <2>7
<1>4. p - x \in 1..(Len(s) - x) /\ (p - x) + x = p
  BY <1>1, <1>3
<1>5. s[p] = SubSeq(s, x + 1, Len(s))[p - x] /\ p - x \in DOMAIN SubSeq(s, x + 1, Len(s))
  BY <1>1, <1>4
<1>. QED
  BY <1>2, <1>5 DEF Buffer!ToSet

\* A new name stays spread among the newest ones, and those whose request may still come
\* stay with it.
LEMMA AddedIsKept ==
  ASSUME made \in Nat, NEW s \in Seq(Made), NEW d \in Nat \ {0}, Spread(s, d),
         NEW limit \in Nat, Lag + d <= limit + 1,
         NEW m \in Made, m \notin Buffer!ToSet(s), m + d > made
  PROVE  LET r == Buffer!Newest(Append(s, m), limit)
         IN  /\ r \in Seq(Made) /\ Spread(r, d)
             /\ \A k \in Buffer!ToSet(s) \cup {m} : k + Lag > made => k \in Buffer!ToSet(r)
<1>. DEFINE t == Append(s, m)
<1>1. t \in Seq(Made) /\ Spread(t, d)
  BY AppendSpread
<1>2. ASSUME NEW k \in Buffer!ToSet(s) \cup {m} PROVE \E p \in DOMAIN t : t[p] = k
  <2>1. /\ DOMAIN t = 1..(Len(s) + 1) /\ DOMAIN s = 1..Len(s) /\ Len(s) \in Nat
        /\ t[Len(s) + 1] = m /\ \A i \in 1..Len(s) : t[i] = s[i]
    OBVIOUS
  <2>2. Len(s) + 1 \in DOMAIN t /\ DOMAIN s \subseteq DOMAIN t
    BY <2>1
  <2>. HIDE DEF t
  <2>. QED
    BY <2>1, <2>2 DEF Buffer!ToSet
<1>. HIDE DEF t
<1>3. Buffer!Newest(t, limit) \in Seq(Made) /\ Spread(Buffer!Newest(t, limit), d)
  <2>1. Made \subseteq Nat /\ d \in Int
    BY DEF Made
  <2>. QED
    BY <1>1, <2>1, NewestSpread
<1>4. ASSUME NEW k \in Buffer!ToSet(s) \cup {m}, k + Lag > made
      PROVE  k \in Buffer!ToSet(Buffer!Newest(t, limit))
  BY <1>1, <1>2, <1>4, NewestKeeps
<1>. QED
  BY <1>3, <1>4 DEF t

\* A playlist's name is hinted or in the buffer, and no hint is lost that may be needed.
LEMMA HintIsKept ==
  ASSUME made \in Nat, NEW s \in Seq(Made), Spread(s, Lag + Window - 1),
         NEW m \in Made, m + (Lag + Window - 1) > made
  PROVE  /\ Buffer!Hint(s, m) \in Seq(Made) /\ Spread(Buffer!Hint(s, m), Lag + Window - 1)
         /\ \A k \in Buffer!ToSet(s) \cup {m} :
               k + Lag > made => k \in Buffer!ToSet(Buffer!Hint(s, m)) \/ Buffer!InBuffer(k)
<1>. DEFINE d == Lag + Window - 1
<1>1. d \in Nat \ {0} /\ HintLimit \in Nat /\ Lag + d <= HintLimit + 1
  BY BufferAssumption
<1>. HIDE DEF d
<1>2. CASE m \in Buffer!ToSet(s) \/ Buffer!InBuffer(m)
  BY <1>2 DEF Buffer!Hint
<1>3. CASE ~(m \in Buffer!ToSet(s) \/ Buffer!InBuffer(m))
  <2>1. Buffer!Hint(s, m) = Buffer!Newest(Append(s, m), HintLimit)
    BY <1>3 DEF Buffer!Hint
  <2>2. Spread(s, d) /\ m + d > made
    BY DEF d
  <2>3. /\ Buffer!Newest(Append(s, m), HintLimit) \in Seq(Made)
        /\ Spread(Buffer!Newest(Append(s, m), HintLimit), d)
        /\ \A k \in Buffer!ToSet(s) \cup {m} :
              k + Lag > made => k \in Buffer!ToSet(Buffer!Newest(Append(s, m), HintLimit))
    BY <1>1, <1>3, <2>2, AddedIsKept
  <2>. QED
    BY <2>1, <2>3 DEF d
<1>. QED
  BY <1>2, <1>3

\* A hint that is used is the only one that goes.
LEMMA RemovedHint ==
  ASSUME NEW S, S \subseteq Nat, NEW s \in Seq(S), NEW d \in Int, Spread(s, d), NEW n
  PROVE  /\ Buffer!RemoveFirst(s, n) \in Seq(S) /\ Spread(Buffer!RemoveFirst(s, n), d)
         /\ Buffer!ToSet(s) \ {n} \subseteq Buffer!ToSet(Buffer!RemoveFirst(s, n))
<1>1. CASE n \notin Buffer!ToSet(s)
  <2>1. Buffer!RemoveFirst(s, n) = s
    BY <1>1 DEF Buffer!RemoveFirst, Buffer!ToSet
  <2>. QED
    BY <2>1
<1>2. CASE n \in Buffer!ToSet(s)
  <2>0. DOMAIN s = 1..Len(s) /\ Len(s) \in Nat
    OBVIOUS
  <2>1. PICK p \in 1..Len(s) : s[p] = n
    BY <1>2, <2>0 DEF Buffer!ToSet
  <2>2. {i \in 1..Len(s) : s[i] = n} = {p}
    <3>1. ASSUME NEW i \in 1..Len(s), NEW j \in 1..Len(s), i < j PROVE s[i] # s[j]
      BY <2>0, <3>1 DEF Spread
    <3>. QED
      BY <2>0, <2>1, <3>1
  <2>3. Buffer!SelectInSeq(s, LAMBDA v : v = n) = p
    <3>1. Buffer!Min({p}) = p
      BY <2>0 DEF Buffer!Min
    <3>. QED
      BY <2>2, <3>1 DEF Buffer!SelectInSeq
  <2>4. Buffer!RemoveFirst(s, n) = SubSeq(s, 1, p - 1) \o SubSeq(s, p + 1, Len(s))
    BY <2>1, <2>3 DEF Buffer!RemoveFirst, Buffer!RemoveAt
  <2>. DEFINE a == SubSeq(s, 1, p - 1)
              b == SubSeq(s, p + 1, Len(s))
              r == a \o b
              l == Len(s) - 1
  <2>5. /\ a \in Seq(S) /\ Len(a) = p - 1 /\ \A i \in 1..(p - 1) : a[i] = s[i]
        /\ b \in Seq(S) /\ Len(b) = Len(s) - p /\ \A i \in 1..(Len(s) - p) : b[i] = s[i + p]
    <3>1. p - 1 \in 0..Len(s) /\ p \in 0..Len(s)
      BY <2>0
    <3>2. \A e \in 0..Len(s) : /\ SubSeq(s, 1, e) \in Seq(S) /\ Len(SubSeq(s, 1, e)) = e
                               /\ \A i \in 1..e : SubSeq(s, 1, e)[i] = s[i]
      OBVIOUS
    <3>3. \A e \in 0..Len(s) :
             /\ SubSeq(s, e + 1, Len(s)) \in Seq(S) /\ Len(SubSeq(s, e + 1, Len(s))) = Len(s) - e
             /\ \A i \in 1..(Len(s) - e) : SubSeq(s, e + 1, Len(s))[i] = s[i + e]
      OBVIOUS
    <3>. QED
      BY <3>1, <3>2, <3>3
  <2>. HIDE DEF a, b
  <2>6. /\ r \in Seq(S) /\ Len(r) = l /\ DOMAIN r = 1..l
        /\ \A i \in 1..l : r[i] = IF i < p THEN s[i] ELSE s[i + 1]
    <3>. DEFINE at(i) == IF i <= Len(a) THEN a[i] ELSE b[i - Len(a)]
    <3>0. a \in Seq(S) /\ b \in Seq(S)
      BY <2>5
    <3>1. /\ r \in Seq(S) /\ Len(r) = Len(a) + Len(b) /\ DOMAIN r = 1..Len(r)
          /\ \A i \in 1..Len(r) : r[i] = at(i)
      BY <3>0
    <3>. HIDE DEF r
    <3>2. Len(a) + Len(b) = l
      BY <2>0, <2>5
    <3>3. ASSUME NEW i \in 1..l PROVE r[i] = IF i < p THEN s[i] ELSE s[i + 1]
      <4>1. CASE i < p
        <5>1. i <= Len(a) /\ i \in 1..(p - 1)
          BY <2>0, <2>5, <4>1
        <5>. QED
          BY <2>5, <3>1, <3>2, <4>1, <5>1
      <4>2. CASE ~(i < p)
        <5>1. ~(i <= Len(a)) /\ i - Len(a) \in 1..(Len(s) - p) /\ (i - Len(a)) + p = i + 1
          BY <2>0, <2>5, <4>2
        <5>. QED
          BY <2>5, <3>1, <3>2, <4>2, <5>1
      <4>. QED
        BY <4>1, <4>2
    <3>. QED
      BY <3>1, <3>2, <3>3
  <2>. HIDE DEF r
  <2>7. Spread(r, d)
    <3>. DEFINE at(i) == IF i < p THEN i ELSE i + 1
    <3>1. ASSUME NEW i \in 1..l, NEW j \in (i + 1)..l
          PROVE  r[i] # r[j] /\ r[i] < r[j] + d
      <4>1. /\ i \in 1..l /\ j \in 1..l
            /\ at(i) \in DOMAIN s /\ at(j) \in (at(i) + 1)..Len(s)
        BY <2>0
      <4>2. r[i] = s[at(i)] /\ r[j] = s[at(j)]
        BY <2>6, <4>1
      <4>. HIDE DEF at
      <4>. QED
        BY <4>1, <4>2 DEF Spread
    <3>. QED
      BY <2>6, <3>1 DEF Spread
  <2>8. ASSUME NEW k \in Buffer!ToSet(s) \ {n} PROVE k \in Buffer!ToSet(r)
    <3>1. PICK q \in 1..Len(s) : s[q] = k
      BY <2>0 DEF Buffer!ToSet
    <3>2. q # p
      BY <2>1, <3>1
    <3>3. CASE q < p
      <4>1. q \in 1..l /\ r[q] = s[q]
        BY <2>0, <2>6, <3>3
      <4>. QED
        BY <2>6, <3>1, <4>1 DEF Buffer!ToSet
    <3>4. CASE q > p
      <4>1. q - 1 \in 1..l /\ ~(q - 1 < p) /\ (q - 1) + 1 = q
        BY <2>0, <3>4
      <4>2. r[q - 1] = s[q]
        BY <2>6, <4>1
      <4>. QED
        BY <2>6, <3>1, <4>1, <4>2 DEF Buffer!ToSet
    <3>. QED
      BY <2>0, <3>2, <3>3, <3>4
  <2>. QED
    BY <2>4, <2>6, <2>7, <2>8 DEF r, a, b
<1>. QED
  BY <1>1, <1>2

\* Induction over the first numbers, for a set.
LEMMA UpTo ==
  ASSUME NEW n \in Nat, NEW T, 0 \in T, \A m \in 1..n : m - 1 \in T => m \in T
  PROVE  0..n \subseteq T
<1>. DEFINE Out == 0..n \ T
            R == OpToRel(<, Nat)
<1>. SUFFICES ASSUME Out # {} PROVE FALSE
  OBVIOUS
<1>1. PICK m \in Out : \A i \in Out : <<i, m>> \notin R
  <2>1. Out \subseteq Nat
    OBVIOUS
  <2>2. IsWellFoundedOn(R, Nat)
    BY NatLessThanWellFounded
  <2>. HIDE DEF Out, R
  <2>. QED
    BY <2>1, <2>2, WFMin
<1>2. m \in 1..n /\ m - 1 \in 0..n /\ m \in Nat /\ m - 1 \in Nat /\ m - 1 < m
  OBVIOUS
<1>3. \A x, y \in Nat : x < y => <<x, y>> \in R
  BY Zenon DEF OpToRel
<1>. HIDE DEF R
<1>4. m - 1 \notin Out
  BY <1>1, <1>2, <1>3
<1>. QED
  BY <1>2, <1>4

\* The names up to m are taken one after the other.
HintOrNot(g, n, m) ==
    IF m = 0 THEN hints
    ELSE IF m \in Buffer!Listed(n) THEN Buffer!Hint(g[m - 1], m) ELSE g[m - 1]

\* The recursion has a solution: one for no name, and one for a name more.
LEMMA HintedDefined ==
  ASSUME NEW n \in Nat
  PROVE  Buffer!Hinted(n) = [m \in 0..n |-> HintOrNot(Buffer!Hinted(n), n, m)]
<1>. DEFINE Solved(g, j) == g = [m \in 0..j |-> HintOrNot(g, n, m)]
            Solvable == {j \in 0..n : \E g : Solved(g, j)}
<1>1. 0 \in Solvable
  <2>. DEFINE g == [m \in 0..0 |-> hints]
  <2>1. Solved(g, 0) /\ 0 \in 0..n
    BY DEF HintOrNot
  <2>. HIDE DEF Solved
  <2>. QED
    BY <2>1
<1>2. ASSUME NEW j \in 1..n, j - 1 \in Solvable PROVE j \in Solvable
  <2>1. PICK g : Solved(g, j - 1)
    <3>. HIDE DEF Solved
    <3>. QED
      BY <1>2
  <2>. DEFINE h == [m \in 0..j |-> IF m = j THEN HintOrNot(g, n, j) ELSE g[m]]
  <2>2. ASSUME NEW m \in 0..j PROVE h[m] = HintOrNot(h, n, m)
    <3>1. m # 0 => m - 1 \in 0..j /\ m - 1 # j
      OBVIOUS
    <3>2. HintOrNot(h, n, m) = HintOrNot(g, n, m)
      BY <3>1 DEF HintOrNot
    <3>3. m # j => m \in 0..(j - 1) /\ g[m] = HintOrNot(g, n, m)
      BY <2>1
    <3>. HIDE DEF Solved
    <3>. QED
      BY <3>2, <3>3
  <2>3. Solved(h, j)
    BY <2>2
  <2>. HIDE DEF Solved, h
  <2>. QED
    BY <2>3
<1>3. PICK g : Solved(g, n)
  <2>. HIDE DEF Solved
  <2>1. 0..n \subseteq Solvable
    <3>. HIDE DEF Solvable
    <3>. QED
      BY <1>1, <1>2, UpTo
  <2>. QED
    BY <2>1
<1>4. Buffer!Hinted(n) = CHOOSE h : Solved(h, n)
  BY DEF Buffer!Hinted, HintOrNot
<1>. HIDE DEF Solved
<1>5. Solved(Buffer!Hinted(n), n)
  BY <1>3, <1>4
<1>. QED
  BY <1>5 DEF Solved

\* After a playlist every name it lists is hinted or in the buffer, if its segment may
\* still come, and so is every name that was hinted before.
LEMMA PlaylistIsKept ==
  ASSUME made \in Nat, hints \in Seq(Made), Spread(hints, Lag + Window - 1),
         NEW n \in Made, n + Lag > made
  PROVE  LET r == Buffer!Hinted(n)[n]
         IN  /\ r \in Seq(Made) /\ Spread(r, Lag + Window - 1)
             /\ \A k \in Buffer!ToSet(hints) \cup Buffer!Listed(n) :
                   k + Lag > made => k \in Buffer!ToSet(r) \/ Buffer!InBuffer(k)
<1>. DEFINE d == Lag + Window - 1
            L == Buffer!Listed(n)
            H == Buffer!Hinted(n)
            Names(m) == Buffer!ToSet(hints) \cup {k \in L : k <= m}
            Kept(m) == /\ H[m] \in Seq(Made) /\ Spread(H[m], d)
                       /\ \A k \in Names(m) :
                             k + Lag > made => k \in Buffer!ToSet(H[m]) \/ Buffer!InBuffer(k)
            T == {m \in 0..n : Kept(m)}
<1>1. n \in Nat /\ n <= made /\ L \subseteq 1..n
  BY DEF Made, Buffer!Listed
<1>2. H[0] = hints /\ \A m \in 1..n : H[m] = IF m \in L THEN Buffer!Hint(H[m - 1], m) ELSE H[m - 1]
  <2>1. \A m \in 0..n : H[m] = HintOrNot(H, n, m)
    <3>. HIDE DEF H
    <3>. QED
      BY <1>1, HintedDefined, Zenon DEF H
  <2>. HIDE DEF H, L
  <2>. QED
    BY <1>1, <2>1 DEF HintOrNot, L
<1>3. \A m \in L : m \in Made /\ m + d > made
  <2>1. \A m \in L : m \in 1..n /\ m + Window > n
    BY DEF Buffer!Listed
  <2>. HIDE DEF L
  <2>. QED
    BY <1>1, <2>1, BufferAssumption DEF Made
<1>4. 0 \in T
  <2>1. Names(0) = Buffer!ToSet(hints) /\ 0 \in 0..n
    BY <1>1
  <2>. HIDE DEF H, Names
  <2>. QED
    BY <1>2, <2>1
<1>5. ASSUME NEW m \in 1..n, m - 1 \in T PROVE m \in T
  <2>1. m \in 0..n /\ m \in Nat /\ Kept(m - 1)
    BY <1>5
  <2>2. Names(m) = IF m \in L THEN Names(m - 1) \cup {m} ELSE Names(m - 1)
    <3>1. \A k \in 1..n : k <= m <=> k <= m - 1 \/ k = m
      OBVIOUS
    <3>. HIDE DEF L
    <3>. QED
      BY <1>1, <3>1
  <2>3. CASE m \in L
    <3>1. H[m] = Buffer!Hint(H[m - 1], m)
      BY <1>2, <2>3
    <3>2. /\ Buffer!Hint(H[m - 1], m) \in Seq(Made) /\ Spread(Buffer!Hint(H[m - 1], m), d)
          /\ \A k \in Buffer!ToSet(H[m - 1]) \cup {m} :
                k + Lag > made => \/ k \in Buffer!ToSet(Buffer!Hint(H[m - 1], m))
                                  \/ Buffer!InBuffer(k)
      <4>. HIDE DEF H, L
      <4>. QED
        BY <1>3, <2>1, <2>3, HintIsKept
    <3>. HIDE DEF H, L, Names
    <3>. QED
      BY <2>1, <2>2, <2>3, <3>1, <3>2
  <2>4. CASE m \notin L
    <3>1. H[m] = H[m - 1]
      BY <1>2, <2>4
    <3>. HIDE DEF H, L, Names
    <3>. QED
      BY <2>1, <2>2, <2>4, <3>1
  <2>. QED
    BY <2>3, <2>4
<1>6. Kept(n)
  <2>1. 0..n \subseteq T
    <3>. HIDE DEF T
    <3>. QED
      BY <1>1, <1>4, <1>5, UpTo
  <2>2. n \in 0..n
    BY <1>1
  <2>. HIDE DEF Kept
  <2>. QED
    BY <2>1, <2>2
<1>7. Names(n) = Buffer!ToSet(hints) \cup L
  BY <1>1
<1>. HIDE DEF H, L, Names
<1>. QED
  BY <1>6, <1>7 DEF H, L

\* It holds before the first segment.
LEMMA DurationStarts == Buffer!Init => DurationInv
<1>. SUFFICES ASSUME Buffer!Init PROVE DurationInv
  OBVIOUS
<1>1. BufferInv
  BY BufferStarts
<1>2. HintInv
  BY DEF Buffer!Init, HintInv, Spread, Made
<1>3. DurationIsAnnounced
  BY DEF Buffer!Init, DurationIsAnnounced, Buffer!DurationIsAnnounced
<1>. QED
  BY <1>1, <1>2, <1>3 DEF DurationInv

\* A sequence over a set is one over every larger set.
LEMMA SequenceGrows ==
  ASSUME NEW S, NEW T, S \subseteq T, NEW s \in Seq(S)
  PROVE  s \in Seq(T)
OBVIOUS

\* FFmpeg goes on: the bounds grow, and the new name is in no place yet.
LEMMA MakeKeepsHints ==
  ASSUME HintInv, Buffer!Make
  PROVE  HintInv'
<1>1. /\ made' = made + 1 /\ made \in Nat /\ UNCHANGED <<Buffer!bufferVars, announced>>
      /\ requests' = requests \cup {<<"segment", made'>>, <<"playlist", made'>>}
      /\ \A r \in requests : r[2] + Lag > made + 1
  BY DEF Buffer!Make, HintInv
<1>2. Made \subseteq Made' /\ made' \in Made' /\ made' \notin Made /\ made' \in Nat
  BY <1>1 DEF Made
<1>3. announced' \subseteq Made' /\ \A i \in DOMAIN segments' : segments'[i].name \in Made'
  BY <1>1, <1>2 DEF HintInv
<1>4. \A r \in requests' : r[2] \in Made' /\ r[2] + Lag > made'
  <2>1. ASSUME NEW r \in requests PROVE r[2] \in Made' /\ r[2] + Lag > made'
    BY <1>1, <1>2, <2>1 DEF HintInv
  <2>2. made' + Lag > made'
    <3>1. Lag \in Nat /\ Lag > 0
      BY BufferAssumption
    <3>2. \A m \in Nat : m + Lag > m
      BY <3>1
    <3>. QED
      BY <1>2, <3>2
  <2>. QED
    BY <1>1, <1>2, <2>1, <2>2
<1>5. /\ hints' \in Seq(Made') /\ Spread(hints', Lag + Window - 1)
      /\ recent' \in Seq(Made') /\ Spread(recent', Lag)
  <2>1. hints' \in Seq(Made) /\ recent' \in Seq(Made)
    BY <1>1 DEF HintInv
  <2>2. hints' \in Seq(Made') /\ recent' \in Seq(Made')
    BY <1>2, <2>1, SequenceGrows
  <2>. QED
    BY <1>1, <2>2 DEF HintInv
<1>6. ASSUME NEW n, <<"segment", n>> \in requests'
      PROVE  /\ Buffer!InBuffer(n)' => n \in Buffer!ToSet(recent')
             /\ n \in announced' => n \in Buffer!ToSet(hints') \cup Buffer!ToSet(recent')
  <2>1. CASE <<"segment", n>> \in requests
    BY <1>1, <2>1 DEF HintInv, Buffer!InBuffer
  <2>2. CASE n = made'
    BY <1>1, <1>2, <2>2 DEF HintInv, Buffer!InBuffer
  <2>. QED
    BY <1>1, <1>6, <2>1, <2>2
<1>. QED
  BY <1>2, <1>3, <1>4, <1>5, <1>6 DEF HintInv, Spread

\* A segment is stored: it takes its hint, and its name is remembered with every other one
\* that may be sent again.
LEMMA StoreKeepsHints ==
  ASSUME DurationInv, NEW n \in DOMAIN Stream, <<"segment", n>> \in requests,
         requests' \in {requests, requests \ {<<"segment", n>>}}, UNCHANGED <<made, announced>>,
         ~Buffer!Duplicate(n), Buffer!Follow(n), Buffer!Store(n)
  PROVE  HintInv' /\ DurationIsAnnounced'
<1>1. /\ made \in Nat /\ Made' = Made /\ requests' \subseteq requests
      /\ announced' = announced /\ made' = made
  BY DEF DurationInv, HintInv, Made
<1>2. n \in Made /\ n + Lag > made /\ n \notin Buffer!ToSet(recent) /\ ~Buffer!InBuffer(n)
  BY DEF DurationInv, HintInv, Buffer!Duplicate
<1>3. /\ recent' \in Seq(Made) /\ Spread(recent', Lag)
      /\ \A k \in Buffer!ToSet(recent) \cup {n} : k + Lag > made => k \in Buffer!ToSet(recent')
  <2>1. recent' = Buffer!Newest(Append(recent, n), RecentNames)
    BY DEF Buffer!Store, Buffer!Remember
  <2>2. Lag \in Nat \ {0} /\ RecentNames \in Nat /\ Lag + Lag <= RecentNames + 1
    BY BufferAssumption
  <2>3. recent \in Seq(Made) /\ Spread(recent, Lag)
    BY DEF DurationInv, HintInv
  <2>. QED
    BY <1>1, <1>2, <2>1, <2>2, <2>3, AddedIsKept
<1>4. /\ hints' \in Seq(Made) /\ Spread(hints', Lag + Window - 1)
      /\ Buffer!ToSet(hints) \ {n} \subseteq Buffer!ToSet(hints')
  <2>1. hints' = Buffer!RemoveFirst(hints, n)
    BY DEF Buffer!Store
  <2>2. Made \subseteq Nat /\ Lag + Window - 1 \in Int
    BY BufferAssumption DEF Made
  <2>3. hints \in Seq(Made) /\ Spread(hints, Lag + Window - 1)
    BY DEF DurationInv, HintInv
  <2>. QED
    BY <2>1, <2>2, <2>3, RemovedHint
<1>. DEFINE e == [name |-> n, sequence |-> nextSequence, discontinuity |-> discontinuities',
                  duration |-> IF n \in Buffer!ToSet(hints) THEN "own" ELSE "default"]
            all == Append(segments, e)
<1>5. /\ segments \in Seq(Entry) /\ DOMAIN segments = 1..Len(segments) /\ Len(segments) \in Nat
  BY DEF DurationInv, BufferInv, Entries
<1>6. ASSUME NEW i \in DOMAIN segments'
      PROVE  segments'[i] = e \/ \E j \in DOMAIN segments : segments'[i] = segments[j]
  <2>1. segments' = Buffer!Evict(all)
    BY DEF Buffer!Store
  <2>2. e \in Entry
    <3>1. n \in Nat /\ nextSequence \in Nat
      BY <1>2 DEF Made, DurationInv, BufferInv
    <3>2. discontinuities' \in Nat
      BY DEF Buffer!Follow, DurationInv, BufferInv
    <3>. QED
      BY <3>1, <3>2 DEF Entry
  <2>. HIDE DEF e
  <2>3. /\ all \in Entries /\ Len(all) = Len(segments) + 1
        /\ \A j \in 1..Len(all) : all[j] = e \/ (j \in DOMAIN segments /\ all[j] = segments[j])
    BY <1>5, <2>2 DEF Entries
  <2>. HIDE DEF all
  <2>4. PICK k \in 0..Len(all) : segments' = SubSeq(all, Len(all) - k + 1, Len(all))
    BY <2>1, <2>3, EvictIsSuffix
  <2>5. PICK d \in 0..Len(all) : segments' = SubSeq(all, d + 1, Len(all))
    <3>1. Len(all) - k \in 0..Len(all)
      BY <1>5, <2>3
    <3>. QED
      BY <2>4, <3>1
  <2>6. /\ DOMAIN segments' = 1..(Len(all) - d)
        /\ \A j \in 1..(Len(all) - d) : segments'[j] = all[j + d]
    BY <2>3, <2>5, SuffixEntries
  <2>7. i + d \in 1..Len(all) /\ segments'[i] = all[i + d]
    BY <1>5, <1>6, <2>3, <2>6
  <2>. QED
    BY <2>3, <2>7
<1>7. e.name = n /\ (n \in announced => e.duration = "own")
  <2>1. n \in announced => n \in Buffer!ToSet(hints)
    BY <1>2 DEF DurationInv, HintInv
  <2>. QED
    BY <2>1
<1>. HIDE DEF e
<1>8. \A i \in DOMAIN segments' :
         /\ segments'[i].name \in Made
         /\ segments'[i].name \in announced => segments'[i].duration = "own"
  <2>1. \A j \in DOMAIN segments :
           /\ segments[j].name \in Made
           /\ segments[j].name \in announced => segments[j].duration = "own"
    BY DEF DurationInv, HintInv, DurationIsAnnounced, Buffer!DurationIsAnnounced
  <2>. QED
    BY <1>2, <1>6, <1>7, <2>1
<1>9. ASSUME NEW k, <<"segment", k>> \in requests'
      PROVE  /\ Buffer!InBuffer(k)' => k \in Buffer!ToSet(recent')
             /\ k \in announced' => k \in Buffer!ToSet(hints') \cup Buffer!ToSet(recent')
  <2>1. <<"segment", k>> \in requests /\ k + Lag > made
    BY <1>1, <1>9 DEF DurationInv, HintInv
  <2>2. Buffer!InBuffer(k)' => k = n \/ Buffer!InBuffer(k)
    BY <1>6, <1>7 DEF Buffer!InBuffer
  <2>3. Buffer!InBuffer(k) => k \in Buffer!ToSet(recent)
    BY <2>1 DEF DurationInv, HintInv
  <2>4. k \in announced => k \in Buffer!ToSet(hints) \cup Buffer!ToSet(recent)
    BY <2>1 DEF DurationInv, HintInv
  <2>. QED
    BY <1>1, <1>3, <1>4, <2>1, <2>2, <2>3, <2>4
<1>10. announced' \subseteq Made /\ \A r \in requests' : r[2] \in Made /\ r[2] + Lag > made
  BY <1>1 DEF DurationInv, HintInv
<1>11. HintInv'
  BY <1>1, <1>3, <1>4, <1>8, <1>9, <1>10 DEF HintInv, Spread
<1>12. DurationIsAnnounced'
  BY <1>1, <1>8 DEF DurationIsAnnounced, Buffer!DurationIsAnnounced
<1>. QED
  BY <1>11, <1>12

\* A playlist comes: what it lists is in the buffer or hinted.
LEMMA PlaylistKeepsHints ==
  ASSUME DurationInv, NEW n, Buffer!ReceivePlaylist(n)
  PROVE  HintInv' /\ DurationIsAnnounced'
<1>1. /\ <<"playlist", n>> \in requests /\ requests' \subseteq requests
      /\ announced' = announced \cup Buffer!Listed(n) /\ UNCHANGED <<made, recent>>
      /\ hints' = Buffer!Hinted(n)[n]
      /\ segments' = [i \in DOMAIN segments |->
                         IF segments[i].name \in Buffer!Listed(n)
                         THEN [segments[i] EXCEPT !.duration = "own"] ELSE segments[i]]
  BY DEF Buffer!ReceivePlaylist, Buffer!ApplyPlaylist
<1>2. made \in Nat /\ Made' = Made /\ n \in Made /\ n + Lag > made /\ made' = made
  BY <1>1 DEF DurationInv, HintInv, Made
<1>3. /\ hints' \in Seq(Made) /\ Spread(hints', Lag + Window - 1)
      /\ \A k \in Buffer!ToSet(hints) \cup Buffer!Listed(n) :
            k + Lag > made => k \in Buffer!ToSet(hints') \/ Buffer!InBuffer(k)
  <2>1. hints \in Seq(Made) /\ Spread(hints, Lag + Window - 1)
    BY DEF DurationInv, HintInv
  <2>. QED
    BY <1>1, <1>2, <2>1, PlaylistIsKept
<1>4. Buffer!Listed(n) \subseteq Made
  BY <1>2 DEF Buffer!Listed, Made
<1>5. /\ DOMAIN segments' = DOMAIN segments
      /\ \A i \in DOMAIN segments :
            /\ segments'[i].name = segments[i].name
            /\ segments[i].name \in Buffer!Listed(n) => segments'[i].duration = "own"
            /\ segments[i].name \notin Buffer!Listed(n) => segments'[i] = segments[i]
  <2>1. \A i \in DOMAIN segments : segments[i] \in Entry
    BY DEF DurationInv, BufferInv, Entries
  <2>. QED
    BY <1>1, <2>1 DEF Entry
<1>6. DurationIsAnnounced'
  BY <1>1, <1>5 DEF DurationInv, DurationIsAnnounced, Buffer!DurationIsAnnounced
<1>7. \A k : Buffer!InBuffer(k)' <=> Buffer!InBuffer(k)
  BY <1>5 DEF Buffer!InBuffer
<1>8. ASSUME NEW k, <<"segment", k>> \in requests'
      PROVE  /\ Buffer!InBuffer(k)' => k \in Buffer!ToSet(recent')
             /\ k \in announced' => k \in Buffer!ToSet(hints') \cup Buffer!ToSet(recent')
  <2>1. <<"segment", k>> \in requests /\ k + Lag > made
    BY <1>1, <1>8 DEF DurationInv, HintInv
  <2>2. Buffer!InBuffer(k) => k \in Buffer!ToSet(recent)
    BY <2>1 DEF DurationInv, HintInv
  <2>3. k \in announced => k \in Buffer!ToSet(hints) \cup Buffer!ToSet(recent)
    BY <2>1 DEF DurationInv, HintInv
  <2>. QED
    BY <1>1, <1>3, <1>7, <2>1, <2>2, <2>3
<1>9. /\ announced' \subseteq Made /\ \A r \in requests' : r[2] \in Made /\ r[2] + Lag > made
      /\ \A i \in DOMAIN segments' : segments'[i].name \in Made
      /\ recent' \in Seq(Made) /\ Spread(recent', Lag)
  BY <1>1, <1>4, <1>5 DEF DurationInv, HintInv
<1>10. HintInv'
  BY <1>2, <1>3, <1>8, <1>9 DEF HintInv, Spread
<1>. QED
  BY <1>6, <1>10

\* Every step keeps it.
LEMMA DurationStep == DurationInv /\ [Buffer!Next]_Buffer!vars => DurationInv'
<1>. SUFFICES ASSUME DurationInv, [Buffer!Next]_Buffer!vars PROVE DurationInv'
  OBVIOUS
<1>1. BufferInv'
  BY BufferStep, BufferAssumption DEF DurationInv
<1>2. CASE UNCHANGED <<Buffer!bufferVars, made, announced>> /\ requests' \subseteq requests
  BY <1>1, <1>2
     DEF DurationInv, HintInv, Made, Spread, Buffer!InBuffer, DurationIsAnnounced,
         Buffer!DurationIsAnnounced
<1>3. CASE Buffer!Make
  <2>1. HintInv'
    BY <1>3, MakeKeepsHints DEF DurationInv
  <2>2. DurationIsAnnounced'
    BY <1>3 DEF Buffer!Make, DurationInv, DurationIsAnnounced, Buffer!DurationIsAnnounced
  <2>. QED
    BY <1>1, <2>1, <2>2 DEF DurationInv
<1>4. ASSUME NEW n \in DOMAIN Stream, Buffer!ReceiveSegment(n) PROVE DurationInv'
  <2>1. /\ <<"segment", n>> \in requests
        /\ requests' \in {requests, requests \ {<<"segment", n>>}}
        /\ UNCHANGED <<made, announced>>
    BY <1>4 DEF Buffer!ReceiveSegment
  <2>2. CASE Buffer!Duplicate(n)
    BY <1>2, <1>4, <2>1, <2>2 DEF Buffer!ReceiveSegment, Buffer!AddSegment
  <2>3. CASE ~Buffer!Duplicate(n)
    <3>1. Buffer!Follow(n) /\ Buffer!Store(n)
      BY <1>4, <2>3 DEF Buffer!ReceiveSegment, Buffer!AddSegment
    <3>. QED
      BY <1>1, <2>1, <2>3, <3>1, StoreKeepsHints DEF DurationInv
  <2>. QED
    BY <2>2, <2>3
<1>5. ASSUME NEW n, Buffer!ReceivePlaylist(n) PROVE DurationInv'
  BY <1>1, <1>5, PlaylistKeepsHints DEF DurationInv
<1>6. CASE Buffer!Lost \/ UNCHANGED Buffer!vars
  BY <1>2, <1>6 DEF Buffer!Lost
<1>. QED
  BY <1>3, <1>4, <1>5, <1>6 DEF Buffer!Next, Buffer!Name

\* Hints and names are forgotten at their limits (buffer.py 81-85, 121-122), and requests
\* overtake each other, are lost and are sent again: as long as those limits outlast the
\* lag of a request, no segment is given the default duration once a playlist announced
\* its own, whichever came first.
THEOREM DurationKept == Buffer!Spec => []DurationIsAnnounced
<1>1. DurationInv => DurationIsAnnounced
  BY DEF DurationInv
<1>. QED
  BY DurationStarts, DurationStep, <1>1, PTL DEF Buffer!Spec
-----------------------------------------------------------------------------
(* The supervisor.  The module of its proofs is about the same variables.  *)

Proofs == INSTANCE CameraSupervisorProofs

\* What it calls Init and Next are the instance's.
LEMMA SameSupervisor ==
  /\ Supervisor!Init => Proofs!Init
  /\ [Supervisor!Next]_Supervisor!vars => [Proofs!Next]_Proofs!vars
BY DEF Supervisor!Init, Proofs!Init, Supervisor!Next, Proofs!Next,
         Supervisor!vars, Supervisor!taskVars, Supervisor!processVars,
         Supervisor!segmentVars, Supervisor!Caller, Supervisor!Alive, Supervisor!Holding,
         Supervisor!LockFree, Supervisor!Steps, Supervisor!EnterTerminate,
         Supervisor!TakeLock, Supervisor!SendTerm, Supervisor!SendKill,
         Supervisor!Terminated, Supervisor!Created, Supervisor!Counted, Supervisor!Deliver,
         Supervisor!Hang, Supervisor!Exit, Supervisor!LateSegment, Supervisor!Delivering,
         Supervisor!TimePasses, Supervisor!Runs, Supervisor!Goes, Supervisor!NextCycle,
         Supervisor!Smaller, Supervisor!Greater, Supervisor!Pause, Supervisor!Seal,
         Supervisor!NothingRan, Supervisor!ResolveFails, Supervisor!Resolved,
         Supervisor!Launch, Supervisor!LaunchFails, Supervisor!Expired,
         Supervisor!HealthCheck, Supervisor!ProcessEnds, Supervisor!SealEnds,
         Supervisor!PauseEnds, Supervisor!Start, Supervisor!Stop, Supervisor!StopTerminated,
         Supervisor!Joined, Supervisor!CancelStop, Supervisor!CancelledWhileWatching,
         Supervisor!Abort, Supervisor!Task, Supervisor!Terminating,
         Proofs!vars, Proofs!taskVars, Proofs!processVars, Proofs!segmentVars,
         Proofs!Caller, Proofs!Alive, Proofs!Holding, Proofs!LockFree, Proofs!Steps,
         Proofs!EnterTerminate, Proofs!TakeLock, Proofs!SendTerm, Proofs!SendKill,
         Proofs!Terminated, Proofs!Created, Proofs!Counted, Proofs!Deliver, Proofs!Hang,
         Proofs!Exit, Proofs!LateSegment, Proofs!Delivering, Proofs!TimePasses, Proofs!Runs,
         Proofs!Goes, Proofs!NextCycle, Proofs!Smaller, Proofs!Greater, Proofs!Pause,
         Proofs!Seal, Proofs!NothingRan, Proofs!ResolveFails, Proofs!Resolved,
         Proofs!Launch, Proofs!LaunchFails, Proofs!Expired, Proofs!HealthCheck,
         Proofs!ProcessEnds, Proofs!SealEnds, Proofs!PauseEnds, Proofs!Start, Proofs!Stop,
         Proofs!StopTerminated, Proofs!Joined, Proofs!CancelStop,
         Proofs!CancelledWhileWatching, Proofs!Abort, Proofs!Task, Proofs!Terminating

LEMMA SupervisorInvariant == Supervisor!Spec => []Proofs!IInv
BY SameSupervisor, Proofs!Initially, Proofs!Inductive, PTL DEF Supervisor!Spec

LEMMA SupervisorPromises == Proofs!IInv => NoneLeftOver /\ SealedBetweenLaunches /\ OneTerm
<1>1. Proofs!NoneLeftOver <=> NoneLeftOver
  BY DEF NoneLeftOver, Supervisor!NoneLeftOver, Proofs!NoneLeftOver,
         Supervisor!Alive, Proofs!Alive
<1>2. Proofs!SealedBetweenLaunches <=> SealedBetweenLaunches
  BY DEF SealedBetweenLaunches, Supervisor!SealedBetweenLaunches,
         Proofs!SealedBetweenLaunches, Supervisor!Runs, Proofs!Runs,
         Supervisor!Alive, Proofs!Alive
<1>3. Proofs!OneTerm <=> OneTerm
  BY DEF OneTerm, Supervisor!OneTerm, Proofs!OneTerm, Supervisor!Alive, Proofs!Alive
<1>. QED
  BY Proofs!Promises, <1>1, <1>2, <1>3

\* A live FFmpeg always has its task and its supervisor's reference: whatever the order of
\* launch, watchdog, stop(), deadline and abort(), none runs when they have returned
\* (supervisor.py 42-71,
\* 168-180).
THEOREM NoOrphan == Supervisor!Spec => []NoneLeftOver
BY SupervisorInvariant, SupervisorPromises, PTL

\* on_stream_end was called for every FFmpeg that ran, after its death and before the next
\* launch (supervisor.py 168-187).
THEOREM TailSealed == Supervisor!Spec => []SealedBetweenLaunches
BY SupervisorInvariant, SupervisorPromises, PTL

\* Until the deadline cancels a call, the lock of _terminate (supervisor.py 285-316) lets
\* one call send one TERM.
THEOREM TermOnce == Supervisor!Spec => []OneTerm
BY SupervisorInvariant, SupervisorPromises, PTL
-----------------------------------------------------------------------------
(* The whole.                                                              *)

LEMMA OneMoves ==
  ASSUME [RecorderNext]_<<subject, vars, supervisorVars, liveVars, logVars, storeVars>>
  PROVE  /\ [Next]_vars /\ [Supervisor!Next]_Supervisor!vars /\ [Buffer!Next]_Buffer!vars
         /\ [Log!Next]_Log!vars /\ [Store!Next]_Store!vars
BY DEF RecorderNext, supervisorVars, liveVars, logVars, storeVars, Supervisor!vars

\* A behaviour of the whole is a behaviour of each component, with its fairness: nothing is
\* lost or added by checking the components together, and the theorems about each hold.
THEOREM Composition ==
  RecorderSpec => Spec /\ Supervisor!Spec /\ Buffer!Spec /\ Log!Spec /\ Store!Spec
<1>1. RecorderInit => Init /\ Supervisor!Init /\ Buffer!Init /\ Log!Init /\ Store!Init
  BY DEF RecorderInit
<1>. QED
  BY <1>1, OneMoves, PTL
     DEF RecorderSpec, Spec, Supervisor!Spec, Buffer!Spec, Log!Spec, Store!Spec
=============================================================================
