------------------------------- MODULE RangeRead ------------------------------
(***************************************************************************)
(* An encrypted recording, from the bytes of the camera to the bytes of a  *)
(* player's range request: it is sealed in chunks as the source's          *)
(* fragments come, stored, perhaps cut short by the store, and read again  *)
(* from the cloud, in fragments of any length, or from the outbox's file.  *)
(* A byte of the recording is its offset.                                  *)
(***************************************************************************)
EXTENDS Naturals, SequencesExt, FiniteSetsExt

CONSTANTS
    ChunkSize,   \* chunk_size
    Header, Tag, \* bytes of the header, and of a chunk's tag
    MaxSize,     \* bound: bytes of a recording
    MaxFragment  \* bound: bytes the source or the network brings at once

VARIABLES
    size,      \* plaintext_size
    asked,     \* the Range header
    step,
    taken,     \* bytes of the source consumed
    pending,   \* sealing, then opening: bytes that are no chunk yet
    index,     \* chunk_index
    object,    \* Seq: what is stored
    response,  \* Seq: what the server has still to send
    remaining, skip,
    body       \* Seq: what the player has got

sealVars == <<taken, object>>
readVars == <<response, remaining, skip, body>>
vars == <<size, asked, step, pending, index, sealVars, readVars>>

Asked ==
    {[kind |-> "all"], [kind |-> "invalid"]}
    \cup [kind : {"span"}, first : 0..MaxSize, last : 0..MaxSize]
    \cup [kind : {"from"}, first : 0..MaxSize]
    \cup [kind : {"suffix"}, length : 0..(MaxSize + 1)]
-----------------------------------------------------------------------------
(* The layout of a stored recording.                                       *)

\* Fault: the last chunk counts only when it is full.
WholeChunks == size \div ChunkSize

ChunkCount == (size + ChunkSize - 1) \div ChunkSize
ChunkBytes(i) == Min({ChunkSize, size - i * ChunkSize})
CipherBytes(i) == ChunkBytes(i) + Tag
ChunkOffset(i) == Header + i * (ChunkSize + Tag)

\* encrypted_size: the Content-Length of the upload.
EncryptedSize == Header + size + ChunkCount * Tag

\* The bytes of s from number a to number b, as far as there are any.
Slice(s, a, b) == SubSeq(s, a, Min({b, Len(s)}))

HeaderBytes == [j \in 1..Header |-> [chunk |-> ChunkCount, bytes |-> <<>>]]

\* A sealed byte tells its chunk, and, together with the others of it, the bytes.
Seal(i, plain) == [j \in 1..(Len(plain) + Tag) |-> [chunk |-> i, bytes |-> plain]]

\* decrypt_archive_chunk: the tag is right for the whole chunk at its own place alone.
Authentic(cipher, i) ==
    /\ Len(cipher) = CipherBytes(i)
    /\ \A j \in DOMAIN cipher : cipher[j].chunk = i /\ Len(cipher[j].bytes) = ChunkBytes(i)

NoRange == <<>>

\* _resolve_byte_range: first and last byte.
Resolve(range) ==
    CASE range.kind = "all"                        -> <<0, size - 1>>
      [] range.kind = "from" /\ range.first < size -> <<range.first, size - 1>>
      [] range.kind = "span" /\ range.first < size /\ range.first <= range.last
             -> <<range.first, Min({range.last, size - 1})>>
      [] range.kind = "suffix" /\ range.length > 0
             -> <<IF range.length > size THEN 0 ELSE size - range.length, size - 1>>
      [] OTHER -> NoRange

RangeStart == Resolve(asked)[1]
RangeEnd == Resolve(asked)[2]
FirstChunk == RangeStart \div ChunkSize
LastChunk == RangeEnd \div ChunkSize
StoredStart == ChunkOffset(FirstChunk)

\* Fault: the tag of the last chunk is forgotten.
EndWithoutTag == ChunkOffset(LastChunk) + ChunkBytes(LastChunk) - 1

StoredEnd == ChunkOffset(LastChunk) + CipherBytes(LastChunk) - 1

\* The selected bytes of an opened chunk.
Selected(cipher, i) ==
    LET offset == i * ChunkSize
        from == IF RangeStart > offset THEN RangeStart - offset ELSE 0
    IN  SubSeq(cipher[1].bytes, from + 1, Min({ChunkBytes(i), RangeEnd - offset + 1}))
-----------------------------------------------------------------------------
Init ==
    /\ size \in 1..MaxSize /\ asked = [kind |-> "all"]
    /\ step = "seal"
    /\ taken = 0 /\ pending = <<>> /\ index = 0
    /\ object = HeaderBytes
    /\ response = <<>> /\ remaining = 0 /\ skip = 0 /\ body = <<>>

\* encrypt_archive_chunks: the next fragment.  The batch's size is the sum of its
\* segments', so the source never brings more.
SealFragment ==
    /\ step = "seal" /\ taken < size /\ Len(pending) < ChunkSize
    /\ \E n \in 1..Min({MaxFragment, size - taken}) :
          /\ taken' = taken + n
          /\ pending' = pending \o [j \in 1..n |-> taken + j - 1]
    /\ UNCHANGED <<size, asked, step, index, object, readVars>>

\* One whole chunk is sealed and handed on.
SealChunk ==
    /\ step = "seal" /\ Len(pending) >= ChunkSize
    /\ object' = object \o Seal(index, SubSeq(pending, 1, ChunkSize))
    /\ pending' = SubSeq(pending, ChunkSize + 1, Len(pending))
    /\ index' = index + 1
    /\ UNCHANGED <<size, asked, step, taken, readVars>>

\* The rest is the last chunk.
SealLast ==
    /\ step = "seal" /\ taken = size /\ Len(pending) < ChunkSize
    /\ object' = IF pending = <<>> THEN object ELSE object \o Seal(index, pending)
    /\ step' = "sealed" /\ pending' = <<>>
    /\ UNCHANGED <<size, asked, index, taken, readVars>>

\* The store keeps the object, or its beginning; a player asks for a range of it.
Ask ==
    /\ step = "sealed" /\ step' = "asked"
    /\ \E n \in 0..Len(object) : object' = SubSeq(object, 1, n)
    /\ asked' \in Asked
    /\ UNCHANGED <<size, taken, pending, index, readVars>>

\* _open_encrypted_recording and _local_read: the header, then the range.
ReadHeader ==
    /\ step = "asked"
    /\ step' = IF Len(object) < Header THEN "failed"
               ELSE IF Resolve(asked) = NoRange THEN "unsatisfiable" ELSE "opened"
    /\ index' = IF step' = "opened" THEN FirstChunk ELSE index
    /\ UNCHANGED <<size, asked, pending, sealVars, readVars>>

\* The request for the chunks: the server answers 206 with the range, as far as
\* there are bytes, 200 with the whole object, or 416.
RequestRange ==
    /\ step = "opened"
    /\ remaining' = StoredEnd - StoredStart + 1
    /\ \/ /\ StoredStart < Len(object)
          /\ response' = Slice(object, StoredStart + 1, StoredEnd + 1)
          /\ skip' = 0 /\ step' = "remote"
       \/ response' = object /\ skip' = StoredStart /\ step' = "remote"
       \/ /\ StoredStart >= Len(object)
          /\ step' = "failed" /\ UNCHANGED <<response, skip>>
    /\ UNCHANGED <<size, asked, pending, index, sealVars, body>>

\* The bytes received hold the next chunk that was asked for.
HasChunk == index <= LastChunk /\ Len(pending) >= CipherBytes(index)

\* _decrypt_remote_range: the next fragment of the response.
Receive ==
    /\ step = "remote" /\ remaining > 0 /\ ~HasChunk
    /\ \E n \in 1..Min({MaxFragment, Len(response)}) :
          LET skipped == Min({skip, n})
              accepted == SubSeq(response, skipped + 1, Min({n, skipped + remaining}))
          IN  /\ skip' = skip - skipped
              /\ response' = SubSeq(response, n + 1, Len(response))
              /\ remaining' = remaining - Len(accepted)
              /\ pending' = pending \o accepted
    /\ UNCHANGED <<size, asked, step, index, body, sealVars>>

\* The next chunk is opened, or found to be another or changed, and its part handed on.
OpenChunk ==
    /\ step = "remote" /\ HasChunk
    /\ LET cipher == SubSeq(pending, 1, CipherBytes(index))
       IN  IF Authentic(cipher, index)
           THEN body' = body \o Selected(cipher, index) /\ index' = index + 1 /\ UNCHANGED step
           ELSE step' = "failed" /\ UNCHANGED <<body, index>>
    /\ pending' = SubSeq(pending, CipherBytes(index) + 1, Len(pending))
    /\ UNCHANGED <<size, asked, response, remaining, skip, sealVars>>

\* Fault: a response that ended early ends the body.
ShortIsEnd ==
    /\ step = "remote" /\ ~HasChunk /\ response = <<>>
    /\ step' = "done"
    /\ UNCHANGED <<size, asked, pending, index, sealVars, readVars>>

\* The response has ended, or brought what was asked for.
EndOfResponse ==
    /\ step = "remote" /\ ~HasChunk /\ (response = <<>> \/ remaining = 0)
    /\ step' = IF skip > 0 \/ remaining > 0 \/ pending # <<>> \/ index <= LastChunk
               THEN "failed" ELSE "done"
    /\ UNCHANGED <<size, asked, pending, index, sealVars, readVars>>

\* The connection breaks under a wait for the next fragment.
ConnectionBreaks ==
    /\ step = "remote" /\ remaining > 0 /\ ~HasChunk
    /\ step' = "broken"
    /\ UNCHANGED <<size, asked, pending, index, sealVars, readVars>>

\* _local_read's body: the next chunk of the outbox's file.
ReadLocalChunk ==
    /\ step \in {"opened", "local"} /\ index <= LastChunk
    /\ LET cipher == Slice(object, ChunkOffset(index) + 1, ChunkOffset(index) + CipherBytes(index))
       IN  IF Authentic(cipher, index)
           THEN body' = body \o Selected(cipher, index) /\ index' = index + 1 /\ step' = "local"
           ELSE step' = "failed" /\ UNCHANGED <<body, index>>
    /\ UNCHANGED <<size, asked, pending, response, remaining, skip, sealVars>>

EndOfLocal ==
    /\ step = "local" /\ index > LastChunk
    /\ step' = "done"
    /\ UNCHANGED <<size, asked, pending, index, sealVars, readVars>>

Next ==
    \/ SealFragment \/ SealChunk \/ SealLast \/ Ask \/ ReadHeader \/ RequestRange
    \/ Receive \/ OpenChunk \/ EndOfResponse \/ ConnectionBreaks
    \/ ReadLocalChunk \/ EndOfLocal

Spec == Init /\ [][Next]_vars
-----------------------------------------------------------------------------
\* The bytes the player asked for, by the meaning of the Range header.
Wanted ==
    {i \in 0..(size - 1) :
        CASE asked.kind = "all"     -> TRUE
          [] asked.kind = "invalid" -> FALSE
          [] asked.kind = "span"    -> asked.first <= i /\ i <= asked.last
          [] asked.kind = "from"    -> asked.first <= i
          [] asked.kind = "suffix"  -> i + asked.length >= size}

\* What a player gets is, in order, the beginning of the bytes it asked for, and all
\* of them when the body ends without an error: however the source's fragments were
\* sealed, however the network cut the response, whether the server answered 206 or
\* 200, and also when the stored object has lost its end.  416 means there are none.
BodyIsRange ==
    /\ step = "unsatisfiable" => Wanted = {}
    /\ step \in {"opened", "remote", "local", "broken", "done"} => Wanted # {}
    /\ body = [j \in 1..Len(body) |-> Min(Wanted) + j - 1]
    /\ ToSet(body) \subseteq Wanted
    /\ step = "done" => ToSet(body) = Wanted

\* A reading fails for one reason alone, that bytes it needs are not stored: a whole object
\* is read to the end of any range, whatever the fragments, the offsets and the answers.
StoredIsServed ==
    step = "failed" => \/ Len(object) < Header
                       \/ \E b \in Wanted : LET i == b \div ChunkSize
                                          IN  Len(object) < ChunkOffset(i) + CipherBytes(i)

\* What is sealed is as long as encrypted_size has promised the server.
SealedAsAnnounced ==
    step = "sealed" => Len(object) = EncryptedSize
=============================================================================
