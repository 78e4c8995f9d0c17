------------------------------ MODULE MCBatchName -----------------------------
(* One FFmpeg run, four segments of one byte, batches of two. *)
EXTENDS BatchName

Streams == <<1, 1, 1, 1>>
Sizes == <<1, 1, 1, 1>>
=============================================================================
