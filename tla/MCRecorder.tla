------------------------------ MODULE MCRecorder ------------------------------
(* A small instance of the recorder's components.                          *)
EXTENDS Recorder

Segment12 == [c \in Camera |-> IF c = "c1" THEN 2 ELSE 1]

\* Three runs of FFmpeg; segment 4 is larger than the buffer.
ThreeStreams == <<1, 2, 2, 2, 3>>
FourthIsLarge == <<1, 1, 1, 3, 1>>
=============================================================================
