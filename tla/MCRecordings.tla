----------------------------- MODULE MCRecordings -----------------------------
(* A small instance of the components around the recordings.               *)
EXTENDS Recordings

OneHour == <<1, 1>>

\* A recording that reaches into the next hour, one that reaches beyond the interval too,
\* and one that ends with its hour.
AroundTheHour == {[start |-> 3, duration |-> 2], [start |-> 3, duration |-> 4],
                  [start |-> 7, duration |-> 1]}
=============================================================================
