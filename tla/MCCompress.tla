----------------------------- MODULE MCCompress -----------------------------
(* Four threads and operands of 0, 2, 4 and 5 rows: empty segments but the *)
(* last, equal ones, and a longer last one.  @where is one thread's loop   *)
(* below 4 rows.                                                           *)
EXTENDS Compress

CONSTANTS a, b
MCItems == {a, b}
MCLengths == {0, 2, 4, 5}
=============================================================================
