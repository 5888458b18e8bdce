----------------------------- MODULE MCBuiltins -----------------------------
(***************************************************************************)
(* Joins as in MCJoinIndex.  Searches over three values, of which two      *)
(* share a chain.  An i32 of two bits and an i64 of four: single columns   *)
(* of up to four rows, pairs of columns of up to three, or of five that    *)
(* are sorted one by one.  The end of a run is bisected beyond two rows.   *)
(***************************************************************************)
EXTENDS Builtins

MCKeys == {0, 1, 2}
MCHash == [k \in MCKeys |-> 0]
MCValues == {0, 1, 2}
MCHashOf == [v \in MCValues |-> IF v = 2 THEN 1 ELSE 0]

Columns(ty, S, n) == [type : {ty}, val : [1 .. n -> S], isUp : BOOLEAN]
I32 == -2 .. 1
I64 == {-1, 0, 1, 3, 4, 7}
Others == 0 .. 2
MCColumnLists ==
  UNION {{<<x1>> : x1 \in Columns("i32", I32, n) \cup Columns("i64", I64, n)
                          \cup Columns("other", Others, n)} : n \in 0 .. 4}
  \cup UNION {Columns("i32", I32, n) \X Columns("i32", {-1, 0, 1}, n) : n \in 0 .. 3}
  \cup UNION {Columns("other", {0, 1}, n) \X Columns("i64", {-1, 1}, n) : n \in 0 .. 5}
  \cup UNION {Columns("i64", {-1, 1}, n) \X Columns("i32", {0, 1}, n) : n \in 0 .. 4}
=============================================================================
