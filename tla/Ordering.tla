------------------------------ MODULE Ordering ------------------------------
(***************************************************************************)
(* @order(x, b) and @group(x) on one column or a list of columns           *)
(* (pfnOrderBy and pfnGroup, backend/h_primitive.cc; the sorts are in      *)
(* backend/h_libs.cc).                                                     *)
(*                                                                         *)
(* A column of integers is sorted by its digits, one stable pass per       *)
(* digit; other columns by quicksort; two i32 columns with one direction   *)
(* as a single i64 column; other lists column by column, each run of equal *)
(* rows by the next column.  Grouping cuts the sorted rows where the value *)
(* changes.                                                                *)
(*                                                                         *)
(* All of it is sequential: these are functions of the operands, recursive *)
(* functions where the code has a loop or calls itself.  An i32 is Digits  *)
(* digits of base Base, an i64 twice as many.  Rows are numbered from 1.   *)
(* Columns of char have sorts of their own and are left out.               *)
(***************************************************************************)
EXTENDS Integers, FiniteSetsExt, SequencesExt

CONSTANTS
  Base,      \* 256
  Digits,    \* 4
  RunProbe   \* 5, the rows compared one by one before the end of a run is bisected

OrderingAssumption ==
  Base \in Nat \ {0, 1} /\ Digits \in Nat \ {0} /\ RunProbe \in Nat \ {0}
ASSUME OrderingAssumption

RowLists(n) == Seq(1 .. n)
Rows(n) == [r \in 1 .. n |-> r]

----------------------------------------------------------------------------
(* The radix sort.                                                         *)

Power[j \in Nat] == IF j = 0 THEN 1 ELSE Base * Power[j - 1]
Half == Power[Digits]

\* A number shifted right by digits.
Shift(x) ==
  LET shift[j \in Nat] == IF j = 0 THEN x ELSE shift[j - 1] \div Base
  IN  shift
Digit(x, j) == Shift(x)[j] % Base

\* One pass, by digit j: each row comes after those with a smaller digit and those
\* before it with the same.  (SubSeq has TLC compute the list once.)
Place(v, rows, j, k) ==
  Cardinality({l \in DOMAIN rows :
    \/ Digit(v[rows[l]], j) < Digit(v[rows[k]], j)
    \/ Digit(v[rows[l]], j) = Digit(v[rows[k]], j) /\ l <= k})
Pass(v, rows, j) ==
  SubSeq([p \in DOMAIN rows |-> rows[CHOOSE k \in DOMAIN rows : Place(v, rows, j, k) = p]],
         1, Len(rows))

\* lib_radixsort_core_int and lib_radixsort_core_long: the latter goes beyond
\* the lower half only for a value above it.
RadixSort(v, long) ==
  LET digits == IF long /\ \E r \in DOMAIN v : Shift(v[r])[Digits] > 0
                THEN 2 * Digits ELSE Digits
      sorted[j \in Nat] ==
        LET rows == sorted[j - 1]
        IN  IF j = 0 THEN Rows(Len(v)) ELSE Pass(v, rows, j - 1)
  IN  sorted[digits]

\* lib_radixsort_int and lib_radixsort_long
Radix(v, long, isUp) ==
  IF isUp THEN RadixSort(v, long) ELSE Reverse(RadixSort(v, long))

----------------------------------------------------------------------------
(* The comparison sorts of the rows of a column, a record of its type, its *)
(* values and its direction.                                               *)

\* Mutant: the direction is ignored.
AfterUpwards(col, a, b) == col.val[a] > col.val[b]

\* lib_quicksort_cmp_item says that row a comes after, or before, row b.
After(col, a, b) == IF col.isUp THEN col.val[a] > col.val[b] ELSE col.val[a] < col.val[b]
Differ(col, a, b) == col.val[a] # col.val[b]

Merge(col) ==
  LET merge[s \in RowLists(Len(col.val)) \X RowLists(Len(col.val))] ==
        LET front == s[1]
            back  == s[2]
        IN  IF front = <<>> THEN back
            ELSE IF back = <<>> THEN front
            ELSE IF After(col, Head(front), Head(back))
                 THEN <<Head(back)>> \o merge[<<front, Tail(back)>>]
                 ELSE <<Head(front)>> \o merge[<<Tail(front), back>>]
  IN  merge

\* lib_mergesort
MergeSort(col) ==
  LET sort[rows \in RowLists(Len(col.val))] ==
        LET mid   == Len(rows) \div 2
            front == sort[SubSeq(rows, 1, mid)]
            back  == sort[SubSeq(rows, mid + 1, Len(rows))]
        IN  IF Len(rows) < 2 THEN rows
            ELSE IF After(col, front[mid], back[1]) THEN Merge(col)[<<front, back>>]
            ELSE front \o back
  IN  sort

Exchange(rows, a, b) ==
  [r \in DOMAIN rows |-> IF r = a THEN rows[b] ELSE IF r = b THEN rows[a] ELSE rows[r]]

\* lib_partition around the first row, between two places: the rows and the
\* place of the pivot.
Between(n) ==
  {s \in RowLists(n) \X Nat \X Nat : s[2] \in 1 .. s[3] - 1 /\ s[3] <= Len(s[1]) + 1}
PartitionRows(col) ==
  LET partition[s \in Between(Len(col.val))] ==
        LET rows == s[1]
            up   == Min({k \in s[2] + 1 .. Len(rows) : After(col, rows[k], rows[1])}
                          \cup {Len(rows) + 1})
            down == Max({k \in 1 .. s[3] - 1 : ~ After(col, rows[k], rows[1])})
        IN  IF up >= down THEN <<Exchange(rows, 1, down), down>>
            ELSE partition[<<Exchange(rows, up, down), up, down>>]
  IN  partition

\* lib_quicksort_other.  A segment of equal rows is left as it is.
QuickSort(col) ==
  LET sort[rows \in RowLists(Len(col.val))] ==
        LET p == PartitionRows(col)[<<rows, 1, Len(rows) + 1>>]
        IN  IF \A r \in DOMAIN rows : ~ Differ(col, rows[r], rows[1]) THEN rows
            ELSE sort[SubSeq(p[1], 1, p[2] - 1)] \o <<p[1][p[2]]>>
                   \o sort[SubSeq(p[1], p[2] + 1, Len(rows))]
  IN  sort

----------------------------------------------------------------------------
(* Lists of columns.                                                       *)

Height(cols) == IF cols = <<>> THEN 0 ELSE Len(cols[1].val)

\* lib_order_by_sorted: rows in order, not all equal, are not sorted again, and
\* reversed where they ascend and are to descend.
Ascends(col, rows) ==
  /\ \E r \in 2 .. Len(rows) : Differ(col, rows[r - 1], rows[r])
  /\ \A r \in 2 .. Len(rows) : col.val[rows[r - 1]] <= col.val[rows[r]]

SortColumn(col, rows) ==
  IF Ascends(col, rows) THEN IF col.isUp THEN rows ELSE Reverse(rows)
  ELSE IF col.type \in {"i32", "i64"} THEN MergeSort(col)[rows]
  ELSE QuickSort(col)[rows]

\* The end of the run that starts the rows: the first place after it.
Bisect(col, rows) ==
  LET bisect[s \in Nat \X Nat] ==
        LET first == s[1]
            end == s[2]
            mid == (first + end) \div 2
        IN  IF first >= end \/ ~ Differ(col, rows[1], rows[end - 1]) THEN end
            ELSE IF Differ(col, rows[1], rows[mid]) THEN bisect[<<first, mid>>]
            ELSE bisect[<<mid + 1, end>>]
  IN  bisect

RunEnd(col, rows) ==
  LET changes == {r \in 2 .. Len(rows) : r <= RunProbe /\ Differ(col, rows[r - 1], rows[r])}
  IN  IF changes # {} THEN Min(changes)
      ELSE IF Len(rows) <= RunProbe THEN Len(rows) + 1
      ELSE Bisect(col, rows)[<<1, Len(rows) + 1>>]

\* The loop over the runs, where next sorts by the columns that follow.
SortRuns(col, next) ==
  LET sort[rows \in RowLists(Len(col.val))] ==
        LET end == RunEnd(col, rows)
        IN  IF rows = <<>> THEN rows
            ELSE next[SubSeq(rows, 1, end - 1)] \o sort[SubSeq(rows, end, Len(rows))]
  IN  sort

\* lib_quicksort_list, by the last k columns.
SortList(cols) ==
  LET lists == RowLists(Height(cols))
      sort[k \in 0 .. Len(cols)] ==
        LET col == cols[Len(cols) - k + 1]
        IN  IF k = 0 THEN [rows \in lists |-> rows]
            ELSE [rows \in lists |-> SortRuns(col, sort[k - 1])[SortColumn(col, rows)]]
  IN  sort[Len(cols)]

----------------------------------------------------------------------------
(* The primitives.                                                         *)

\* Their operand: columns of one height, of numbers in the range of their type.
Operand(cols) ==
  /\ cols \in Seq([type : {"i32", "i64", "other"}, val : Seq(Int), isUp : BOOLEAN])
  /\ \A k \in DOMAIN cols :
       /\ Len(cols[k].val) = Height(cols)
       /\ \A r \in DOMAIN cols[k].val :
            /\ cols[k].type = "i32" => -Half <= 2 * cols[k].val[r] /\ 2 * cols[k].val[r] < Half
            /\ cols[k].type = "i64" =>
                 -(Half * Half) <= 2 * cols[k].val[r] /\ 2 * cols[k].val[r] < Half * Half

\* checkOrderCase1: ((0 | x0) << 32) | x1.  A negative x1 sets the whole upper
\* half.
Packs(cols) ==
  Len(cols) = 2 /\ cols[1].type = "i32" /\ cols[2].type = "i32" /\ cols[1].isUp = cols[2].isUp
Packed(cols) ==
  [r \in 1 .. Height(cols) |->
     IF cols[2].val[r] < 0 THEN cols[2].val[r] ELSE cols[1].val[r] * Half + cols[2].val[r]]

\* Mutant: every column takes the quicksort.
QuickVector(col) == QuickSort(col)[Rows(Len(col.val))]

\* lib_order_by_vector
OrderVector(col) ==
  IF col.type = "i32" THEN Radix(col.val, FALSE, col.isUp)
  ELSE IF col.type = "i64" THEN Radix(col.val, TRUE, col.isUp)
  ELSE QuickSort(col)[Rows(Len(col.val))]

\* pfnOrderBy
OrderBy(cols) ==
  IF Packs(cols) THEN Radix(Packed(cols), TRUE, cols[1].isUp)
  ELSE IF Len(cols) = 1 THEN OrderVector(cols[1])
  ELSE SortList(cols)[Rows(Height(cols))]

\* Mutant: rows are compared on the first column.
SameFirst(cols, a, b) == ~ Differ(cols[1], a, b)

SameRow(cols, a, b) == \A k \in DOMAIN cols : ~ Differ(cols[k], a, b)

\* lib_get_group_by_other, lib_group_by_normal_int and _long: the cells of
\* neighbours that are equal.  The keys are the first rows of the cells.
Cells(cols, rows) ==
  LET cells[k \in 0 .. Len(rows)] ==
        LET before == cells[k - 1]
        IN  IF k = 0 THEN <<>>
            ELSE IF k > 1 /\ SameRow(cols, rows[k - 1], rows[k])
            THEN [before EXCEPT ![Len(before)] = Append(@, rows[k])]
            ELSE Append(before, <<rows[k]>>)
  IN  cells[Len(rows)]

\* pfnGroupBasic sorts upwards.
GroupBy(cols) ==
  LET upwards == [k \in DOMAIN cols |-> [cols[k] EXCEPT !.isUp = TRUE]]
  IN  Cells(cols, OrderBy(upwards))
=============================================================================
