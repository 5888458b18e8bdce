------------------------------ MODULE Builtins ------------------------------
(***************************************************************************)
(* A program that calls builtins one after the other: searches and joins,  *)
(* with hash tables, and @order and @group, which do without.              *)
(***************************************************************************)
EXTENDS HashBuiltins, Ordering

CONSTANT ColumnLists  \* the operands of @order and @group

ColumnListsAssumption == \A list \in ColumnLists : Operand(list)
ASSUME ColumnListsAssumption

VARIABLES
  sorting,  \* "idle", "order" or "group"
  cols,     \* its operand
  ranks     \* its result: the rows in order, or cells of rows

sort == <<sorting, cols, ranks>>

BuiltinsInit == HashInit /\ sorting = "idle" /\ cols = <<>> /\ ranks = <<>>

\* @order, and @group, which does not look at the directions.
Sort ==
  /\ phase = "idle" /\ Idle /\ sorting = "idle"
  /\ \E list \in ColumnLists :
       /\ cols' = list
       /\ \/ sorting' = "order" /\ ranks' = OrderBy(list)
          \/ /\ sorting' = "group" /\ ranks' = GroupBy(list)
             /\ \A k \in DOMAIN list : list[k].isUp
  /\ UNCHANGED hashVars

Sorted ==
  /\ sorting # "idle"
  /\ sorting' = "idle" /\ cols' = <<>> /\ ranks' = <<>>
  /\ UNCHANGED hashVars

HashStep == sorting = "idle" /\ HashNext /\ UNCHANGED sort

BuiltinsNext == HashStep \/ Sort \/ Sorted

BuiltinsSpec == BuiltinsInit /\ [][BuiltinsNext]_<<hashVars, sort>>

----------------------------------------------------------------------------

Keyed(r, q) == \A k \in DOMAIN cols : cols[k].val[r] = cols[k].val[q]

\* Row r comes before row q by the first column in which they differ.
Before(r, q) ==
  \E k \in DOMAIN cols :
    /\ \A l \in 1 .. k - 1 : cols[l].val[r] = cols[l].val[q]
    /\ IF cols[k].isUp THEN cols[k].val[r] < cols[k].val[q]
                       ELSE cols[k].val[r] > cols[k].val[q]

\* The digits that a radix sort looks at tell the keys apart and sort them:
\* there are no negative ones.  Comparison sorts take all.
ByDigits == Packs(cols) \/ (Len(cols) = 1 /\ cols[1].type # "other")
NoNegative == \A k \in DOMAIN cols : \A r \in DOMAIN cols[k].val : cols[k].val[r] >= 0

\* @order returns every row once, by the columns and their directions.
OrderSorts ==
  sorting = "order" /\ (ByDigits => NoNegative) =>
    /\ Len(ranks) = Height(cols)
    /\ \A r, q \in DOMAIN ranks : r < q => ranks[r] # ranks[q] /\ ~ Before(ranks[q], ranks[r])

\* Of integer columns that all ascend @order keeps equal rows as they were,
\* whichever sort it takes.
OrderIsStable ==
  sorting = "order" /\ (\A k \in DOMAIN cols : cols[k].isUp /\ cols[k].type # "other") =>
    \A r, q \in DOMAIN ranks : r < q /\ Keyed(ranks[r], ranks[q]) => ranks[r] < ranks[q]

\* @group puts every row into one cell, and two rows into the same cell exactly
\* when they are equal.  A single i32 column may be negative: its digits still
\* tell its values apart.
GroupsPartition ==
  sorting = "group" /\ (Packs(cols) \/ (Len(cols) = 1 /\ cols[1].type = "i64") => NoNegative) =>
    LET at == {s \in (DOMAIN ranks) \X (1 .. Height(cols)) : s[2] <= Len(ranks[s[1]])}
    IN  /\ \A r \in 1 .. Height(cols) : \E p \in at : ranks[p[1]][p[2]] = r
        /\ \A p, q \in at :
             /\ ranks[p[1]][p[2]] = ranks[q[1]][q[2]] => p = q
             /\ Keyed(ranks[p[1]][p[2]], ranks[q[1]][q[2]]) <=> p[1] = q[1]
=============================================================================
