------------------------------ MODULE Compress ------------------------------
(***************************************************************************)
(* @compress(x, y) and @where(x) of the backend (pfnCompress and pfnWhere, *)
(* backend/h_primitive.cc): the items of y, or the indices, at the true    *)
(* positions of x.                                                         *)
(*                                                                         *)
(* The rows are divided among H_CORE OpenMP threads, a contiguous segment  *)
(* each (DOT, backend/common.h), and run twice.  The first pass counts the *)
(* items of every segment, the main thread turns the counts into starting  *)
(* offsets and allocates the result, and the second pass writes the items. *)
(* There is no lock and no atomic: what keeps two threads out of each      *)
(* other's cells is that both passes select the same rows.                 *)
(*                                                                         *)
(* The types of the operands are those the primitives accept, and the      *)
(* regions get the H_CORE threads that setNumberOfCore saw.                *)
(***************************************************************************)
EXTENDS Integers, FiniteSets

CONSTANTS
  H_CORE,      \* number of threads of every parallel region
  thresheld,   \* @where is sequential below this length
  Items,       \* what y may hold
  NoItem,      \* content of a cell that was allocated and not yet written
  Lengths      \* bound on the lengths of the operands

SizeAssumption ==
  /\ H_CORE \in Nat \ {0} /\ thresheld \in Nat
  /\ Lengths \subseteq Nat
  /\ NoItem \notin Items \cup Nat
ASSUME SizeAssumption

VARIABLES
  op,      \* "compress" or "where"
  lenX,    \* number of rows
  x,       \* the boolean operand
  y,       \* the items, or the indices
  phase,   \* "count" until the result is allocated, then "write", "done"
  row,     \* loop variable i of every thread
  parZ,    \* items counted by every thread
  core,    \* loop variable of the main thread between the passes
  lenZ,    \* length of the result
  offset,  \* next cell of every thread
  z        \* the result

operands == <<op, lenX, x, y>>
vars == <<operands, phase, row, parZ, core, lenZ, offset, z>>

Rows == 0 .. lenX - 1

----------------------------------------------------------------------------
(* DOT: the segment of a thread.  The short @where is one thread's loop.   *)

Cores == IF op = "where" /\ lenX < thresheld THEN 1 ELSE H_CORE
Threads == 0 .. Cores - 1

\* Mutant: the segments are rounded up.
SegUp == (lenX + Cores - 1) \div Cores

Seg == lenX \div Cores
First(t) == t * Seg

Limit(t) == IF t # Cores - 1 THEN First(t) + Seg ELSE lenX

Busy(t) == row[t] < Limit(t)
Joined == \A t \in Threads : ~ Busy(t)

----------------------------------------------------------------------------

Init ==
  /\ op \in {"compress", "where"}
  /\ lenX \in Lengths
  /\ x \in [Rows -> BOOLEAN]
  /\ IF op = "where" THEN y = [r \in Rows |-> r]
     ELSE \E n \in Lengths : y \in [0 .. n - 1 -> Items]
  /\ phase = "count"
  /\ row = [t \in Threads |-> First(t)]
  /\ parZ = [t \in Threads |-> 0]
  /\ core = 0
  /\ lenZ = 0
  /\ offset = [t \in Threads |-> 0]
  /\ z = <<>>

SameLength == DOMAIN y = Rows

\* Operands of different lengths.
Reject ==
  /\ phase = "count" /\ ~ SameLength
  /\ phase' = "E_LENGTH"
  /\ UNCHANGED <<operands, row, parZ, core, lenZ, offset, z>>

\* getNumOfNonZero, the counting pass.
CountRow(t) ==
  /\ phase = "count" /\ SameLength /\ Busy(t)
  /\ parZ' = [parZ EXCEPT ![t] = @ + (IF x[row[t]] THEN 1 ELSE 0)]
  /\ row' = [row EXCEPT ![t] = @ + 1]
  /\ UNCHANGED <<operands, phase, core, lenZ, offset, z>>

\* Mutants: the count of the wrong thread, or counts not accumulated.
OffsetOfSelf(c) == IF c = 0 THEN 0 ELSE parZ[c] + offset[c - 1]
OffsetOfPrevious(c) == IF c = 0 THEN 0 ELSE parZ[c - 1]

OffsetOf(c) == IF c = 0 THEN 0 ELSE parZ[c - 1] + offset[c - 1]

\* When the region has joined: the total and the offsets, a core at a time.
SumCore ==
  /\ phase = "count" /\ SameLength /\ Joined /\ core < Cores
  /\ lenZ' = lenZ + parZ[core]
  /\ offset' = [offset EXCEPT ![core] = OffsetOf(core)]
  /\ core' = core + 1
  /\ UNCHANGED <<operands, phase, row, parZ, z>>

\* @compress copies y, or nothing, when every row is selected.
Copies == op = "compress" /\ lenX = lenZ

CopyAll ==
  /\ phase = "count" /\ SameLength /\ core = Cores /\ Copies
  /\ phase' = "done"
  /\ z' = IF lenZ > 0 THEN y ELSE z
  /\ UNCHANGED <<operands, row, parZ, core, lenZ, offset>>

\* initV, and the start of the writing region.
Allocate ==
  /\ phase = "count" /\ SameLength /\ core = Cores /\ ~ Copies
  /\ phase' = "write"
  /\ z' = [c \in 0 .. lenZ - 1 |-> NoItem]
  /\ row' = [t \in Threads |-> First(t)]
  /\ UNCHANGED <<operands, parZ, core, lenZ, offset>>

\* Mutant: the loop advances with the result.
AdvanceSelected(t) == [row EXCEPT ![t] = @ + (IF x[row[t]] THEN 1 ELSE 0)]

Advance(t) == [row EXCEPT ![t] = @ + 1]

\* The writing pass.
WriteRow(t) ==
  /\ phase = "write" /\ Busy(t)
  /\ IF x[row[t]]
     THEN /\ z' = [z EXCEPT ![offset[t]] = y[row[t]]]
          /\ offset' = [offset EXCEPT ![t] = @ + 1]
     ELSE UNCHANGED <<z, offset>>
  /\ row' = Advance(t)
  /\ UNCHANGED <<operands, phase, parZ, core, lenZ>>

Finish ==
  /\ phase = "write" /\ Joined
  /\ phase' = "done"
  /\ UNCHANGED <<operands, row, parZ, core, lenZ, offset, z>>

Main == Reject \/ SumCore \/ CopyAll \/ Allocate \/ Finish
Worker(t) == CountRow(t) \/ WriteRow(t)

Next == Main \/ \E t \in Threads : Worker(t)

\* OpenMP runs every thread of a region to its end, and the main thread goes
\* on after it.
Fairness ==
  /\ WF_vars(Main)
  /\ \A t \in 0 .. H_CORE - 1 : WF_vars(t \in Threads /\ Worker(t))

Spec == Init /\ [][Next]_vars /\ Fairness

----------------------------------------------------------------------------

\* Type invariant.
TypeOK ==
  /\ op \in {"compress", "where"}
  /\ lenX \in Nat /\ lenZ \in Nat
  /\ x \in [Rows -> BOOLEAN]
  /\ \E n \in Lengths : y \in [0 .. n - 1 -> Items \cup Nat]
  /\ phase \in {"count", "write", "done", "E_LENGTH"}
  /\ row \in [Threads -> 0 .. lenX]
  /\ parZ \in [Threads -> Nat]
  /\ core \in 0 .. Cores
  /\ offset \in [Threads -> Nat]
  /\ \/ phase \in {"count", "E_LENGTH"} /\ z = <<>>
     \/ phase \in {"write", "done"}
        /\ z \in [0 .. lenZ - 1 -> Items \cup Nat \cup {NoItem}]

\* The number of rows from l up to h - 1 that f selects.
Selected(f, l, h) == Cardinality({r \in l .. h - 1 : f[r]})

\* A thread about to write finds its cell inside the result and not yet
\* written: the unsynchronised writes of the second pass never collide.
FreeCell ==
  phase = "write" =>
    \A t \in Threads :
      Busy(t) /\ x[row[t]] => offset[t] \in 0 .. lenZ - 1 /\ z[offset[t]] = NoItem

\* The result holds the items of y in the selected rows, in their order, and
\* nothing else, whatever the number of threads.
KeepsSelected ==
  phase = "done" =>
    /\ lenZ = Selected(x, 0, lenX)
    /\ \A r \in Rows : x[r] => z[Selected(x, 0, r)] = y[r]

\* The primitive always ends, with a result or, when the operands have
\* different lengths, with an error.
Terminates == <>(phase = (IF SameLength THEN "done" ELSE "E_LENGTH"))
=============================================================================
