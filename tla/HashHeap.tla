------------------------------ MODULE HashHeap ------------------------------
(***************************************************************************)
(* The heap of the hash tables (backend/h_memory.cc): a stack of words,    *)
(* used up to hHeapCur.  A builtin marks the top, allocates its table and  *)
(* releases it by setting the top back.  Nothing clears what is allocated: *)
(* a new table is empty because every word from the top on is clear.       *)
(*                                                                         *)
(* A word is the size of a node, a multiple of 4 bytes, so that no size is *)
(* rounded.                                                                *)
(***************************************************************************)
EXTENDS Integers

CONSTANTS
  INIT_HASH_SIZE,  \* number of words
  Clear            \* a word of zeros

HashHeapAssumption == INIT_HASH_SIZE \in Nat \ {0}
ASSUME HashHeapAssumption

VARIABLES
  hHeap,     \* the words
  hHeapCur   \* the first free one

heap == <<hHeap, hHeapCur>>

Words == 0 .. INIT_HASH_SIZE - 1

initHashHeap ==
  /\ hHeap = [a \in Words |-> Clear]
  /\ hHeapCur = 0

\* allocHashMem: without room, "Hash heap full" ends the program.
Fits(size) == hHeapCur + size < INIT_HASH_SIZE

\* Mutant: the word at the mark is not cleared.
ReleasedBeyond(mark) ==
  [a \in Words |-> IF a \in mark + 1 .. hHeapCur - 1 THEN Clear ELSE hHeap[a]]

\* setHashHeap
Released(mark) ==
  [a \in Words |-> IF a \in mark .. hHeapCur - 1 THEN Clear ELSE hHeap[a]]
=============================================================================
