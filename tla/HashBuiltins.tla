---------------------------- MODULE HashBuiltins ----------------------------
(***************************************************************************)
(* The builtins that build hash tables, called one after the other:        *)
(* searches, which build their tables in the hash heap and take them down  *)
(* again, joins of two vectors, and joins of lists of columns              *)
(* (lib_join_index_basic_v3, backend/h_hash_v3.cc), of which only the      *)
(* table that they leave in the heap is modelled.  Every call chooses its  *)
(* operands, and begins when the one before it is done.                    *)
(*                                                                         *)
(* A join of two vectors marks and releases the heap as a search does; its *)
(* own table, of another kind, is that of JoinIndex.                       *)
(***************************************************************************)
EXTENDS JoinIndex, Search

CONSTANT ListTables  \* sizes of the tables of joins of lists

ListTablesAssumption == ListTables \subseteq Nat
ASSUME ListTablesAssumption

join == vars

JoinIdle ==
  /\ phase = "idle" /\ left = <<>> /\ right = <<>> /\ isEq = TRUE /\ i = 1
  /\ table = <<>> /\ tempHN = <<>> /\ c = 1 /\ lenZ = 0 /\ z = <<>>

HashInit == JoinIdle /\ SearchInit /\ initHashHeap

\* @join_index of two vectors: the call, its steps, and the return.
CallJoin ==
  /\ phase = "idle" /\ Idle
  /\ phase' = "dispatch"
  /\ left' \in Vectors(Keys, MaxRows) /\ right' \in Vectors(Keys, MaxRows)
  /\ isEq' \in BOOLEAN
  /\ UNCHANGED <<i, table, tempHN, c, lenZ, z, local, heap>>

JoinStep == Next /\ UNCHANGED <<local, heap>>

JoinDone ==
  /\ phase = "returned"
  /\ phase' = "idle" /\ left' = <<>> /\ right' = <<>> /\ isEq' = TRUE /\ i' = 1
  /\ table' = <<>> /\ tempHN' = <<>> /\ c' = 1 /\ lenZ' = 0 /\ z' = <<>>
  /\ UNCHANGED <<local, heap>>

\* The table of a join of lists stays.
ListJoin(size) ==
  /\ phase = "idle" /\ Idle /\ Fits(size)
  /\ hHeapCur' = hHeapCur + size
  /\ hHeap' = [a \in Words |-> IF a \in hHeapCur .. hHeapCur + size - 1
                               THEN Link(NULL) ELSE hHeap[a]]
  /\ UNCHANGED <<join, local>>

SearchStep ==
  /\ phase = "idle"
  /\ SearchNext
  /\ UNCHANGED join

HashNext ==
  \/ SearchStep
  \/ CallJoin \/ JoinStep \/ JoinDone
  \/ \E size \in ListTables : ListJoin(size)

hashVars == <<join, local, heap>>

HashSpec == HashInit /\ [][HashNext]_hashVars
=============================================================================
