------------------------------ MODULE MCShapes ------------------------------
(***************************************************************************)
(* Shapes over vectors that are alike, and tables of one row, which        *)
(* conform to everything, or of two.  Methods have up to three statements, *)
(* or four when there is an unknown shape: the last may overwrite it.      *)
(***************************************************************************)
EXTENDS Shapes, TLC

Alike == Permutations(Vectors)
MCInit == Init /\ \A t \in Tables : rows[t] # 0
MCNext ==
  /\ Next
  /\ Cardinality(code') = 4 => \E p \in DOMAIN nodes : IsUnknown(nodes[p])
MCSpec == MCInit /\ [][MCNext]_vars
=============================================================================
