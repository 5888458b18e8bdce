---------------------------- MODULE MCJoinIndex ----------------------------
(* Three keys, of which two share a partition and all share the hash: a    *)
(* chain gets a second cell, and three equal keys overflow a node.         *)
EXTENDS JoinIndex

MCKeys == {0, 1, 2}
MCHash == [k \in MCKeys |-> 0]
=============================================================================
