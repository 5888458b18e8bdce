----------------------------- MODULE Statements -----------------------------
(***************************************************************************)
(* The statements of a method body (frontend/tree.h), as far as control    *)
(* and data flow see them.                                                 *)
(*                                                                         *)
(* A program is a sequence of nodes in source order: node 1 is the method  *)
(* itself.  block holds the statements of the method, of the then branch   *)
(* or of the loop body, other those of the else branch; uses holds the      *)
(* variables that a statement or a condition reads, in order.              *)
(***************************************************************************)
EXTENDS Naturals, Sequences, Functions

CONSTANTS Names, Programs

\* Assignments of what an elementwise builtin returns (whose functions getFuncNameC
\* of optimizer/common.cc knows), of what another call returns, and of a literal.
Assigning == {"elementwise", "assign", "literal"}
Simple == Assigning \cup {"expr", "return", "break", "continue"}
Loops == {"while", "repeat"}
Kinds == Simple \cup Loops \cup {"method", "if"}

Node == [kind : Kinds, targets : SUBSET Names, uses : Seq(Names),
         block : Seq(Nat), other : Seq(Nat)]

\* A child comes after its parent and has no other; a jump ends its block.
WellFormed(p) ==
  /\ p \in Seq(Node) /\ p # <<>>
  /\ \A n \in DOMAIN p :
       LET list == p[n].block \o p[n].other
       IN  /\ p[n].kind = "method" <=> n = 1
           /\ p[n].kind \in Simple => list = <<>>
           /\ p[n].kind # "if" => p[n].other = <<>>
           /\ IsInjective(list)
           /\ \A m \in Range(list) : m \in DOMAIN p /\ m > n
  /\ \A n \in DOMAIN p \ {1} :
       \E m \in DOMAIN p :
         /\ n \in Range(p[m].block \o p[m].other)
         /\ \A l \in DOMAIN p : n \in Range(p[l].block \o p[l].other) => l = m
  /\ \A n \in DOMAIN p :
       \A list \in {p[n].block, p[n].other} : \A k \in 1 .. Len(list) - 1 :
         p[list[k]].kind \notin {"return", "break", "continue"}

ProgramsAssumption == \A p \in Programs : WellFormed(p)
ASSUME ProgramsAssumption

VARIABLE prog

Nodes == DOMAIN prog
Kind(n) == prog[n].kind
Targets(n) == prog[n].targets
Uses(n) == Range(prog[n].uses)
Block(n) == prog[n].block
Other(n) == prog[n].other
=============================================================================
