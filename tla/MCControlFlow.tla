--------------------------- MODULE MCControlFlow ---------------------------
(***************************************************************************)
(* Method bodies with every statement inside every other: a loop with an   *)
(* if that jumps, loops in loops with jumps at both levels, a return in a  *)
(* nested loop, empty bodies, a jump as the last statement of a body, and   *)
(* jumps outside of loops.                                                 *)
(***************************************************************************)
EXTENDS ControlFlow

Nd(kind, block, other) ==
  [kind |-> kind, targets |-> {}, uses |-> <<>>, block |-> block, other |-> other]
S(kind) == Nd(kind, <<>>, <<>>)

\* { while { if {jump} else {s}  s } s }
JumpInIf(loop, jump) ==
  << Nd("method", <<2, 7>>, <<>>),
     Nd(loop, <<3, 6>>, <<>>), Nd("if", <<4>>, <<5>>), S(jump), S("assign"),
     S("assign"), S("return") >>

\* { loop { loop { if {jump} s } if {jump} } s }
LoopInLoop(outer, inner, jump, jump2) ==
  << Nd("method", <<2, 9>>, <<>>),
     Nd(outer, <<3, 7>>, <<>>), Nd(inner, <<4, 6>>, <<>>),
     Nd("if", <<5>>, <<>>), S(jump), S("assign"),
     Nd("if", <<8>>, <<>>), S(jump2), S("assign") >>

\* { loop {} loop { s jump } }
Degenerate(loop, jump) ==
  << Nd("method", <<2, 3>>, <<>>),
     Nd(loop, <<>>, <<>>), Nd(loop, <<4, 5>>, <<>>), S("assign"), S(jump) >>

\* { loop { s } if { if {s} else {jump} } s }
Outside(loop, jump) ==
  << Nd("method", <<2, 4, 8>>, <<>>),
     Nd(loop, <<3>>, <<>>), S("assign"),
     Nd("if", <<5>>, <<>>), Nd("if", <<6>>, <<7>>), S("assign"), S(jump), S("assign") >>

Jumps == {"break", "continue", "return"}
MCPrograms ==
  {JumpInIf(l, j) : l \in Loops, j \in Jumps}
    \cup {LoopInLoop(o, l, j, k) : o \in Loops, l \in Loops, j \in Jumps, k \in Jumps}
    \cup {Degenerate(l, j) : l \in Loops, j \in Jumps}
    \cup {Outside(l, j) : l \in Loops, j \in Jumps}
MCCounts == {-1, 0, 1, 2}
=============================================================================
