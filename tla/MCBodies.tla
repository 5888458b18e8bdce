------------------------------ MODULE MCBodies ------------------------------
(***************************************************************************)
(* Method bodies.  Those of MCJumps have loops and jumps over two          *)
(* variables with every choice of what the assignments define and read,    *)
(* except that none has two targets or reads what it defines, as those of  *)
(* MCUpdates do.  Those of MCTrees have every choice of elementwise and    *)
(* other statements with up to two operands.                               *)
(***************************************************************************)
EXTENDS Statements, FiniteSets

Nd(kind, uses, block, other) ==
  [kind |-> kind, targets |-> {}, uses |-> uses, block |-> block, other |-> other]
S(kind, uses) == Nd(kind, uses, <<>>, <<>>)
Set(v, kind, uses) == [S(kind, uses) EXCEPT !.targets = {v}]
Plain(s) == [S("assign", s.uses) EXCEPT !.targets = s.targets]

\* { s  loop(a) { s if(b) {s jump} s }  return a, b }
JumpInIf(loop, jump, s) ==
  << Nd("method", <<>>, <<2, 3, 9>>, <<>>),
     Plain(s[1]), Nd(loop, <<"a">>, <<4, 5, 8>>, <<>>),
     Plain(s[2]), Nd("if", <<"b">>, <<6, 7>>, <<>>), Plain(s[3]), S(jump, <<>>),
     Plain(s[4]), S("return", <<"a", "b">>) >>

\* { s  outer { inner(a) { s if(b) {jump} else {s jump2} } s }  return a, b }
LoopInLoop(outer, inner, jump, jump2, s) ==
  << Nd("method", <<>>, <<2, 3, 11>>, <<>>),
     Plain(s[1]), Nd(outer, <<>>, <<4, 10>>, <<>>),
     Nd(inner, <<"a">>, <<5, 6>>, <<>>), Plain(s[2]),
     Nd("if", <<"b">>, <<7>>, <<8, 9>>), S(jump, <<>>), Plain(s[3]), S(jump2, <<>>),
     Plain(s[4]), S("return", <<"a", "b">>) >>

Fresh == [targets : {{"a"}, {"b"}}, uses : {<<>>}]
Crossed == {[targets |-> {"a"}, uses |-> <<"b">>], [targets |-> {"b"}, uses |-> <<"a">>]}
Jumps == {"break", "continue", "return"}

MCJumps ==
  {JumpInIf(l, j, s) : l \in Loops, j \in Jumps,
                       s \in {r \in [1 .. 4 -> Fresh \cup Crossed] : r[1] \in Fresh}}
    \cup {LoopInLoop(o, l, j, k, s) : o \in Loops, l \in Loops, j \in Jumps, k \in Jumps,
                                      s \in [1 .. 4 -> Crossed]}

\* src/tests/unit/pass/t19.hir, and it with a second definition.
Updates == [targets : {{"a"}}, uses : {<<"a">>}]
MCUpdates ==
  {JumpInIf("repeat", "break", s) :
     s \in {r \in [1 .. 4 -> Fresh \cup Crossed \cup Updates] : r[1].uses = <<>> /\ r[2] \in Updates}}

----------------------------------------------------------------------------
Operands(vs) == {<<>>} \cup {<<v>> : v \in vs} \cup {<<v, w>> : v \in vs, w \in vs}
Sets(v, vs) == {Set(v, kind, uses) : kind \in {"elementwise", "assign"}, uses \in Operands(vs)}
First(v) == {Set(v, kind, <<>>) : kind \in Assigning}
Elementwise(v, vs) == {Set(v, "elementwise", uses) : uses \in Operands(vs)}

\* { a = ..  b = ..  c = ..  d = ..  return d }
Straight ==
  { << Nd("method", <<>>, <<2, 3, 4, 5, 6>>, <<>>), a, b, c, d, S("return", <<"d">>) >> :
      a \in First("a"), b \in First("b") \cup Sets("b", {"p", "a"}), c \in Sets("c", {"a", "b"}),
      d \in Elementwise("d", {"a", "b", "c"}) }

\* { a = ..  if(p) {b = ..} else {b = ..}  c = ..  return c }
Branch ==
  { << Nd("method", <<>>, <<2, 3, 6, 7>>, <<>>), a, Nd("if", <<"p">>, <<4>>, <<5>>),
       b, b2, c, S("return", <<"c">>) >> :
      a \in First("a"), b \in Sets("b", {"a"}), b2 \in First("b") \cup Elementwise("b", {"a", "p"}),
      c \in Elementwise("c", {"a", "b"}) }

\* { a = ..  d = ..  while(p) {b = ..  c = ..  d = .. }  return }
InLoop ==
  { << Nd("method", <<>>, <<2, 3, 4, 8>>, <<>>), a, Set("d", "assign", <<>>),
       Nd("while", <<"p">>, <<5, 6, 7>>, <<>>), b, c, d, S("return", <<>>) >> :
      a \in First("a"), b \in Sets("b", {"a", "d"}), c \in Sets("c", {"a", "b", "d"}),
      d \in Elementwise("d", {"b", "c"}) }

\* The variable of an elementwise statement is read in one place, or is the
\* first of them and is read by several assignments, once by each: then the
\* pass comes to it before a walk from another statement does.
Places(p, n) ==
  {<<m, k>> \in (DOMAIN p) \X (1 .. 2) : k \in DOMAIN p[m].uses /\ p[m].uses[k] \in p[n].targets}
SharedFirst(p) ==
  \A n \in DOMAIN p : p[n].kind = "elementwise" /\ Cardinality(Places(p, n)) > 1 =>
    /\ \A i, j \in Places(p, n) : p[i[1]].kind \in Assigning /\ (i[1] = j[1] => i = j)
    /\ \A m \in 2 .. n - 1 : p[m].kind # "elementwise"
MCTrees == {p \in Straight \cup Branch \cup InLoop : SharedFirst(p)}
MCAll == MCJumps \cup MCTrees

\* The body of src/tests/unit/pass/t16.hir.
T16 ==
  << Nd("method", <<>>, <<2, 3, 4, 5, 9>>, <<>>),
     Set("x0", "elementwise", <<>>), Set("x1", "elementwise", <<"x0", "x0">>),
     Set("x2", "elementwise", <<"x1">>), Nd("if", <<"x2">>, <<6>>, <<7, 8>>),
     S("return", <<"x0">>), Set("z", "elementwise", <<"x1", "x1">>),
     S("return", <<"z">>), S("return", <<"x1">>) >>
MCT16 == {T16}
=============================================================================
