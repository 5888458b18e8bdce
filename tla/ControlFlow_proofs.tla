------------------------- MODULE ControlFlow_proofs -------------------------
(***************************************************************************)
(* The interpreter follows the control-flow graph, whatever the method     *)
(* body and however deep its statements are nested.                        *)
(*                                                                         *)
(* The C stack is the path from the method to the statement that runs.     *)
(* What may be evaluated next when a frame comes to the top (Goes) depends *)
(* on that frame alone, and the graph allows it after the node evaluated   *)
(* last; a jump under way is for the loop that catches it (Caught).        *)
(***************************************************************************)
EXTENDS ControlFlow, LeastNumber

----------------------------------------------------------------------------
(* Follow and LoopOf are recursive functions: the equations that define    *)
(* them have a solution, since a parent comes before its children.         *)

\* A function of two values: given for some numbers; for others the first is that
\* of a smaller number, and the second adds a set to that of the smaller number.
FollowsParents(f, N, B, v, e, p) ==
  f = [n \in 1 .. N |-> IF n \in B THEN v[n] ELSE <<f[p[n]][1], e[n] \cup f[p[n]][2]>>]
LEMMA ParentsFirst ==
  ASSUME NEW N \in Nat, NEW B, NEW v, NEW e, NEW p,
         \A n \in 1 .. N : n \notin B => p[n] \in 1 .. n - 1
  PROVE  \E f : FollowsParents(f, N, B, v, e, p)
<1> DEFINE Upto(k) == \E f : FollowsParents(f, k, B, v, e, p)
           T == {k \in 0 .. N : ~ Upto(k)}
<1>1. Upto(0)
  <2>1. [n \in 1 .. 0 |-> 0] = [n \in 1 .. 0 |-> IF n \in B THEN v[n] ELSE <<[l \in 1 .. 0 |-> 0][p[n]][1], e[n] \cup [l \in 1 .. 0 |-> 0][p[n]][2]>>]
    OBVIOUS
  <2> QED BY <2>1 DEF FollowsParents
<1>2. ASSUME NEW k \in 1 .. N, Upto(k - 1)
      PROVE  Upto(k)
  <2>1. PICK f : f = [n \in 1 .. k - 1 |-> IF n \in B THEN v[n] ELSE <<f[p[n]][1], e[n] \cup f[p[n]][2]>>]
    BY <1>2 DEF FollowsParents
  <2> DEFINE g == [n \in 1 .. k |-> IF n = k THEN (IF k \in B THEN v[k] ELSE <<f[p[k]][1], e[k] \cup f[p[k]][2]>>) ELSE f[n]]
  <2>2. ASSUME NEW n \in 1 .. k
        PROVE  g[n] = IF n \in B THEN v[n] ELSE <<g[p[n]][1], e[n] \cup g[p[n]][2]>>
    <3>1. CASE n \in B
      <4>1. CASE n = k
        BY <3>1, <4>1
      <4>2. CASE n # k
        <5>1. n \in 1 .. k - 1
          BY <4>2
        <5>2. f[n] = v[n]
          BY ONLY <2>1, <3>1, <5>1
        <5> QED BY <3>1, <4>2, <5>2
      <4> QED BY <4>1, <4>2
    <3>2. CASE n \notin B
      <4>1. p[n] \in 1 .. n - 1 /\ p[n] \in 1 .. k /\ p[n] # k
        BY <3>2
      <4>2. g[p[n]] = f[p[n]]
        BY <4>1
      <4>3. CASE n = k
        BY <3>2, <4>2, <4>3
      <4>4. CASE n # k
        <5>1. n \in 1 .. k - 1
          BY <4>4
        <5>2. f[n] = <<f[p[n]][1], e[n] \cup f[p[n]][2]>>
          BY <5>1, <3>2, <2>1
        <5> QED BY <5>2, <4>2, <4>4, <3>2
      <4> QED BY <4>3, <4>4
    <3> QED BY <3>1, <3>2
  <2> HIDE DEF g
  <2>3. g = [n \in 1 .. k |-> IF n \in B THEN v[n] ELSE <<g[p[n]][1], e[n] \cup g[p[n]][2]>>]
    <3>1. g = [n \in 1 .. k |-> g[n]]
      BY DEF g
    <3> QED BY <2>2, <3>1
  <2> QED BY <2>3 DEF FollowsParents
<1> HIDE DEF Upto
<1>3. T = {}
  <2>1. SUFFICES ASSUME T # {} PROVE FALSE
    OBVIOUS
  <2>2. PICK k \in T : \A j \in T : k <= j
    <3>1. T \subseteq Nat
      OBVIOUS
    <3> HIDE DEF T
    <3> QED BY <2>1, <3>1, LeastNatural
  <2>3. k \in 0 .. N /\ ~ Upto(k)
    OBVIOUS
  <2>4. k # 0
    BY <2>3, <1>1
  <2>5. k - 1 \in 0 .. N /\ ~ k <= k - 1
    BY <2>3, <2>4
  <2>6. k - 1 \notin T
    BY <2>2, <2>5
  <2>7. Upto(k - 1)
    BY <2>5, <2>6
  <2> QED BY <2>3, <2>4, <2>7, <1>2
<1>4. Upto(N)
  BY <1>3
<1> QED BY <1>4 DEF Upto

----------------------------------------------------------------------------
(* The tree of a method body.                                              *)

Lists(n) == {Block(n), Other(n)}

\* What ProgramsAssumption says of the running program, in parts.
LEMMA ProgramIsTree ==
  ASSUME prog \in Programs
  PROVE  /\ prog \in Seq(Node) /\ 1 \in Nodes /\ Kind(1) = "method"
         /\ \A n \in Nodes :
              /\ n \in Nat \ {0} /\ Kind(n) \in Kinds
              /\ Block(n) \in Seq(Nat) /\ Other(n) \in Seq(Nat)
              /\ n # 1 => Kind(n) # "method"
              /\ Kind(n) # "if" => Other(n) = <<>>
              /\ Kind(n) \in Simple => Block(n) \o Other(n) = <<>>
<1>1. WellFormed(prog)
  BY ProgramsAssumption DEF ProgramsAssumption
<1>2. prog \in Seq(Node) /\ prog # <<>>
  BY <1>1 DEF WellFormed
<1>3. 1 \in Nodes /\ \A n \in Nodes : n \in Nat \ {0} /\ prog[n] \in Node
  BY <1>2 DEF Nodes
<1>4. \A n \in Nodes : Kind(n) \in Kinds /\ Block(n) \in Seq(Nat) /\ Other(n) \in Seq(Nat)
  BY <1>3 DEF Node, Kind, Block, Other
<1>5. \A n \in Nodes : /\ Kind(n) = "method" <=> n = 1
                       /\ Kind(n) \in Simple => Block(n) \o Other(n) = <<>>
                       /\ Kind(n) # "if" => Other(n) = <<>>
  BY <1>1 DEF WellFormed, Nodes, Kind, Block, Other
<1> QED BY <1>2, <1>3, <1>4, <1>5

\* Children are nodes, and come after their parent.
LEMMA ChildrenAreNodes ==
  ASSUME prog \in Programs, NEW m \in Nodes, NEW list \in Lists(m)
  PROVE  /\ list \in Seq(Nodes)
         /\ \A k \in 1 .. Len(list) : list[k] \in Nodes /\ list[k] > m
<1>1. WellFormed(prog)
  BY ProgramsAssumption DEF ProgramsAssumption
<1>2. \A n \in Range(Block(m) \o Other(m)) : n \in Nodes /\ n > m
  BY <1>1 DEF WellFormed, Nodes, Block, Other
<1>3. Block(m) \in Seq(Nat) /\ Other(m) \in Seq(Nat)
  BY ProgramIsTree
<1>4. \A k \in 1 .. Len(list) : list[k] \in Range(Block(m) \o Other(m))
  <2>1. ASSUME NEW k \in 1 .. Len(Block(m))
        PROVE  /\ k \in DOMAIN (Block(m) \o Other(m))
               /\ (Block(m) \o Other(m))[k] = Block(m)[k]
    BY <1>3
  <2>2. ASSUME NEW k \in 1 .. Len(Other(m))
        PROVE  /\ Len(Block(m)) + k \in DOMAIN (Block(m) \o Other(m))
               /\ (Block(m) \o Other(m))[Len(Block(m)) + k] = Other(m)[k]
    BY <1>3
  <2> QED BY <2>1, <2>2 DEF Lists, Range
<1>5. \A k \in 1 .. Len(list) : list[k] \in Nodes /\ list[k] > m
  BY <1>2, <1>4
<1>6. list \in Seq(Nodes)
  <2>1. list \in Seq(Nat)
    BY <1>3 DEF Lists
  <2>2. Len(list) \in Nat /\ list = [k \in 1 .. Len(list) |-> list[k]]
    BY <2>1
  <2> QED BY <2>2, <1>5
<1> QED BY <1>5, <1>6

\* A child has one place: the parent, the list and the index that FlowGraph
\* chooses are the ones it is found at.
LEMMA PlaceOfChild ==
  ASSUME prog \in Programs, NEW m \in Nodes, NEW list \in Lists(m), NEW k \in 1 .. Len(list)
  PROVE  /\ G!Parent(list[k]) = m /\ G!List(list[k]) = list
         /\ G!IndexIn(list, list[k]) = k
<1> DEFINE n == list[k]
           all(l) == Block(l) \o Other(l)
<1>1. WellFormed(prog)
  BY ProgramsAssumption DEF ProgramsAssumption
<1>2. \A l \in Nodes : Block(l) \in Seq(Nat) /\ Other(l) \in Seq(Nat)
  BY ProgramIsTree
<1>3. n \in Nodes /\ n > m /\ m \in Nat \ {0} /\ 1 \in Nodes
  BY ChildrenAreNodes, ProgramIsTree
<1>4. PICK o \in Nodes : n \in Range(all(o)) /\ \A l \in Nodes : n \in Range(all(l)) => l = o
  <2>1. n \in Nodes \ {1}
    BY <1>3
  <2> HIDE DEF n
  <2> QED BY <1>1, <2>1 DEF WellFormed, Nodes, Block, Other
<1>5. \A l \in Nodes : n \in Range(Block(l)) \cup Range(Other(l)) <=> n \in Range(all(l))
  <2>1. ASSUME NEW l \in Nodes
        PROVE  n \in Range(Block(l)) \cup Range(Other(l)) <=> n \in Range(all(l))
    <3>1. ASSUME NEW j \in DOMAIN Block(l)
          PROVE  j \in DOMAIN all(l) /\ all(l)[j] = Block(l)[j]
      BY <1>2
    <3>2. ASSUME NEW j \in DOMAIN Other(l)
          PROVE  /\ Len(Block(l)) + j \in DOMAIN all(l)
                 /\ all(l)[Len(Block(l)) + j] = Other(l)[j]
      BY <1>2
    <3>3. ASSUME NEW j \in DOMAIN all(l)
          PROVE  \/ j \in DOMAIN Block(l) /\ all(l)[j] = Block(l)[j]
                 \/ j - Len(Block(l)) \in DOMAIN Other(l) /\ all(l)[j] = Other(l)[j - Len(Block(l))]
      BY <1>2, SMTT(30)
    <3> HIDE DEF n, all
    <3> QED BY <3>1, <3>2, <3>3 DEF Range
  <2> QED BY <2>1
<1>6. n \in Range(Block(m)) \cup Range(Other(m))
  BY <1>2 DEF Range, Lists
<1>7. m = o
  BY <1>4, <1>5, <1>6
<1>8. G!Parent(n) = m
  <2> HIDE DEF n, all
  <2>1. \A l \in Nodes : n \in Range(Block(l)) \cup Range(Other(l)) <=> l = m
    BY <1>4, <1>5, <1>6, <1>7
  <2> QED BY <2>1 DEF G!Parent, G!Nodes, G!Block, G!Other, G!Range, Nodes, Block, Other, Range
<1>9. \A j1, j2 \in DOMAIN all(m) : all(m)[j1] = all(m)[j2] => j1 = j2
  BY <1>1 DEF WellFormed, IsInjective, Nodes, Block, Other
<1>10. \A j \in 1 .. Len(list) : list[j] = n => j = k
  <2>1. CASE list = Block(m)
    <3>1. \A j \in 1 .. Len(list) : j \in DOMAIN all(m) /\ all(m)[j] = list[j]
      BY <1>2, <2>1
    <3> HIDE DEF all
    <3> QED BY <3>1, <1>9
  <2>2. CASE list = Other(m)
    <3>1. \A j \in 1 .. Len(list) : Len(Block(m)) + j \in DOMAIN all(m) /\ all(m)[Len(Block(m)) + j] = list[j]
      BY <1>2, <2>2
    <3>2. Len(Block(m)) \in Nat
      BY <1>2
    <3> HIDE DEF all
    <3>3. ASSUME NEW j \in 1 .. Len(list), list[j] = n
          PROVE  j = k
      <4>1. Len(Block(m)) + j = Len(Block(m)) + k
        BY <3>1, <3>3, <1>9
      <4> QED BY <4>1, <3>2
    <3> QED BY <3>3
  <2> QED BY <2>1, <2>2 DEF Lists
<1>11. G!IndexIn(list, n) = k
  <2>1. DOMAIN list = 1 .. Len(list)
    BY <1>2 DEF Lists
  <2>2. \A j \in DOMAIN list : list[j] = n <=> j = k
    BY <2>1, <1>10
  <2> HIDE DEF n
  <2> QED BY <2>1, <2>2 DEF G!IndexIn
<1>12. G!List(n) = list
  <2>1. CASE list = Block(m)
    <3>1. n \in Range(Block(m))
      BY <1>2, <2>1 DEF Range
    <3> HIDE DEF n
    <3> QED BY <3>1, <2>1, <1>8 DEF G!List, G!Block, G!Other, G!Range, Block, Other, Range
  <2>2. CASE list = Other(m)
    <3>1. n \notin Range(Block(m))
      <4>1. ASSUME NEW j \in DOMAIN Block(m), Block(m)[j] = n
            PROVE  FALSE
        <5>1. j \in DOMAIN all(m) /\ all(m)[j] = n
          BY <1>2, <4>1
        <5>2. Len(Block(m)) + k \in DOMAIN all(m) /\ all(m)[Len(Block(m)) + k] = n
          BY <1>2, <2>2
        <5>3. j = Len(Block(m)) + k
          BY ONLY <5>1, <5>2, <1>9
        <5> QED BY <5>3, <1>2
      <4> QED BY <4>1 DEF Range
    <3> HIDE DEF n
    <3> QED BY <3>1, <2>2, <1>8 DEF G!List, G!Block, G!Other, G!Range, Block, Other, Range
  <2> QED BY <2>1, <2>2 DEF Lists
<1> QED BY <1>8, <1>11, <1>12

\* Every node but the method has a place.
LEMMA ParentHasChild ==
  ASSUME prog \in Programs, NEW n \in Nodes, n # 1
  PROVE  \E m \in Nodes : \E list \in Lists(m) : \E k \in 1 .. Len(list) : list[k] = n
<1>1. WellFormed(prog)
  BY ProgramsAssumption DEF ProgramsAssumption
<1>2. PICK m \in Nodes : n \in Range(Block(m) \o Other(m))
  <2>1. n \in Nodes \ {1}
    OBVIOUS
  <2> QED BY <1>1, <2>1 DEF WellFormed, Nodes, Block, Other
<1>3. Block(m) \in Seq(Nat) /\ Other(m) \in Seq(Nat)
  BY ProgramIsTree
<1>4. PICK j \in DOMAIN (Block(m) \o Other(m)) : (Block(m) \o Other(m))[j] = n
  BY <1>2 DEF Range
<1>5. CASE j \in 1 .. Len(Block(m))
  <2>1. Block(m)[j] = n
    BY <1>3, <1>4, <1>5
  <2> QED BY <2>1, <1>5 DEF Lists
<1>6. CASE j \notin 1 .. Len(Block(m))
  <2>1. /\ j - Len(Block(m)) \in 1 .. Len(Other(m))
        /\ Other(m)[j - Len(Block(m))] = n
    BY <1>3, <1>4, <1>6
  <2> QED BY <2>1 DEF Lists
<1> QED BY <1>5, <1>6

\* The parent of a node is a node before it, and has lists.
LEMMA ParentComesFirst ==
  ASSUME prog \in Programs, NEW n \in Nodes, n # 1
  PROVE  /\ G!Parent(n) \in Nodes /\ G!Parent(n) \in 1 .. n - 1
         /\ Kind(G!Parent(n)) \in {"method", "if", "while", "repeat"}
<1>0. PICK m \in Nodes : \E list \in Lists(m) : \E k \in 1 .. Len(list) : list[k] = n
  BY ParentHasChild
<1>1. PICK list \in Lists(m) : \E k \in 1 .. Len(list) : list[k] = n
  BY <1>0
<1>2. G!Parent(n) = m
  BY <1>1, PlaceOfChild
<1>3. n > m /\ n \in Nat \ {0} /\ m \in Nat \ {0}
  BY <1>1, ChildrenAreNodes, ProgramIsTree
<1>4. Kind(m) \notin Simple
  <2>1. SUFFICES ASSUME Kind(m) \in Simple PROVE FALSE
    OBVIOUS
  <2>2. /\ Block(m) \o Other(m) = <<>> /\ Block(m) \in Seq(Nat) /\ Other(m) \in Seq(Nat)
        /\ Len(list) \in Nat \ {0}
    BY <2>1, ProgramIsTree, <1>1 DEF Lists
  <2>3. Len(Block(m)) = 0 /\ Len(Other(m)) = 0
    BY <2>2
  <2> QED BY <2>2, <2>3 DEF Lists
<1>5. Kind(m) \in {"method", "if", "while", "repeat"}
  BY <1>4, ProgramIsTree DEF Kinds, Simple, Loops
<1> QED BY <1>2, <1>3, <1>5

\* The equation of Follow.
LEMMA FollowEquation ==
  ASSUME prog \in Programs, NEW n \in Nodes
  PROVE  G!Follow[n] =
           IF n = 1 THEN {0}
           ELSE IF ~ G!IsLast(n) THEN {G!List(n)[G!IndexIn(G!List(n), n) + 1]}
           ELSE IF Kind(G!Parent(n)) \in {"method", "if"} THEN G!Follow[G!Parent(n)]
           ELSE IF Kind(G!Parent(n)) = "while" THEN {G!Parent(n)}
           ELSE G!Enter(Block(G!Parent(n)), {}) \cup G!Follow[G!Parent(n)]
<1> DEFINE Up(m) == G!Parent(m)
           B == {m \in Nodes : m = 1 \/ ~ G!IsLast(m) \/ Kind(Up(m)) = "while"}
           v == [m \in Nodes |-> <<0, IF m = 1 THEN {0}
                                  ELSE IF ~ G!IsLast(m) THEN {G!List(m)[G!IndexIn(G!List(m), m) + 1]}
                                  ELSE {Up(m)}>>]
           e == [m \in Nodes |-> IF Kind(Up(m)) = "repeat" THEN G!Enter(Block(Up(m)), {}) ELSE {}]
           p == [m \in Nodes |-> Up(m)]
           Body(f, m) ==
             IF m = 1 THEN {0}
             ELSE IF ~ G!IsLast(m) THEN {G!List(m)[G!IndexIn(G!List(m), m) + 1]}
             ELSE CASE Kind(Up(m)) \in {"method", "if"} -> f[Up(m)]
                    [] Kind(Up(m)) = "while" -> {Up(m)}
                    [] Kind(Up(m)) = "repeat" -> G!Enter(Block(Up(m)), {}) \cup f[Up(m)]
<1>1. PICK N \in Nat : Nodes = 1 .. N
  BY ProgramIsTree DEF Nodes
<1>2. \A m \in 1 .. N : m \notin B => p[m] \in 1 .. m - 1
  BY <1>1, ParentComesFirst
<1>3. \A m \in Nodes : m # 1 => /\ Up(m) \in Nodes
                                /\ Kind(Up(m)) \in {"method", "if", "while", "repeat"}
  BY ParentComesFirst
<1>4. PICK f : FollowsParents(f, N, B, v, e, p)
  <2> HIDE DEF B, v, e, p
  <2> QED BY <1>2, ParentsFirst
<1> DEFINE g == [m \in Nodes |-> f[m][2]]
<1>5. ASSUME NEW m \in Nodes
      PROVE  g[m] = Body(g, m)
  <2>0. f[m] = IF m \in B THEN v[m] ELSE <<f[p[m]][1], e[m] \cup f[p[m]][2]>>
    <3> HIDE DEF B, v, e, p
    <3> QED BY <1>1, <1>4 DEF FollowsParents
  <2>1. CASE m \in B
    <3>1. f[m] = v[m]
      BY <2>0, <2>1
    <3> QED BY <3>1, <2>1
  <2>2. CASE m \notin B
    <3>1. m # 1 /\ G!IsLast(m) /\ Kind(Up(m)) \in {"method", "if", "repeat"} /\ Up(m) \in Nodes
      BY <2>2, <1>3
    <3>2. f[m][2] = e[m] \cup f[Up(m)][2]
      <4>1. p[m] = Up(m) /\ f[m] = <<f[p[m]][1], e[m] \cup f[p[m]][2]>>
        BY <2>0, <2>2
      <4> HIDE DEF e, p
      <4> QED BY <4>1
    <3>3. g[m] = e[m] \cup g[Up(m)]
      BY <3>1, <3>2
    <3> QED BY <3>1, <3>3
  <2> QED BY <2>1, <2>2
<1>6. g = [m \in Nodes |-> Body(g, m)]
  <2>1. g = [m \in Nodes |-> g[m]]
    OBVIOUS
  <2> HIDE DEF g, Body
  <2> QED BY <1>5, <2>1
<1>7. G!Follow = CHOOSE h : h = [m \in Nodes |-> Body(h, m)]
  BY DEF G!Follow, G!Nodes, Nodes, G!Kind, Kind, G!Block, Block, G!Exit
<1>8. G!Follow = [m \in Nodes |-> Body(G!Follow, m)]
  <2> HIDE DEF g, Body
  <2> QED BY <1>6, <1>7
<1>9. G!Follow[n] = Body(G!Follow, n)
  <2> HIDE DEF Body
  <2> QED BY <1>8
<1> HIDE DEF g
<1> QED BY <1>3, <1>9

\* The equation of LoopOf.
LEMMA LoopOfEquation ==
  ASSUME prog \in Programs, NEW n \in Nodes
  PROVE  G!LoopOf[n] =
           IF n = 1 THEN 1
           ELSE IF Kind(G!Parent(n)) \in Loops \cup {"method"} THEN G!Parent(n)
           ELSE G!LoopOf[G!Parent(n)]
<1> DEFINE Up(m) == G!Parent(m)
           B == {m \in Nodes : m = 1 \/ Kind(Up(m)) \in Loops \cup {"method"}}
           v == [m \in Nodes |-> <<IF m = 1 THEN 1 ELSE Up(m), {}>>]
           e == [m \in Nodes |-> {}]
           p == [m \in Nodes |-> Up(m)]
           Body(f, m) ==
             IF m = 1 \/ Kind(Up(m)) \in Loops \cup {"method"} THEN (IF m = 1 THEN 1 ELSE Up(m))
             ELSE f[Up(m)]
<1>1. PICK N \in Nat : Nodes = 1 .. N
  BY ProgramIsTree DEF Nodes
<1>2. \A m \in 1 .. N : m \notin B => p[m] \in 1 .. m - 1
  BY <1>1, ParentComesFirst
<1>3. \A m \in Nodes : m # 1 => Up(m) \in Nodes
  BY ParentComesFirst
<1>4. PICK f : FollowsParents(f, N, B, v, e, p)
  <2> HIDE DEF B, v, e, p
  <2> QED BY <1>2, ParentsFirst
<1> DEFINE g == [m \in Nodes |-> f[m][1]]
<1>5. ASSUME NEW m \in Nodes
      PROVE  g[m] = Body(g, m)
  <2>0. f[m] = IF m \in B THEN v[m] ELSE <<f[p[m]][1], e[m] \cup f[p[m]][2]>>
    <3> HIDE DEF B, v, e, p
    <3> QED BY <1>1, <1>4 DEF FollowsParents
  <2>1. CASE m \in B
    <3>1. f[m] = v[m]
      BY <2>0, <2>1
    <3> QED BY <3>1, <2>1
  <2>2. CASE m \notin B
    <3>1. Up(m) \in Nodes
      BY <2>2, <1>3
    <3>2. f[m][1] = f[Up(m)][1]
      <4>1. p[m] = Up(m) /\ f[m] = <<f[p[m]][1], e[m] \cup f[p[m]][2]>>
        BY <2>0, <2>2
      <4> HIDE DEF e, p
      <4> QED BY <4>1
    <3> QED BY <3>1, <3>2, <2>2
  <2> QED BY <2>1, <2>2
<1>6. g = [m \in Nodes |-> Body(g, m)]
  <2>1. g = [m \in Nodes |-> g[m]]
    OBVIOUS
  <2> HIDE DEF g, Body
  <2> QED BY <1>5, <2>1
<1>7. G!LoopOf = CHOOSE h : h = [m \in Nodes |-> Body(h, m)]
  BY DEF G!LoopOf, G!Nodes, Nodes, G!Kind, Kind, G!Loops, Loops
<1>8. G!LoopOf = [m \in Nodes |-> Body(G!LoopOf, m)]
  <2> HIDE DEF g, Body
  <2> QED BY <1>6, <1>7
<1>9. G!LoopOf[n] = Body(G!LoopOf, n)
  <2> HIDE DEF Body
  <2> QED BY <1>8
<1> HIDE DEF g
<1> QED BY <1>9

----------------------------------------------------------------------------
(* The graph, seen from the lists that the interpreter runs.               *)

\* Where control goes after the lists of a node, and the loop around the
\* statements of these lists.
AfterList(n) == IF Kind(n) \in Loops THEN G!Again(n) ELSE G!Follow[n]
LoopAt(n) == IF Kind(n) \in Loops \cup {"method"} THEN n ELSE G!LoopOf[n]

LEMMA AtMethod ==
  ASSUME prog \in Programs
  PROVE  1 \in Nodes /\ G!Follow[1] = {0} /\ AfterList(1) = {0} /\ G!LoopOf[1] = 1 /\ LoopAt(1) = 1
<1>1. 1 \in Nodes /\ Kind(1) = "method"
  BY ProgramIsTree
<1>2. G!Follow[1] = {0} /\ G!LoopOf[1] = 1
  BY <1>1, FollowEquation, LoopOfEquation
<1> QED BY <1>1, <1>2 DEF AfterList, LoopAt, Loops

\* After a statement comes the next one of its list, or what comes after the list.
LEMMA AfterChild ==
  ASSUME prog \in Programs, NEW m \in Nodes, NEW list \in Lists(m), NEW k \in 1 .. Len(list)
  PROVE  /\ list[k] \in Nodes /\ list[k] # 1
         /\ k < Len(list) => G!Follow[list[k]] = {list[k + 1]}
         /\ k = Len(list) => G!Follow[list[k]] = AfterList(m)
         /\ G!LoopOf[list[k]] = LoopAt(m)
<1> DEFINE n == list[k]
<1>1. n \in Nodes /\ n # 1 /\ Len(list) \in Nat
  <2>1. list \in Seq(Nodes) /\ n \in Nodes /\ n > m
    BY ChildrenAreNodes
  <2>2. m \in Nat \ {0} /\ n \in Nat
    BY <2>1, ProgramIsTree
  <2> QED BY <2>1, <2>2
<1>2. G!Parent(n) = m /\ G!List(n) = list /\ G!IndexIn(list, n) = k
  BY PlaceOfChild
<1>3. Kind(m) \in {"method", "if", "while", "repeat"}
  BY <1>1, <1>2, ParentComesFirst
<1>4. G!IsLast(n) <=> k = Len(list)
  BY <1>2 DEF G!IsLast
<1>5. G!LoopOf[n] = LoopAt(m)
  <2> HIDE DEF n
  <2> QED BY <1>1, <1>2, <1>3, LoopOfEquation DEF LoopAt
<1>6. ASSUME k < Len(list)
      PROVE  G!Follow[n] = {list[k + 1]}
  <2>1. ~ G!IsLast(n)
    BY <1>4, <1>6, <1>1
  <2> HIDE DEF n
  <2> QED BY <2>1, <1>1, <1>2, FollowEquation
<1>7. ASSUME k = Len(list)
      PROVE  G!Follow[n] = AfterList(m)
  <2>1. G!IsLast(n)
    BY <1>4, <1>7
  <2>2. G!Again(m) = IF Kind(m) = "while" THEN {m} ELSE G!Enter(Block(m), {}) \cup G!Follow[m]
    BY DEF G!Again, G!Kind, Kind, G!Block, Block
  <2> HIDE DEF n
  <2> QED BY <2>1, <2>2, <1>1, <1>2, <1>3, FollowEquation DEF AfterList, Loops
<1> QED BY <1>1, <1>5, <1>6, <1>7

\* What the graph allows after a node, by its kind.
LEMMA SuccessorsOf ==
  ASSUME prog \in Programs, NEW n \in Nodes
  PROVE  /\ n = 1 => G!Successors(n) = G!Enter(Block(n), {0})
         /\ Kind(n) = "return" => G!Successors(n) = {0}
         /\ Kind(n) = "break" => G!Successors(n) = G!Follow[G!LoopOf[n]]
         /\ Kind(n) = "continue" => G!Successors(n) = G!Again(G!LoopOf[n])
         /\ Kind(n) = "if" => \A list \in Lists(n) : G!Enter(list, AfterList(n)) \subseteq G!Successors(n)
         /\ Kind(n) \in Loops => /\ G!Enter(Block(n), AfterList(n)) \subseteq G!Successors(n)
                                 /\ G!Follow[n] \subseteq G!Successors(n)
         /\ Kind(n) \in Assigning \cup {"expr"} => G!Successors(n) = G!Follow[n]
<1>1. G!Kind(n) = Kind(n) /\ G!Block(n) = Block(n) /\ G!Other(n) = Other(n) /\ G!Loops = Loops
  BY DEF G!Kind, Kind, G!Block, Block, G!Other, Other, G!Loops, Loops
<1>2. n = 1 => Kind(n) = "method"
  BY ProgramIsTree
<1> QED BY <1>1, <1>2 DEF G!Successors, G!Exit, AfterList, Lists, Loops, Assigning

\* A repeat is done, or runs its body again.
LEMMA AgainOf ==
  ASSUME prog \in Programs, NEW n \in Nodes
  PROVE  /\ Kind(n) = "while" => G!Again(n) = {n}
         /\ Kind(n) # "while" => /\ G!Again(n) = G!Enter(Block(n), {}) \cup G!Follow[n]
                                 /\ G!Enter(Block(n), G!Again(n)) \subseteq G!Again(n)
                                 /\ G!Again(n) \subseteq G!Enter(Block(n), G!Again(n)) \cup G!Follow[n]
  BY DEF G!Again, G!Enter, G!Kind, Kind, G!Block, Block

----------------------------------------------------------------------------
(* The invariant.                                                          *)

\* k statements of a list of its node have been run under frame f; statement n
\* is the one that runs now.
Inside(f, list, k) ==
  list \in Lists(f.node) /\ k \in 0 .. Len(list) /\ f.todo = SubSeq(list, k + 1, Len(list))
Runs(f, n) ==
  f.fn = "runList" /\ \E list \in Lists(f.node) : \E k \in 1 .. Len(list) :
    Inside(f, list, k) /\ list[k] = n

\* A frame belongs to the statement that the frame below runs.
Frame == ListFrame \cup WhileFrame \cup RepeatFrame
IsLoop(f) == f.fn \in {"runWhile", "runRepeat"}
Linked(s, d) ==
  IF d = 1 THEN s[d].fn = "runList" /\ s[d].node = 1
  ELSE IF IsLoop(s[d]) THEN Runs(s[d - 1], s[d].node)
  ELSE \/ IsLoop(s[d - 1]) /\ s[d - 1].node = s[d].node
       \/ Kind(s[d].node) = "if" /\ Runs(s[d - 1], s[d].node)

\* Frame d of stack s is in loop n, the innermost: 1 outside of loops.
InLoop(s, d, n) ==
  \/ \E e \in 1 .. d : /\ IsLoop(s[e]) /\ s[e].node = n
                       /\ \A i \in e + 1 .. d : ~ IsLoop(s[i])
  \/ n = 1 /\ \A i \in 1 .. d : ~ IsLoop(s[i])

\* The stack is the path to the statement that runs.
FrameHolds(s, d) ==
  /\ s[d].fn = "runList" => /\ \E list \in Lists(s[d].node) : \E k \in 0 .. Len(list) : Inside(s[d], list, k)
                            /\ InLoop(s, d, LoopAt(s[d].node))
  /\ Linked(s, d)
IsPath(s) == s \in Seq(Frame) /\ \A d \in 1 .. Len(s) : FrameHolds(s, d)

\* What may be evaluated next with f on top lies in S.
Goes(f, S) ==
  /\ IsLoop(f) => G!Again(f.node) \subseteq S
  /\ f.fn = "runList" =>
       \E list \in Lists(f.node) : \E k \in 0 .. Len(list) :
         /\ Inside(f, list, k)
         /\ (IF k = 0 THEN G!Enter(list, AfterList(f.node)) ELSE G!Follow[list[k]]) \subseteq S

\* The jump r of node l is under way, and has not yet left the loop it is for.
Caught(s, r, l) ==
  /\ r = JumpOf(l)
  /\ r \in {2, 3} => InLoop(s, Len(s), G!LoopOf[l])

\* With stack s, flag r and l as the node evaluated last, what happens next
\* is as the graph says.
OnGraph(s, r, l) ==
  l # 0 => IF r # 0 THEN Caught(s, r, l)
           ELSE IF s = <<>> THEN 0 \in G!Successors(l)
           ELSE Goes(s[Len(s)], G!Successors(l))
Holds(s, r, l) ==
  /\ prog \in Programs
  /\ IsPath(s)
  /\ r \in 0 .. 3 /\ l \in {0} \cup Nodes
  /\ l = 0 => s = <<>>
  /\ OnGraph(s, r, l)
IInv == Holds(cstack, isR, last)

----------------------------------------------------------------------------
(* Pushing and popping frames.                                             *)

\* A frame depends on what is below it only.
LEMMA InLoopBelow ==
  ASSUME NEW s, NEW q, NEW d \in Nat, NEW n, \A i \in 1 .. d : s[i] = q[i], InLoop(s, d, n)
  PROVE  InLoop(q, d, n)
  BY DEF InLoop

LEMMA FrameHoldsBelow ==
  ASSUME NEW s, NEW q, NEW d \in Nat \ {0}, \A i \in 1 .. d : s[i] = q[i], FrameHolds(s, d)
  PROVE  FrameHolds(q, d)
<1>1. s[d] = q[d] /\ (d # 1 => s[d - 1] = q[d - 1])
  OBVIOUS
<1>2. Linked(q, d)
  BY <1>1 DEF FrameHolds, Linked
<1>3. InLoop(s, d, LoopAt(s[d].node)) => InLoop(q, d, LoopAt(q[d].node))
  BY <1>1, InLoopBelow
<1> QED BY <1>1, <1>2, <1>3 DEF FrameHolds

LEMMA Popped ==
  ASSUME NEW s, IsPath(s), s # <<>>
  PROVE  /\ Len(s) \in Nat \ {0} /\ FrameHolds(s, Len(s)) /\ s[Len(s)] \in Frame
         /\ IsPath(SubSeq(s, 1, Len(s) - 1)) /\ Len(SubSeq(s, 1, Len(s) - 1)) = Len(s) - 1
         /\ \A i \in 1 .. Len(s) - 1 : SubSeq(s, 1, Len(s) - 1)[i] = s[i]
         /\ SubSeq(s, 1, Len(s) - 1) = <<>> <=> Len(s) = 1
<1> DEFINE q == SubSeq(s, 1, Len(s) - 1)
<1>1. s \in Seq(Frame) /\ Len(s) \in Nat \ {0} /\ \A d \in 1 .. Len(s) : FrameHolds(s, d)
  BY DEF IsPath
<1>2. q \in Seq(Frame) /\ Len(q) = Len(s) - 1 /\ \A i \in 1 .. Len(s) - 1 : q[i] = s[i]
  BY <1>1
<1>3. s[Len(s)] \in Frame /\ FrameHolds(s, Len(s))
  BY <1>1
<1> HIDE DEF q
<1>4. q = <<>> <=> Len(s) = 1
  <2>1. q = <<>> <=> Len(q) = 0
    BY <1>2
  <2> QED BY <2>1, <1>1, <1>2
<1>5. ASSUME NEW d \in 1 .. Len(q)
      PROVE  FrameHolds(q, d)
  <2>1. d \in Nat \ {0} /\ FrameHolds(s, d) /\ \A i \in 1 .. d : s[i] = q[i]
    BY <1>1, <1>2
  <2> QED BY <2>1, FrameHoldsBelow
<1>6. IsPath(q)
  BY <1>2, <1>5 DEF IsPath
<1> QED BY <1>1, <1>2, <1>3, <1>4, <1>6 DEF q

LEMMA Pushed ==
  ASSUME NEW s, IsPath(s), NEW f \in Frame, FrameHolds(Append(s, f), Len(s) + 1)
  PROVE  IsPath(Append(s, f))
<1> DEFINE q == Append(s, f)
<1>1. s \in Seq(Frame) /\ Len(s) \in Nat /\ \A d \in 1 .. Len(s) : FrameHolds(s, d)
  BY DEF IsPath
<1>2. q \in Seq(Frame) /\ Len(q) = Len(s) + 1 /\ \A i \in 1 .. Len(s) : s[i] = q[i]
  BY <1>1
<1>3. FrameHolds(q, Len(s) + 1)
  OBVIOUS
<1> HIDE DEF q
<1>4. ASSUME NEW d \in 1 .. Len(q)
      PROVE  FrameHolds(q, d)
  <2>1. CASE d = Len(s) + 1
    BY <2>1, <1>3
  <2>2. CASE d # Len(s) + 1
    <3>1. d \in Nat \ {0} /\ FrameHolds(s, d) /\ \A i \in 1 .. d : s[i] = q[i]
      BY <1>1, <1>2, <2>2
    <3> QED BY <3>1, FrameHoldsBelow
  <2> QED BY <2>1, <2>2
<1>5. IsPath(q)
  BY <1>2, <1>4 DEF IsPath
<1> QED BY <1>5 DEF q

\* A frame on a list frame or a loop frame, and the loop that it is in.
LEMMA InLoopOnTop ==
  ASSUME NEW s, NEW f, NEW n, s \in Seq(Frame)
  PROVE  /\ IsLoop(f) => InLoop(Append(s, f), Len(s) + 1, f.node)
         /\ ~ IsLoop(f) /\ InLoop(s, Len(s), n) => InLoop(Append(s, f), Len(s) + 1, n)
<1> DEFINE q == Append(s, f)
<1>1. Len(s) \in Nat /\ q[Len(s) + 1] = f /\ \A i \in 1 .. Len(s) : s[i] = q[i]
  OBVIOUS
<1> HIDE DEF q
<1>2. ASSUME IsLoop(f)
      PROVE  InLoop(q, Len(s) + 1, f.node)
  <2>1. Len(s) + 1 \in 1 .. Len(s) + 1 /\ \A i \in Len(s) + 1 + 1 .. Len(s) + 1 : ~ IsLoop(q[i])
    BY <1>1
  <2> QED BY <2>1, <1>1, <1>2 DEF InLoop
<1>3. ASSUME ~ IsLoop(f), InLoop(s, Len(s), n)
      PROVE  InLoop(q, Len(s) + 1, n)
  <2>1. \A i \in 1 .. Len(s) + 1 : i \in 1 .. Len(s) \/ i = Len(s) + 1
    BY <1>1
  <2>2. CASE n = 1 /\ \A i \in 1 .. Len(s) : ~ IsLoop(s[i])
    BY <1>1, <1>3, <2>1, <2>2 DEF InLoop
  <2>3. CASE \E e \in 1 .. Len(s) : /\ IsLoop(s[e]) /\ s[e].node = n
                                    /\ \A i \in e + 1 .. Len(s) : ~ IsLoop(s[i])
    <3>1. PICK e \in 1 .. Len(s) : /\ IsLoop(s[e]) /\ s[e].node = n
                                   /\ \A i \in e + 1 .. Len(s) : ~ IsLoop(s[i])
      BY <2>3
    <3>2. \A i \in e + 1 .. Len(s) + 1 : ~ IsLoop(q[i])
      <4>1. \A i \in e + 1 .. Len(s) + 1 : (i \in e + 1 .. Len(s) /\ i \in 1 .. Len(s)) \/ i = Len(s) + 1
        BY <1>1
      <4> QED BY <4>1, <3>1, <1>1, <1>3
    <3>3. e \in 1 .. Len(s) + 1 /\ IsLoop(q[e]) /\ q[e].node = n
      BY <3>1, <1>1
    <3> QED BY <3>2, <3>3 DEF InLoop
  <2> QED BY <1>3, <2>2, <2>3 DEF InLoop
<1> QED BY <1>2, <1>3 DEF q

LEMMA FrameKinds ==
  ASSUME prog \in Programs, NEW f \in Frame
  PROVE  /\ f.node \in Nodes /\ f.node \in Nat \ {0}
         /\ IsLoop(f) <=> f.fn # "runList"
         /\ IsLoop(f) => Kind(f.node) \in Loops
         /\ f.fn = "runList" => f \in ListFrame /\ f.todo \in Seq(Nodes)
         /\ f.fn = "runWhile" => f \in WhileFrame /\ Kind(f.node) = "while"
         /\ f.fn = "runRepeat" => f \in RepeatFrame /\ Kind(f.node) = "repeat" /\ f.t \in Int
<1>1. f.node \in Nodes
  BY DEF Frame, ListFrame, WhileFrame, RepeatFrame
<1>2. f.node \in Nat \ {0}
  BY <1>1, ProgramIsTree
<1> QED BY <1>1, <1>2 DEF Frame, ListFrame, WhileFrame, RepeatFrame, IsLoop, Loops

\* A statement that a frame runs is a child of its node: it is in the same loop
\* as the others there, and what follows it is what the frame does next.
LEMMA RunsChild ==
  ASSUME prog \in Programs, NEW f \in Frame, NEW n, Runs(f, n)
  PROVE  /\ n \in Nodes /\ n # 1 /\ G!LoopOf[n] = LoopAt(f.node)
         /\ \A S : G!Follow[n] \subseteq S => Goes(f, S)
<1>1. PICK list \in Lists(f.node) : \E k \in 1 .. Len(list) : Inside(f, list, k) /\ list[k] = n
  BY DEF Runs
<1>2. PICK k \in 1 .. Len(list) : Inside(f, list, k) /\ list[k] = n
  BY <1>1
<1>3. f.node \in Nodes
  BY FrameKinds
<1>4. n \in Nodes /\ n # 1 /\ G!LoopOf[n] = LoopAt(f.node)
  BY <1>2, <1>3, AfterChild
<1>5. f.fn = "runList" /\ ~ IsLoop(f) /\ k \in 0 .. Len(list) /\ k # 0
  BY <1>2 DEF Runs, IsLoop, Inside
<1>6. ASSUME NEW S, G!Follow[n] \subseteq S
      PROVE  Goes(f, S)
  BY <1>2, <1>5, <1>6 DEF Goes
<1> QED BY <1>4, <1>6

\* Running a list: its next statement is allowed, and the frame then runs it.
LEMMA Advance ==
  ASSUME prog \in Programs, NEW f \in Frame, f.fn = "runList", f.todo # <<>>,
         NEW list \in Lists(f.node), NEW k \in 0 .. Len(list), Inside(f, list, k)
  PROVE  /\ k + 1 \in 1 .. Len(list) /\ Head(f.todo) = list[k + 1]
         /\ Inside(RunList(f.node, Tail(f.todo)), list, k + 1)
         /\ RunList(f.node, Tail(f.todo)) \in Frame
         /\ Runs(RunList(f.node, Tail(f.todo)), Head(f.todo))
         /\ (IF k = 0 THEN G!Enter(list, AfterList(f.node)) ELSE G!Follow[list[k]]) = {Head(f.todo)}
<1> DEFINE g == RunList(f.node, Tail(f.todo))
<1>1. f.node \in Nodes /\ f.todo \in Seq(Nodes) /\ list \in Seq(Nodes)
  BY FrameKinds, ChildrenAreNodes
<1>2. f.todo = SubSeq(list, k + 1, Len(list)) /\ Len(list) \in Nat /\ k \in Nat /\ k <= Len(list)
  BY <1>1 DEF Inside
<1>3. Len(f.todo) = Len(list) - k /\ Len(f.todo) # 0
  BY <1>1, <1>2
<1>4. k + 1 \in 1 .. Len(list) /\ Head(f.todo) = list[k + 1]
  BY <1>1, <1>2, <1>3
<1>5. Tail(f.todo) = SubSeq(list, k + 1 + 1, Len(list)) /\ Tail(f.todo) \in Seq(Nodes)
  <2> DEFINE l == Len(list)
             tl == Tail(f.todo)
             sub == SubSeq(list, k + 1 + 1, l)
  <2>1. l \in Nat /\ k \in Nat /\ k + 1 <= l /\ list \in Seq(Nodes) /\ Len(f.todo) = l - k
        /\ f.todo \in Seq(Nodes) /\ f.todo # <<>>
    BY <1>1, <1>2, <1>3, <1>4
  <2>2. tl \in Seq(Nodes) /\ Len(tl) = l - k - 1 /\ \A i \in 1 .. l - k - 1 : tl[i] = f.todo[i + 1]
    BY <2>1
  <2>3. sub \in Seq(Nodes) /\ Len(sub) = l - k - 1 /\ \A i \in 1 .. l - k - 1 : sub[i] = list[k + 1 + i]
    BY <2>1
  <2>4. \A i \in 1 .. l - k : f.todo[i] = list[k + i]
    BY <1>2, <2>1
  <2>5. \A i \in 1 .. l - k - 1 : f.todo[i + 1] = list[k + 1 + i]
    <3>1. ASSUME NEW i \in 1 .. l - k - 1
          PROVE  f.todo[i + 1] = list[k + 1 + i]
      <4>1. i + 1 \in 1 .. l - k /\ k + (i + 1) = k + 1 + i
        BY <2>1
      <4>2. f.todo[i + 1] = list[k + (i + 1)]
        BY <4>1, <2>4
      <4> QED BY <4>1, <4>2
    <3> QED BY <3>1
  <2> HIDE DEF tl, sub
  <2>6. tl = sub
    <3>1. tl = [i \in 1 .. Len(tl) |-> tl[i]] /\ sub = [i \in 1 .. Len(sub) |-> sub[i]]
      BY <2>2, <2>3
    <3>2. tl = [i \in 1 .. l - k - 1 |-> tl[i]] /\ sub = [i \in 1 .. l - k - 1 |-> sub[i]]
      BY <2>2, <2>3, <3>1
    <3>3. \A i \in 1 .. l - k - 1 : tl[i] = sub[i]
      BY <2>2, <2>3, <2>5
    <3> QED BY ONLY <3>2, <3>3
  <2> QED BY <2>2, <2>6 DEF tl, sub
<1>6. g.fn = "runList" /\ g.node = f.node /\ g.todo = Tail(f.todo) /\ g \in Frame
  BY <1>1, <1>5 DEF RunList, Frame, ListFrame
<1> HIDE DEF g
<1>7. Inside(g, list, k + 1)
  BY <1>4, <1>5, <1>6, <1>2 DEF Inside
<1>8. Runs(g, Head(f.todo))
  BY <1>4, <1>6, <1>7 DEF Runs
<1>9. ASSUME k = 0
      PROVE  G!Enter(list, AfterList(f.node)) = {Head(f.todo)}
  <2>1. list # <<>>
    BY <1>2, <1>4
  <2> QED BY <2>1, <1>4, <1>9 DEF G!Enter
<1>10. ASSUME k # 0
       PROVE  G!Follow[list[k]] = {Head(f.todo)}
  <2>1. k \in 1 .. Len(list) /\ k < Len(list)
    BY <1>2, <1>4, <1>10
  <2>2. G!Follow[list[k]] = {list[k + 1]}
    BY <2>1, <1>1, AfterChild
  <2> QED BY <2>2, <1>10, <1>4
<1> QED BY <1>4, <1>6, <1>7, <1>8, <1>9, <1>10 DEF g

\* At the end of its list, a frame goes where control goes after the list.
LEMMA ListEnds ==
  ASSUME prog \in Programs, NEW f \in Frame, f.fn = "runList", f.todo = <<>>, NEW S, Goes(f, S)
  PROVE  AfterList(f.node) \subseteq S
<1>1. PICK list \in Lists(f.node) : \E k \in 0 .. Len(list) :
        /\ Inside(f, list, k)
        /\ (IF k = 0 THEN G!Enter(list, AfterList(f.node)) ELSE G!Follow[list[k]]) \subseteq S
  BY DEF Goes
<1>2. PICK k \in 0 .. Len(list) :
        /\ Inside(f, list, k)
        /\ (IF k = 0 THEN G!Enter(list, AfterList(f.node)) ELSE G!Follow[list[k]]) \subseteq S
  BY <1>1
<1>3. f.node \in Nodes /\ list \in Seq(Nodes)
  BY FrameKinds, ChildrenAreNodes
<1>4. k = Len(list) /\ Len(list) \in Nat
  BY <1>2, <1>3 DEF Inside
<1>5. CASE k = 0
  <2>1. list = <<>>
    <3>1. Len(list) = 0 /\ list \in Seq(Nodes)
      BY <1>3, <1>4, <1>5
    <3> QED BY <3>1
  <2> QED BY <2>1, <1>2, <1>5 DEF G!Enter
<1>6. CASE k # 0
  <2>1. k \in 1 .. Len(list)
    BY <1>4, <1>6
  <2>2. G!Follow[list[k]] = AfterList(f.node)
    BY <2>1, <1>3, <1>4, AfterChild
  <2> QED BY <2>2, <1>2, <1>6
<1> QED BY <1>5, <1>6

\* runNode goes into a list: a branch of the if that runs, or a body.
LEMMA ListPushed ==
  ASSUME prog \in Programs, NEW s, IsPath(s), s # <<>>, NEW n \in Nodes, NEW list \in Lists(n),
         \/ IsLoop(s[Len(s)]) /\ s[Len(s)].node = n
         \/ Kind(n) = "if" /\ Runs(s[Len(s)], n)
  PROVE  /\ IsPath(Append(s, RunList(n, list)))
         /\ \A S : G!Enter(list, AfterList(n)) \subseteq S => Goes(RunList(n, list), S)
<1> DEFINE f == RunList(n, list)
           q == Append(s, f)
           top == s[Len(s)]
<1>1. s \in Seq(Frame) /\ Len(s) \in Nat \ {0} /\ FrameHolds(s, Len(s)) /\ top \in Frame
  BY Popped DEF IsPath
<1>2. list \in Seq(Nodes) /\ Len(list) \in Nat
  BY ChildrenAreNodes
<1>3. f \in Frame /\ f.fn = "runList" /\ f.node = n /\ f.todo = list /\ ~ IsLoop(f)
  BY <1>2 DEF RunList, Frame, ListFrame, IsLoop
<1>4. q[Len(s) + 1] = f /\ q[Len(s) + 1 - 1] = top /\ Len(s) + 1 # 1
  BY <1>1
<1> HIDE DEF f
<1>5. Inside(f, list, 0) /\ 0 \in 0 .. Len(list)
  BY <1>2, <1>3 DEF Inside
<1>6. InLoop(s, Len(s), LoopAt(n))
  <2>1. CASE IsLoop(top) /\ top.node = n
    <3>1. Kind(n) \in Loops
      BY <1>1, <2>1, FrameKinds
    <3>2. LoopAt(n) = top.node
      BY <3>1, <2>1 DEF LoopAt
    <3>3. Len(s) \in 1 .. Len(s) /\ \A i \in Len(s) + 1 .. Len(s) : ~ IsLoop(s[i])
      BY <1>1
    <3> QED BY <2>1, <3>2, <3>3 DEF InLoop
  <2>2. CASE Kind(n) = "if" /\ Runs(top, n)
    <3>1. LoopAt(n) = LoopAt(top.node)
      <4>1. G!LoopOf[n] = LoopAt(top.node)
        BY <1>1, <2>2, RunsChild
      <4> QED BY <4>1, <2>2 DEF LoopAt, Loops
    <3>2. top.fn = "runList"
      BY <2>2 DEF Runs
    <3>3. InLoop(s, Len(s), LoopAt(top.node))
      BY <1>1, <3>2 DEF FrameHolds
    <3> QED BY <3>1, <3>3
  <2> QED BY <2>1, <2>2
<1>7. InLoop(q, Len(s) + 1, LoopAt(n))
  BY <1>1, <1>3, <1>6, InLoopOnTop
<1>8. Linked(q, Len(s) + 1)
  <2> HIDE DEF q, top
  <2> QED BY <1>3, <1>4 DEF Linked, top
<1>9. FrameHolds(q, Len(s) + 1)
  <2> HIDE DEF q
  <2> QED BY <1>3, <1>4, <1>5, <1>7, <1>8 DEF FrameHolds
<1>10. IsPath(q)
  BY <1>3, <1>9, Pushed
<1>11. ASSUME NEW S, G!Enter(list, AfterList(n)) \subseteq S
       PROVE  Goes(f, S)
  <2>1. list \in Lists(f.node)
    BY <1>3
  <2> QED BY <1>3, <1>5, <1>11, <2>1 DEF Goes
<1> QED BY <1>10, <1>11 DEF f

\* runNode goes into a loop.
LEMMA LoopPushed ==
  ASSUME prog \in Programs, NEW s, IsPath(s), s # <<>>, NEW f \in Frame, IsLoop(f),
         Runs(s[Len(s)], f.node)
  PROVE  IsPath(Append(s, f))
<1> DEFINE q == Append(s, f)
<1>1. s \in Seq(Frame) /\ Len(s) \in Nat \ {0}
  BY Popped DEF IsPath
<1>2. q[Len(s) + 1] = f /\ q[Len(s) + 1 - 1] = s[Len(s)] /\ Len(s) + 1 # 1
  BY <1>1
<1>3. f.fn # "runList"
  BY DEF IsLoop
<1>4. FrameHolds(q, Len(s) + 1)
  <2> HIDE DEF q
  <2> QED BY <1>2, <1>3 DEF FrameHolds, Linked
<1> QED BY <1>4, Pushed

\* The stack when runList calls runNode on the next statement: the statement is
\* one the graph allows, and in the same loop as the list.
LEMMA ListAdvances ==
  ASSUME prog \in Programs, NEW s, IsPath(s), s # <<>>,
         s[Len(s)].fn = "runList", s[Len(s)].todo # <<>>
  PROVE  LET f == RunList(s[Len(s)].node, Tail(s[Len(s)].todo))
             q == Append(SubSeq(s, 1, Len(s) - 1), f)
             n == Head(s[Len(s)].todo)
         IN  /\ IsPath(q) /\ q # <<>> /\ q[Len(q)] = f /\ Runs(f, n) /\ f \in Frame
             /\ n \in Nodes /\ n # 1 /\ InLoop(q, Len(q), G!LoopOf[n])
             /\ \A S : Goes(s[Len(s)], S) => n \in S
<1> DEFINE top == s[Len(s)]
           below == SubSeq(s, 1, Len(s) - 1)
           f == RunList(top.node, Tail(top.todo))
           q == Append(below, f)
           n == Head(top.todo)
<1>1. /\ Len(s) \in Nat \ {0} /\ FrameHolds(s, Len(s)) /\ top \in Frame
      /\ IsPath(below) /\ Len(below) = Len(s) - 1 /\ \A i \in 1 .. Len(s) - 1 : below[i] = s[i]
  BY Popped
<1>2. below \in Seq(Frame)
  BY <1>1 DEF IsPath
<1>3. PICK list \in Lists(top.node) : \E k \in 0 .. Len(list) : Inside(top, list, k)
  BY <1>1 DEF FrameHolds
<1>4. PICK k \in 0 .. Len(list) : Inside(top, list, k)
  BY <1>3
<1>5. /\ k + 1 \in 1 .. Len(list) /\ n = list[k + 1]
      /\ Inside(f, list, k + 1) /\ f \in Frame /\ Runs(f, n)
  BY <1>1, <1>4, Advance
<1>6. f.fn = "runList" /\ f.node = top.node /\ ~ IsLoop(f)
  BY DEF RunList, IsLoop
<1>7. Len(q) = Len(s) /\ q[Len(s)] = f /\ q # <<>> /\ \A i \in 1 .. Len(s) - 1 : q[i] = s[i]
  <2>1. f \in Frame
    BY <1>5
  <2> HIDE DEF f, below
  <2>2. Len(below) \in Nat /\ q \in Seq(Frame) /\ Len(q) = Len(below) + 1 /\ q[Len(below) + 1] = f
        /\ \A i \in 1 .. Len(below) : q[i] = below[i]
    BY <1>2, <2>1
  <2>3. Len(below) + 1 = Len(s) /\ q # <<>>
    BY <2>2, <1>1
  <2> HIDE DEF q
  <2> QED BY <1>1, <2>2, <2>3
<1> HIDE DEF q, f, n
<1>8. Linked(q, Len(s))
  <2>1. Linked(s, Len(s)) /\ ~ IsLoop(top)
    BY <1>1 DEF FrameHolds, IsLoop
  <2>2. Len(s) # 1 => q[Len(s) - 1] = s[Len(s) - 1]
    BY <1>1, <1>7
  <2> QED BY <2>1, <2>2, <1>6, <1>7 DEF Linked
<1>9. InLoop(q, Len(s), LoopAt(top.node))
  <2>1. InLoop(s, Len(s), LoopAt(top.node))
    BY <1>1 DEF FrameHolds
  <2>2. \A i \in 1 .. Len(s) : IsLoop(q[i]) <=> IsLoop(s[i])
    <3>1. \A i \in 1 .. Len(s) : i \in 1 .. Len(s) - 1 \/ i = Len(s)
      BY <1>1
    <3>2. ~ IsLoop(top)
      BY DEF IsLoop
    <3> QED BY <3>1, <3>2, <1>6, <1>7
  <2>3. \A i \in 1 .. Len(s) : q[i].node = s[i].node
    <3>1. \A i \in 1 .. Len(s) : i \in 1 .. Len(s) - 1 \/ i = Len(s)
      BY <1>1
    <3> QED BY <3>1, <1>6, <1>7
  <2>4. \A e \in 1 .. Len(s) : \A i \in e + 1 .. Len(s) : i \in 1 .. Len(s)
    BY <1>1
  <2> QED BY <2>1, <2>2, <2>3, <2>4 DEF InLoop
<1>10. FrameHolds(q, Len(s))
  <2>1. k + 1 \in 0 .. Len(list) /\ list \in Lists(f.node)
    BY <1>5, <1>6
  <2> QED BY <2>1, <1>5, <1>6, <1>7, <1>8, <1>9 DEF FrameHolds
<1>11. IsPath(q)
  <2>1. FrameHolds(Append(below, f), Len(below) + 1)
    BY <1>1, <1>10 DEF q
  <2> QED BY <2>1, <1>1, <1>5, Pushed DEF q
<1>12. n \in Nodes /\ n # 1 /\ G!LoopOf[n] = LoopAt(top.node)
  BY <1>5, <1>6, RunsChild
<1>13. ASSUME NEW S, Goes(top, S)
       PROVE  n \in S
  <2>1. PICK list2 \in Lists(top.node) : \E k2 \in 0 .. Len(list2) :
          /\ Inside(top, list2, k2)
          /\ (IF k2 = 0 THEN G!Enter(list2, AfterList(top.node)) ELSE G!Follow[list2[k2]]) \subseteq S
    BY <1>13 DEF Goes
  <2>2. PICK k2 \in 0 .. Len(list2) :
          /\ Inside(top, list2, k2)
          /\ (IF k2 = 0 THEN G!Enter(list2, AfterList(top.node)) ELSE G!Follow[list2[k2]]) \subseteq S
    BY <2>1
  <2>3. (IF k2 = 0 THEN G!Enter(list2, AfterList(top.node)) ELSE G!Follow[list2[k2]]) = {n}
    <3>1. top.fn = "runList" /\ top.todo # <<>> /\ top \in Frame /\ Inside(top, list2, k2)
      BY <1>1, <2>2
    <3> HIDE DEF top, below
    <3> QED BY <3>1, Advance DEF n
  <2> QED BY <2>2, <2>3
<1> QED BY <1>5, <1>7, <1>9, <1>11, <1>12, <1>13 DEF q, f, n

----------------------------------------------------------------------------
(* The steps of the interpreter, on a stack s with flag r and last node l.  *)

\* Evaluating the statement or condition n that the top of stack q runs.
LEMMA Evaluated ==
  ASSUME prog \in Programs, CountsAssumption, NEW q, IsPath(q), q # <<>>,
         NEW n \in Nodes, Runs(q[Len(q)], n), NEW s2 \in Frames(q, n)
  PROVE  Holds(s2, JumpOf(n), n)
<1> DEFINE top == q[Len(q)]
<1>1. q \in Seq(Frame) /\ Len(q) \in Nat \ {0} /\ FrameHolds(q, Len(q)) /\ top \in Frame
  BY Popped DEF IsPath
<1>2. /\ n # 1 /\ G!LoopOf[n] = LoopAt(top.node)
      /\ \A S : G!Follow[n] \subseteq S => Goes(top, S)
  BY <1>1, RunsChild
<1>3. Kind(n) \in Simple \cup {"if", "while", "repeat"} /\ n \in Nat \ {0}
  BY <1>2, ProgramIsTree DEF Kinds, Loops
<1>4. CASE Kind(n) \in Simple
  <2>1. s2 = q
    BY <1>4 DEF Frames, Simple, Assigning
  <2>2. JumpOf(n) \in 0 .. 3
    BY DEF JumpOf
  <2>3. CASE Kind(n) \in Assigning \cup {"expr"}
    <3>1. JumpOf(n) = 0
      BY <2>3 DEF JumpOf, Assigning
    <3>2. Goes(top, G!Successors(n))
      BY <1>2, <2>3, SuccessorsOf
    <3> QED BY <2>1, <3>1, <3>2, <1>3 DEF Holds, OnGraph
  <2>4. CASE Kind(n) \in {"return", "break", "continue"}
    <3>1. top.fn = "runList"
      BY DEF Runs
    <3>2. InLoop(q, Len(q), G!LoopOf[n])
      BY <1>1, <1>2, <3>1 DEF FrameHolds
    <3>3. JumpOf(n) # 0
      BY <2>4 DEF JumpOf
    <3>4. OnGraph(q, JumpOf(n), n)
      BY <3>2, <3>3 DEF OnGraph, Caught
    <3> QED BY <2>1, <2>2, <3>4, <1>3 DEF Holds
  <2> QED BY <1>4, <2>3, <2>4 DEF Simple
<1>5. ASSUME Kind(n) \notin Simple, IsPath(s2), s2 # <<>>, Goes(s2[Len(s2)], G!Successors(n))
      PROVE  Holds(s2, JumpOf(n), n)
  <2>1. JumpOf(n) = 0
    BY <1>5, <1>3 DEF JumpOf, Simple
  <2> QED BY <2>1, <1>3, <1>5 DEF Holds, OnGraph
<1>6. \A x \in Frame : \A t \in Seq(Frame) :
         Append(t, x) # <<>> /\ Append(t, x)[Len(Append(t, x))] = x
  OBVIOUS
<1>7. CASE Kind(n) = "if"
  <2>1. PICK list \in Lists(n) : s2 = Append(q, RunList(n, list))
    BY <1>7 DEF Frames, Lists, Simple, Assigning
  <2>2. IsPath(s2) /\ Goes(RunList(n, list), G!Successors(n))
    BY <2>1, <1>7, ListPushed, SuccessorsOf
  <2>3. list \in Seq(Nodes)
    BY ChildrenAreNodes
  <2>4. RunList(n, list) \in Frame
    BY <2>3 DEF RunList, Frame, ListFrame
  <2>5. s2 # <<>> /\ s2[Len(s2)] = RunList(n, list)
    BY <1>1, <1>6, <2>1, <2>4
  <2> QED BY <1>5, <1>7, <2>2, <2>5 DEF Simple, Assigning
<1>8. CASE Kind(n) = "while"
  <2>1. s2 = q \/ s2 = q \o <<RunWhile(n), RunList(n, Block(n))>>
    BY <1>8 DEF Frames, Simple, Assigning
  <2>2. CASE s2 = q
    <3>1. Goes(top, G!Successors(n))
      BY <1>2, <1>8, SuccessorsOf DEF Loops
    <3> QED BY <2>2, <3>1, <1>5, <1>8 DEF Simple, Assigning
  <2>3. CASE s2 = q \o <<RunWhile(n), RunList(n, Block(n))>>
    <3> DEFINE w == RunWhile(n)
               b == RunList(n, Block(n))
    <3>1. w \in Frame /\ IsLoop(w) /\ w.node = n
      BY <1>8 DEF RunWhile, Frame, WhileFrame, IsLoop
    <3>2. IsPath(Append(q, w)) /\ Append(q, w) # <<>> /\ Append(q, w)[Len(Append(q, w))] = w
      BY <3>1, <1>1, <1>6, LoopPushed
    <3>3. Block(n) \in Lists(n) /\ Block(n) \in Seq(Nodes)
      BY ChildrenAreNodes DEF Lists
    <3>4. b \in Frame
      BY <3>3 DEF RunList, Frame, ListFrame
    <3> HIDE DEF w
    <3>5. IsPath(Append(Append(q, w), b)) /\ Goes(b, G!Successors(n))
      <4>1. G!Enter(Block(n), AfterList(n)) \subseteq G!Successors(n)
        BY <1>8, SuccessorsOf DEF Loops
      <4> QED BY <3>1, <3>2, <3>3, <4>1, ListPushed
    <3> HIDE DEF b
    <3>6. Append(q, w) \in Seq(Frame) /\ s2 = Append(Append(q, w), b)
      BY <2>3, <1>1, <3>1, <3>4 DEF w, b
    <3>7. s2 # <<>> /\ s2[Len(s2)] = b
      BY <3>6, <3>4, <1>6
    <3> QED BY <1>5, <1>8, <3>5, <3>6, <3>7 DEF Simple, Assigning
  <2> QED BY <2>1, <2>2, <2>3
<1>9. CASE Kind(n) = "repeat"
  <2>1. PICK t \in Counts : s2 = Append(q, RunRepeat(n, t))
    BY <1>9 DEF Frames, Simple, Assigning
  <2> DEFINE f == RunRepeat(n, t)
  <2>2. t \in Int
    BY CountsAssumption DEF CountsAssumption
  <2>3. f \in Frame /\ IsLoop(f) /\ f.node = n /\ f.fn # "runList"
    BY <1>9, <2>2 DEF RunRepeat, Frame, RepeatFrame, IsLoop
  <2> HIDE DEF f
  <2>4. IsPath(Append(q, f))
    BY <2>3, LoopPushed
  <2>5. s2 # <<>> /\ s2[Len(s2)] = f
    BY <2>1, <2>3, <1>1, <1>6 DEF f
  <2>6. Goes(f, G!Successors(n))
    <3>1. G!Again(n) \subseteq G!Successors(n)
      BY <1>9, SuccessorsOf, AgainOf DEF Loops, AfterList
    <3> QED BY <3>1, <2>3 DEF Goes
  <2> QED BY <1>5, <1>9, <2>1, <2>4, <2>5, <2>6 DEF f, Simple, Assigning
<1> QED BY <1>3, <1>4, <1>7, <1>8, <1>9

\* A return of runList, at the end of its list or with a jump under way.
LEMMA ListReturned ==
  ASSUME NEW s, NEW r, NEW l, Holds(s, r, l), s # <<>>,
         s[Len(s)].fn = "runList", s[Len(s)].todo = <<>> \/ r # 0
  PROVE  Holds(SubSeq(s, 1, Len(s) - 1), r, l)
<1> DEFINE top == s[Len(s)]
           below == SubSeq(s, 1, Len(s) - 1)
<1>1. /\ prog \in Programs /\ IsPath(s) /\ r \in 0 .. 3 /\ l \in Nodes /\ l # 0 /\ OnGraph(s, r, l)
  BY DEF Holds
<1>2. /\ Len(s) \in Nat \ {0} /\ FrameHolds(s, Len(s)) /\ top \in Frame
      /\ IsPath(below) /\ Len(below) = Len(s) - 1 /\ \A i \in 1 .. Len(s) - 1 : below[i] = s[i]
      /\ below = <<>> <=> Len(s) = 1
  BY <1>1, Popped
<1> HIDE DEF below
<1>3. ASSUME r # 0
      PROVE  Holds(below, r, l)
  <2>1. Caught(s, r, l)
    BY <1>1, <1>3 DEF OnGraph
  <2>2. ASSUME NEW n, InLoop(s, Len(s), n)
        PROVE  InLoop(below, Len(below), n)
    <3>1. ~ IsLoop(top)
      BY DEF IsLoop
    <3>2. InLoop(s, Len(s) - 1, n)
      <4>1. CASE n = 1 /\ \A i \in 1 .. Len(s) : ~ IsLoop(s[i])
        BY <1>2, <4>1 DEF InLoop
      <4>2. ASSUME NEW e \in 1 .. Len(s), IsLoop(s[e]), s[e].node = n,
                   \A i \in e + 1 .. Len(s) : ~ IsLoop(s[i])
            PROVE  InLoop(s, Len(s) - 1, n)
        <5>1. e \in 1 .. Len(s) - 1
          BY <1>2, <3>1, <4>2
        <5>2. \A i \in e + 1 .. Len(s) - 1 : ~ IsLoop(s[i])
          BY <1>2, <4>2
        <5> QED BY <4>2, <5>1, <5>2 DEF InLoop
      <4> QED BY <2>2, <4>1, <4>2 DEF InLoop
    <3>3. Len(s) - 1 \in Nat /\ \A i \in 1 .. Len(s) - 1 : s[i] = below[i]
      BY <1>2
    <3>4. InLoop(below, Len(s) - 1, n)
      BY <3>2, <3>3, InLoopBelow
    <3> QED BY <1>2, <3>4
  <2>3. Caught(below, r, l)
    BY <2>1, <2>2 DEF Caught
  <2> QED BY <1>1, <1>2, <1>3, <2>3 DEF Holds, OnGraph
<1>4. ASSUME r = 0
      PROVE  Holds(below, r, l)
  <2>1. Goes(top, G!Successors(l))
    BY <1>1, <1>4 DEF OnGraph
  <2>2. AfterList(top.node) \subseteq G!Successors(l)
    BY <1>1, <1>2, <1>4, <2>1, ListEnds
  <2>3. CASE Len(s) = 1
    <3>1. top.node = 1
      BY <1>2, <2>3 DEF FrameHolds, Linked
    <3>2. 0 \in G!Successors(l)
      BY <1>1, <2>2, <3>1, AtMethod
    <3> QED BY <1>1, <1>2, <1>4, <2>3, <3>2 DEF Holds, OnGraph
  <2>4. CASE Len(s) # 1
    <3> DEFINE g == s[Len(s) - 1]
    <3>1. Len(s) - 1 \in 1 .. Len(s) - 1
      BY <1>2, <2>4
    <3>2. below # <<>> /\ below[Len(below)] = g
      BY <1>2, <2>4, <3>1
    <3>3. g \in Frame
      BY <1>1, <1>2, <3>1 DEF IsPath
    <3>4. \/ IsLoop(g) /\ g.node = top.node
          \/ Kind(top.node) = "if" /\ Runs(g, top.node)
      BY <1>2, <2>4 DEF FrameHolds, Linked, IsLoop
    <3> HIDE DEF g
    <3>5. Goes(g, G!Successors(l))
      <4>1. CASE IsLoop(g) /\ g.node = top.node
        <5>1. G!Again(g.node) \subseteq G!Successors(l) /\ g.fn # "runList"
          BY <1>1, <2>2, <3>3, <4>1, FrameKinds DEF AfterList
        <5> QED BY <5>1 DEF Goes
      <4>2. CASE Kind(top.node) = "if" /\ Runs(g, top.node)
        <5>1. G!Follow[top.node] \subseteq G!Successors(l)
          BY <2>2, <4>2 DEF AfterList, Loops
        <5> QED BY <1>1, <3>3, <4>2, <5>1, RunsChild
      <4> QED BY <3>4, <4>1, <4>2
    <3> QED BY <1>1, <1>2, <1>4, <3>2, <3>5 DEF Holds, OnGraph
  <2> QED BY <2>3, <2>4
<1>5. r = 0 \/ r # 0
  OBVIOUS
<1> QED BY <1>5, <1>3, <1>4 DEF below

\* With a loop on top, the graph allows what the loop does next: the condition or
\* the body again, and after a break what follows the loop.
LEMMA LoopOnTop ==
  ASSUME NEW s, NEW r, NEW l, Holds(s, r, l), s # <<>>, IsLoop(s[Len(s)])
  PROVE  /\ l \in Nodes /\ l # 0 /\ r \in 0 .. 3 /\ Len(s) - 1 \in Nat \ {0}
         /\ Runs(s[Len(s) - 1], s[Len(s)].node)
         /\ r \in {0, 3} => G!Again(s[Len(s)].node) \subseteq G!Successors(l)
         /\ r = 2 => G!Follow[s[Len(s)].node] \subseteq G!Successors(l)
         /\ r = 1 => JumpOf(l) = 1
<1> DEFINE top == s[Len(s)]
<1>1. /\ prog \in Programs /\ IsPath(s) /\ r \in 0 .. 3 /\ l \in Nodes /\ l # 0 /\ OnGraph(s, r, l)
  BY DEF Holds
<1>2. Len(s) \in Nat \ {0} /\ FrameHolds(s, Len(s)) /\ top \in Frame
  BY <1>1, Popped
<1>3. Len(s) # 1 /\ Runs(s[Len(s) - 1], top.node)
  BY <1>2 DEF FrameHolds, Linked, IsLoop
<1>4. r = 0 => G!Again(top.node) \subseteq G!Successors(l)
  BY <1>1 DEF OnGraph, Goes
<1>5. r # 0 => r = JumpOf(l)
  BY <1>1 DEF OnGraph, Caught
<1>6. ASSUME r \in {2, 3}
      PROVE  G!LoopOf[l] = top.node
  <2>1. InLoop(s, Len(s), G!LoopOf[l])
    BY <1>1, <1>6 DEF OnGraph, Caught
  <2>2. Len(s) \in 1 .. Len(s)
    BY <1>2
  <2>3. PICK e \in 1 .. Len(s) : s[e].node = G!LoopOf[l] /\ \A i \in e + 1 .. Len(s) : ~ IsLoop(s[i])
    BY <2>1, <2>2 DEF InLoop
  <2>4. e = Len(s)
    <3>1. e # Len(s) => Len(s) \in e + 1 .. Len(s)
      BY <1>2
    <3> QED BY <3>1, <2>3
  <2> QED BY <2>3, <2>4
<1>7. r = 2 => Kind(l) = "break"
  BY <1>5 DEF JumpOf
<1>8. r = 3 => Kind(l) = "continue"
  BY <1>5 DEF JumpOf
<1>9. r = 2 => G!Successors(l) = G!Follow[top.node]
  BY <1>1, <1>6, <1>7, SuccessorsOf
<1>10. r = 3 => G!Successors(l) = G!Again(top.node)
  BY <1>1, <1>6, <1>8, SuccessorsOf
<1>11. Len(s) - 1 \in Nat \ {0}
  BY <1>2, <1>3
<1> QED BY <1>1, <1>3, <1>4, <1>5, <1>9, <1>10, <1>11

\* A loop returns: at its end, after a break or for a return under way.
LEMMA LoopReturned ==
  ASSUME NEW s, NEW r, NEW l, Holds(s, r, l), s # <<>>, IsLoop(s[Len(s)]),
         r # 1 => G!Follow[s[Len(s)].node] \subseteq G!Successors(l)
  PROVE  Holds(SubSeq(s, 1, Len(s) - 1), IF r = 1 THEN 1 ELSE 0, l)
<1> DEFINE below == SubSeq(s, 1, Len(s) - 1)
<1>1. prog \in Programs /\ IsPath(s)
  BY DEF Holds
<1>2. /\ Len(s) \in Nat \ {0} /\ IsPath(below) /\ Len(below) = Len(s) - 1
      /\ \A i \in 1 .. Len(s) - 1 : below[i] = s[i]
      /\ below = <<>> <=> Len(s) = 1
  BY <1>1, Popped
<1> HIDE DEF below
<1>3. /\ l \in Nodes /\ l # 0 /\ Len(s) - 1 \in Nat \ {0}
      /\ Runs(s[Len(s) - 1], s[Len(s)].node)
      /\ r = 1 => JumpOf(l) = 1
  BY LoopOnTop
<1>4. Len(s) - 1 \in 1 .. Len(s) - 1 /\ Len(s) - 1 \in 1 .. Len(s)
  BY <1>2, <1>3
<1>5. below # <<>> /\ below[Len(below)] = s[Len(s) - 1] /\ s[Len(s) - 1] \in Frame
  BY <1>1, <1>2, <1>4 DEF IsPath
<1>6. ASSUME r = 1
      PROVE  Holds(below, 1, l)
  BY <1>1, <1>2, <1>3, <1>6 DEF Holds, OnGraph, Caught
<1>7. ASSUME r # 1
      PROVE  Holds(below, 0, l)
  <2>1. Goes(s[Len(s) - 1], G!Successors(l))
    BY <1>1, <1>3, <1>5, <1>7, RunsChild
  <2> QED BY <1>1, <1>2, <1>3, <1>5, <1>7, <2>1 DEF Holds, OnGraph
<1> QED BY <1>6, <1>7 DEF below

----------------------------------------------------------------------------
(* Every action keeps the invariant, and is a step of the graph or none.   *)

\* What a step from stack s, flag r and node l to s2, r2 and l2 is to do.
Follows(s2, r2, l, l2) ==
  Holds(s2, r2, l2) /\ (l2 = l \/ (l # 0 /\ l2 \in G!Successors(l)))

LEMMA RunNodeFollows ==
  ASSUME CountsAssumption, NEW s, NEW l, Holds(s, 0, l), s # <<>>,
         s[Len(s)].fn = "runList", s[Len(s)].todo # <<>>,
         NEW s2 \in Frames(Append(SubSeq(s, 1, Len(s) - 1),
                                  RunList(s[Len(s)].node, Tail(s[Len(s)].todo))),
                           Head(s[Len(s)].todo))
  PROVE  Follows(s2, JumpOf(Head(s[Len(s)].todo)), l, Head(s[Len(s)].todo))
<1> DEFINE q == Append(SubSeq(s, 1, Len(s) - 1), RunList(s[Len(s)].node, Tail(s[Len(s)].todo)))
           n == Head(s[Len(s)].todo)
<1>1. prog \in Programs /\ IsPath(s) /\ l # 0 /\ Goes(s[Len(s)], G!Successors(l))
  BY DEF Holds, OnGraph
<1>2. /\ IsPath(q) /\ q # <<>> /\ Runs(q[Len(q)], n) /\ n \in Nodes
      /\ \A S : Goes(s[Len(s)], S) => n \in S
  BY <1>1, ListAdvances
<1>3. n \in G!Successors(l)
  BY <1>1, <1>2
<1> HIDE DEF q, n
<1>4. s2 \in Frames(q, n)
  BY DEF q, n
<1>5. Holds(s2, JumpOf(n), n)
  BY <1>1, <1>2, <1>4, Evaluated
<1> QED BY <1>1, <1>3, <1>5 DEF Follows, n

LEMMA WhileFollows ==
  ASSUME CountsAssumption, NEW s, NEW r \in {0, 3}, NEW l, Holds(s, r, l), s # <<>>,
         s[Len(s)].fn = "runWhile",
         NEW s2 \in Frames(SubSeq(s, 1, Len(s) - 1), s[Len(s)].node)
  PROVE  Follows(s2, 0, l, s[Len(s)].node)
<1> DEFINE q == SubSeq(s, 1, Len(s) - 1)
           n == s[Len(s)].node
<1>1. prog \in Programs /\ IsPath(s) /\ IsLoop(s[Len(s)])
  BY DEF Holds, IsLoop
<1>2. /\ s[Len(s)] \in Frame /\ Len(s) \in Nat \ {0} /\ IsPath(q) /\ Len(q) = Len(s) - 1
      /\ \A i \in 1 .. Len(s) - 1 : q[i] = s[i]
      /\ q = <<>> <=> Len(s) = 1
  BY <1>1, Popped
<1> HIDE DEF q
<1>3. Kind(n) = "while" /\ n \in Nodes /\ s[Len(s)].fn # "runList"
  BY <1>1, <1>2, FrameKinds
<1>4. /\ l # 0 /\ Len(s) - 1 \in Nat \ {0} /\ Runs(s[Len(s) - 1], n)
      /\ G!Again(n) \subseteq G!Successors(l)
  BY <1>1, LoopOnTop
<1>5. q # <<>> /\ Runs(q[Len(q)], n)
  <2>1. Len(s) - 1 \in 1 .. Len(s) - 1
    BY <1>2, <1>4
  <2> QED BY <1>2, <1>4, <2>1
<1>6. n \in G!Successors(l)
  BY <1>1, <1>3, <1>4, AgainOf
<1>7. JumpOf(n) = 0
  BY <1>3 DEF JumpOf
<1> HIDE DEF n
<1>8. s2 \in Frames(q, n)
  BY DEF q, n
<1>9. Holds(s2, JumpOf(n), n)
  BY <1>1, <1>2, <1>3, <1>5, <1>8, Evaluated
<1> QED BY <1>4, <1>6, <1>7, <1>9 DEF Follows, n

LEMMA RepeatFollows ==
  ASSUME NEW s, NEW r \in {0, 3}, NEW l, Holds(s, r, l), s # <<>>,
         s[Len(s)].fn = "runRepeat", NEW t \in Int
  PROVE  LET n == s[Len(s)].node
         IN  Follows(SubSeq(s, 1, Len(s) - 1) \o <<RunRepeat(n, t), RunList(n, Block(n))>>, 0, l, l)
<1> DEFINE q == SubSeq(s, 1, Len(s) - 1)
           n == s[Len(s)].node
           f == RunRepeat(n, t)
           b == RunList(n, Block(n))
<1>1. prog \in Programs /\ IsPath(s) /\ IsLoop(s[Len(s)])
  BY DEF Holds, IsLoop
<1>2. /\ s[Len(s)] \in Frame /\ Len(s) \in Nat \ {0} /\ IsPath(q) /\ Len(q) = Len(s) - 1
      /\ \A i \in 1 .. Len(s) - 1 : q[i] = s[i]
      /\ q = <<>> <=> Len(s) = 1
  BY <1>1, Popped
<1> HIDE DEF q
<1>3. Kind(n) = "repeat" /\ n \in Nodes
  BY <1>1, <1>2, FrameKinds
<1>4. /\ l \in Nodes /\ l # 0 /\ Len(s) - 1 \in Nat \ {0} /\ Runs(s[Len(s) - 1], n)
      /\ G!Again(n) \subseteq G!Successors(l)
  BY <1>1, LoopOnTop
<1>5. q # <<>> /\ Runs(q[Len(q)], n) /\ q \in Seq(Frame)
  <2>1. Len(s) - 1 \in 1 .. Len(s) - 1
    BY <1>2, <1>4
  <2> QED BY <1>2, <1>4, <2>1 DEF IsPath
<1>6. Block(n) \in Lists(n) /\ Block(n) \in Seq(Nodes)
  BY <1>1, <1>3, ChildrenAreNodes DEF Lists
<1> HIDE DEF n
<1>7. f \in Frame /\ IsLoop(f) /\ f.node = n
  BY <1>3 DEF RunRepeat, Frame, RepeatFrame, IsLoop
<1>8. b \in Frame
  BY <1>3, <1>6 DEF RunList, Frame, ListFrame
<1>9. \A x \in Frame : \A u \in Seq(Frame) :
         Append(u, x) # <<>> /\ Append(u, x)[Len(Append(u, x))] = x
  OBVIOUS
<1> HIDE DEF f
<1>10. IsPath(Append(q, f)) /\ Append(q, f) # <<>> /\ Append(q, f)[Len(Append(q, f))] = f
  BY <1>1, <1>2, <1>5, <1>7, <1>9, LoopPushed
<1>11. IsPath(Append(Append(q, f), b)) /\ Goes(b, G!Successors(l))
  <2>1. G!Enter(Block(n), AfterList(n)) \subseteq G!Successors(l)
    <3>1. AfterList(n) = G!Again(n)
      BY <1>3 DEF AfterList, Loops
    <3> QED BY <1>1, <1>3, <1>4, <3>1, AgainOf
  <2> QED BY <1>1, <1>3, <1>6, <1>7, <1>10, <2>1, ListPushed
<1> HIDE DEF b
<1>12. Append(q, f) \in Seq(Frame) /\ q \o <<f, b>> = Append(Append(q, f), b)
  BY <1>5, <1>7, <1>8
<1>13. q \o <<f, b>> # <<>> /\ (q \o <<f, b>>)[Len(q \o <<f, b>>)] = b
  BY <1>12, <1>8, <1>9
<1>14. Follows(q \o <<f, b>>, 0, l, l)
  <2> DEFINE v == q \o <<f, b>>
  <2>1. IsPath(v) /\ v # <<>> /\ Goes(v[Len(v)], G!Successors(l))
    BY <1>11, <1>12, <1>13
  <2> HIDE DEF v
  <2>2. Follows(v, 0, l, l)
    BY <1>1, <1>4, <2>1 DEF Follows, Holds, OnGraph
  <2> QED BY <2>2 DEF v
<1> QED BY <1>14 DEF q, n, f, b

LEMMA MethodEnds ==
  ASSUME NEW r, NEW l, Holds(<<>>, r, l), l # 0
  PROVE  Follows(<<>>, r, l, 0)
<1>1. prog \in Programs /\ IsPath(<<>>) /\ r \in 0 .. 3 /\ l \in Nodes /\ OnGraph(<<>>, r, l)
  BY DEF Holds
<1>2. 0 \in G!Successors(l)
  <2>1. CASE r = 0
    BY <1>1, <2>1 DEF OnGraph
  <2>2. CASE r = 1
    <3>1. JumpOf(l) = 1
      BY <1>1, <2>2 DEF OnGraph, Caught
    <3>2. Kind(l) = "return"
      BY <3>1 DEF JumpOf
    <3> QED BY <1>1, <3>2, SuccessorsOf
  <2>3. CASE r \in {2, 3}
    <3>1. InLoop(<<>>, 0, G!LoopOf[l]) /\ r = JumpOf(l)
      BY <1>1, <2>3 DEF OnGraph, Caught
    <3>2. G!LoopOf[l] = 1
      BY <3>1 DEF InLoop
    <3>3. Kind(l) \in {"break", "continue"}
      BY <2>3, <3>1 DEF JumpOf
    <3>4. Kind(1) = "method" /\ 1 \in Nodes
      BY <1>1, ProgramIsTree
    <3>5. 0 \in G!Follow[1] /\ 0 \in G!Again(1)
      BY <1>1, <3>4, AtMethod, AgainOf
    <3> QED BY <1>1, <3>2, <3>3, <3>5, SuccessorsOf
  <2> QED BY <1>1, <2>1, <2>2, <2>3
<1> QED BY <1>1, <1>2 DEF Follows, Holds, OnGraph

----------------------------------------------------------------------------
(* The theorems.                                                           *)

\* The program does not change, and so neither does its graph: what holds of
\* the next stack, flag and node holds in the next state.
LEMMA NextHolds ==
  ASSUME NEW s, NEW r, NEW l, prog' = prog, cstack' = s, isR' = r, last' = l, Holds(s, r, l)
  PROVE  IInv'
<1>1. G!Follow' = G!Follow /\ G!LoopOf' = G!LoopOf
  BY DEF G!Follow, G!LoopOf, G!Parent, G!IsLast, G!List, G!IndexIn, G!Enter,
         G!Kind, G!Block, G!Other, G!Nodes, G!Exit, G!Loops
<1>2. \A n : G!Successors(n)' = G!Successors(n)
  BY <1>1 DEF G!Successors, G!Again, G!Kind, G!Block, G!Other, G!Exit
<1>3. \A n : AfterList(n)' = AfterList(n) /\ LoopAt(n)' = LoopAt(n) /\ G!Again(n)' = G!Again(n)
  BY <1>1 DEF AfterList, LoopAt, G!Again, G!Kind, G!Block, Kind
<1>4. \A n : Lists(n)' = Lists(n)
  BY DEF Lists, Block, Other
<1>5. \A f, list, k : Inside(f, list, k)' <=> Inside(f, list, k)
  BY <1>4 DEF Inside
<1>6. \A f, n : Runs(f, n)' <=> Runs(f, n)
  BY <1>4, <1>5 DEF Runs
<1>7. \A f, S : Goes(f, S)' <=> Goes(f, S)
  BY <1>1, <1>3, <1>4, <1>5 DEF Goes
<1>8. \A d : FrameHolds(s, d)' <=> FrameHolds(s, d)
  BY <1>3, <1>4, <1>5, <1>6 DEF FrameHolds, Linked, InLoop, Kind
<1>9. Frame' = Frame
  BY DEF Frame, ListFrame, WhileFrame, RepeatFrame, Nodes, Kind
<1>10. OnGraph(s, r, l)' <=> OnGraph(s, r, l)
  BY <1>1, <1>2, <1>7 DEF OnGraph, Caught, InLoop, JumpOf, Kind
<1>11. Holds(s, r, l)'
  BY <1>8, <1>9, <1>10 DEF Holds, IsPath, Nodes
<1>12. IsPath(cstack)'
  <2>1. IsPath(s)'
    BY <1>11 DEF Holds
  <2>2. \A d : Linked(cstack, d)' <=> Linked(s, d)'
    BY DEF Linked, Runs, Inside, Lists, IsLoop, Kind, Block, Other
  <2>3. \A d : InLoop(cstack, d, LoopAt(cstack[d].node))' <=> InLoop(s, d, LoopAt(s[d].node))'
    BY DEF InLoop, LoopAt, IsLoop, Kind, Block
  <2>4. \A d : FrameHolds(cstack, d)' <=> FrameHolds(s, d)'
    BY <2>2, <2>3 DEF FrameHolds, Inside, Lists, Kind, Block, Other
  <2> QED BY <2>1, <2>4 DEF IsPath
<1>13. Caught(cstack, isR, last)' <=> Caught(s, r, l)'
  BY DEF Caught, InLoop, JumpOf, Kind, IsLoop
<1>14. \A S : Goes(cstack[Len(cstack)], S)' <=> Goes(s[Len(s)], S)'
  BY DEF Goes, Inside, Lists, AfterList, IsLoop, Kind, Block, Other, G!Again, G!Kind, G!Block
<1>15. G!Successors(last)' = G!Successors(l)'
  BY DEF G!Successors, G!Again, G!Kind, G!Block, G!Other, G!Exit
<1>16. OnGraph(cstack, isR, last)'
  <2>1. OnGraph(s, r, l)'
    BY <1>11 DEF Holds
  <2> QED BY <2>1, <1>13, <1>14, <1>15 DEF OnGraph
<1> QED BY <1>11, <1>12, <1>16 DEF IInv, Holds, Nodes

LEMMA StepFollows ==
  ASSUME IInv, [Next]_vars
  PROVE  prog' = prog /\ Follows(cstack', isR', last, last')
<1>1. Holds(cstack, isR, last) /\ prog \in Programs /\ IsPath(cstack) /\ isR \in 0 .. 3
  BY DEF IInv, Holds
<1>2. cstack # <<>> => Len(cstack) \in Nat \ {0} /\ Top \in Frame
  BY <1>1, Popped DEF Top
<1>3. CASE RunNode
  <2>1. cstack # <<>> /\ Top.fn = "runList" /\ Top.todo # <<>> /\ isR = 0
    BY <1>3 DEF RunNode, In
  <2>2. Follows(cstack', JumpOf(Head(Top.todo)), last, Head(Top.todo))
    BY <1>1, <1>3, <2>1, CountsAssumption, RunNodeFollows DEF RunNode, Top, Below
  <2> QED BY <1>3, <2>2 DEF RunNode
<1>4. CASE ListReturns
  <2>1. cstack # <<>> /\ Top.fn = "runList" /\ (Top.todo = <<>> \/ isR # 0)
    BY <1>4 DEF ListReturns, In
  <2>2. Holds(Below, isR, last)
    BY <1>1, <2>1, ListReturned DEF Top, Below
  <2> QED BY <1>4, <2>2 DEF ListReturns, Follows
<1>5. CASE While
  <2>1. cstack # <<>> /\ Top.fn = "runWhile" /\ IsLoop(Top)
    BY <1>5 DEF While, In, IsLoop
  <2>2. CASE GoesOn
    <3>1. isR \in {0, 3} /\ isR' = 0 /\ last' = Top.node /\ cstack' \in Frames(Below, Top.node)
      BY <1>5, <2>2 DEF While, GoesOn, AfterBody
    <3>2. Follows(cstack', 0, last, Top.node)
      BY <1>1, <2>1, <3>1, CountsAssumption, WhileFollows DEF Top, Below
    <3> QED BY <1>5, <3>1, <3>2 DEF While
  <2>3. CASE ~ GoesOn
    <3>1. isR \notin {0, 3} /\ isR' = (IF isR = 1 THEN 1 ELSE 0) /\ last' = last /\ cstack' = Below
      BY <1>5, <2>3 DEF While, GoesOn, AfterBody
    <3>2. isR # 1 => G!Follow[Top.node] \subseteq G!Successors(last)
      BY <1>1, <2>1, <3>1, LoopOnTop DEF Top
    <3>3. Holds(Below, IF isR = 1 THEN 1 ELSE 0, last)
      BY <1>1, <2>1, <3>2, LoopReturned DEF Top, Below
    <3> QED BY <1>5, <3>1, <3>3 DEF While, Follows
  <2> QED BY <2>2, <2>3
<1>6. CASE Repeat
  <2>1. cstack # <<>> /\ Top.fn = "runRepeat" /\ IsLoop(Top)
    BY <1>6 DEF Repeat, In, IsLoop
  <2>2. Top.t \in Int /\ Kind(Top.node) = "repeat" /\ Top.node \in Nodes
    BY <1>1, <1>2, <2>1, FrameKinds
  <2>3. isR' = (IF isR = 1 THEN 1 ELSE 0) /\ last' = last /\ prog' = prog
    BY <1>6 DEF Repeat, AfterBody
  <2>4. CASE GoesOn /\ Top.t # 0
    <3> DEFINE t == IF Top.t > 0 THEN Top.t - 1 ELSE Top.t
    <3>1. isR \in {0, 3} /\ isR' = 0 /\ t \in Int
      BY <1>6, <2>2, <2>4 DEF Repeat, GoesOn, AfterBody
    <3>3. cstack' = Below \o <<RunRepeat(Top.node, t), RunList(Top.node, Block(Top.node))>>
      BY <1>6, <2>4 DEF Repeat
    <3> HIDE DEF t
    <3>2. Follows(cstack', 0, last, last)
      BY <1>1, <2>1, <3>1, <3>3, RepeatFollows DEF Top, Below
    <3> QED BY <2>3, <3>1, <3>2
  <2>5. CASE ~ (GoesOn /\ Top.t # 0)
    <3>1. cstack' = Below
      BY <1>6, <2>5 DEF Repeat
    <3>2. isR # 1 => G!Follow[Top.node] \subseteq G!Successors(last)
      <4>1. isR \in {0, 3} => G!Again(Top.node) \subseteq G!Successors(last)
        BY <1>1, <2>1, LoopOnTop DEF Top
      <4>2. isR = 2 => G!Follow[Top.node] \subseteq G!Successors(last)
        BY <1>1, <2>1, LoopOnTop DEF Top
      <4>3. G!Follow[Top.node] \subseteq G!Again(Top.node)
        BY <1>1, <2>2, AgainOf
      <4> QED BY <1>1, <4>1, <4>2, <4>3
    <3>3. Holds(Below, IF isR = 1 THEN 1 ELSE 0, last)
      BY <1>1, <2>1, <3>2, LoopReturned DEF Top, Below
    <3> QED BY <2>3, <3>1, <3>3 DEF Follows
  <2> QED BY <2>4, <2>5
<1>7. CASE MethodReturns
  <2>1. cstack = <<>> /\ last # 0 /\ last' = 0 /\ prog' = prog /\ cstack' = cstack /\ isR' = isR
    BY <1>7 DEF MethodReturns
  <2>2. Holds(<<>>, isR, last)
    BY <1>1, <2>1
  <2> QED BY <2>1, <2>2, MethodEnds
<1>8. CASE UNCHANGED vars
  BY <1>1, <1>8 DEF vars, Follows
<1> QED BY <1>3, <1>4, <1>5, <1>6, <1>7, <1>8 DEF Next

LEMMA InitHolds == Init => IInv
<1> SUFFICES ASSUME Init PROVE IInv
  OBVIOUS
<1> DEFINE f == RunList(1, Block(1))
<1>1. prog \in Programs /\ cstack = <<f>> /\ isR = 0 /\ last = 1
  BY DEF Init
<1>2. 1 \in Nodes /\ Block(1) \in Lists(1) /\ Kind(1) = "method"
  BY <1>1, ProgramIsTree DEF Lists
<1>3. Block(1) \in Seq(Nodes) /\ Len(Block(1)) \in Nat
  BY <1>1, <1>2, ChildrenAreNodes
<1>4. f.fn = "runList" /\ f.node = 1 /\ f.todo = Block(1) /\ f \in Frame /\ ~ IsLoop(f)
  BY <1>2, <1>3 DEF RunList, Frame, ListFrame, IsLoop
<1> HIDE DEF f
<1>5. cstack \in Seq(Frame) /\ Len(cstack) = 1 /\ cstack[1] = f /\ cstack # <<>>
  BY <1>1, <1>4
<1>6. Inside(f, Block(1), 0) /\ 0 \in 0 .. Len(Block(1)) /\ Block(1) \in Lists(f.node)
  BY <1>2, <1>3, <1>4 DEF Inside
<1>7. LoopAt(1) = 1 /\ AfterList(1) = {0}
  BY <1>1, AtMethod
<1>8. InLoop(cstack, 1, LoopAt(f.node))
  BY <1>4, <1>5, <1>7 DEF InLoop
<1>9. FrameHolds(cstack, 1)
  BY <1>4, <1>5, <1>6, <1>8 DEF FrameHolds, Linked
<1>10. IsPath(cstack)
  BY <1>5, <1>9 DEF IsPath
<1>11. Goes(f, G!Successors(1))
  <2>1. G!Successors(1) = G!Enter(Block(1), {0})
    BY <1>1, <1>2, SuccessorsOf
  <2> QED BY <2>1, <1>4, <1>6, <1>7 DEF Goes
<1>12. OnGraph(cstack, 0, 1)
  BY <1>5, <1>11 DEF OnGraph
<1> QED BY <1>1, <1>2, <1>10, <1>12 DEF IInv, Holds

\* The C stack is the path to the statement that runs, and what happens next is
\* as the graph says, in every reachable state.
THEOREM StackIsPath == Spec => []IInv
<1>1. IInv /\ [Next]_vars => IInv'
  <2> SUFFICES ASSUME IInv, [Next]_vars PROVE IInv'
    OBVIOUS
  <2>1. prog' = prog /\ Follows(cstack', isR', last, last')
    BY StepFollows
  <2>2. PICK s : s = cstack'
    OBVIOUS
  <2>3. PICK r : r = isR'
    OBVIOUS
  <2>4. PICK l : l = last'
    OBVIOUS
  <2>5. Holds(s, r, l)
    BY <2>1, <2>2, <2>3, <2>4 DEF Follows
  <2> QED BY <2>1, <2>2, <2>3, <2>4, <2>5, NextHolds
<1> QED BY <1>1, InitHolds, PTL DEF Spec

\* The types of the variables.
THEOREM TypesHold == Spec => []TypeOK
<1>1. IInv => TypeOK
  BY DEF IInv, Holds, IsPath, Frame, TypeOK
<1> QED BY <1>1, StackIsPath, PTL

\* A jump under way is for the innermost loop whose body runs, whatever is nested
\* in it: runIf and runList pass it on, and runWhile and runRepeat end it.
THEOREM JumpsReachTheirLoop == Spec => []JumpsAreCaught
<1>1. IInv => JumpsAreCaught
  <2> SUFFICES ASSUME IInv, isR # 0, last # 0
               PROVE  /\ isR = JumpOf(last)
                      /\ isR \in {2, 3} =>
                           \/ \E d \in LoopFrames : Catcher(d) /\ cstack[d].node = G!LoopOf[last]
                           \/ LoopFrames = {} /\ G!LoopOf[last] = 1
    BY DEF JumpsAreCaught
  <2>1. Caught(cstack, isR, last) /\ cstack \in Seq(Frame)
    BY DEF IInv, Holds, OnGraph, IsPath
  <2>2. LoopFrames = {d \in 1 .. Len(cstack) : IsLoop(cstack[d])} /\ Len(cstack) \in Nat
    BY <2>1 DEF LoopFrames, IsLoop
  <2>3. ASSUME isR \in {2, 3}
        PROVE  \/ \E d \in LoopFrames : Catcher(d) /\ cstack[d].node = G!LoopOf[last]
               \/ LoopFrames = {} /\ G!LoopOf[last] = 1
    <3>1. InLoop(cstack, Len(cstack), G!LoopOf[last])
      BY <2>1, <2>3 DEF Caught
    <3>2. CASE G!LoopOf[last] = 1 /\ \A i \in 1 .. Len(cstack) : ~ IsLoop(cstack[i])
      BY <2>2, <3>2
    <3>3. ASSUME NEW e \in 1 .. Len(cstack), IsLoop(cstack[e]), cstack[e].node = G!LoopOf[last],
                 \A i \in e + 1 .. Len(cstack) : ~ IsLoop(cstack[i])
          PROVE  \E d \in LoopFrames : Catcher(d) /\ cstack[d].node = G!LoopOf[last]
      <4>1. e \in LoopFrames
        BY <2>2, <3>3
      <4>2. ASSUME NEW d \in LoopFrames
            PROVE  d <= e
        <5>1. d \in 1 .. Len(cstack) /\ d \notin e + 1 .. Len(cstack)
          BY <2>2, <3>3
        <5> QED BY <5>1, <2>2
      <4> QED BY <3>3, <4>1, <4>2 DEF Catcher
    <3> QED BY <3>1, <3>2, <3>3 DEF InLoop
  <2> QED BY <2>1, <2>3 DEF Caught
<1> QED BY <1>1, StackIsPath, PTL

\* Statements and conditions are evaluated in an order that the control-flow graph
\* allows: ControlFlow implements FlowGraph.
THEOREM Implements == Spec => FollowsFlowGraph
<1>1. Init => G!Init
  BY DEF Init, G!Init
<1>2. IInv /\ [Next]_vars => [G!Next]_<<prog, last>>
  <2> SUFFICES ASSUME IInv, [Next]_vars, ~ (UNCHANGED <<prog, last>>)
               PROVE  G!Next
    OBVIOUS
  <2>1. prog' = prog /\ Follows(cstack', isR', last, last')
    BY StepFollows
  <2>2. last # 0 /\ last' \in G!Successors(last)
    BY <2>1 DEF Follows
  <2> QED BY <2>1, <2>2 DEF G!Next, G!Exit
<1> QED BY <1>1, <1>2, StackIsPath, PTL DEF Spec, G!Spec, FollowsFlowGraph
=============================================================================
