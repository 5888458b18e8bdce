------------------------- MODULE SymbolTable_proofs -------------------------
(***************************************************************************)
(* The symbols are interned in a balanced search tree, for any number of   *)
(* names in every order.                                                   *)
(*                                                                         *)
(* The invariant gives every address the nodes below it and the height of  *)
(* its tree.  While calls of insertAVL return, the heights are those from  *)
(* before the insertion, but for the subtree that was returned last.       *)
(***************************************************************************)
EXTENDS SymbolTable, FiniteSetTheorems, SequenceTheorems, LeastNumber

----------------------------------------------------------------------------
(* The invariant, of a tree k over n + 1 nodes with names d and factors b,  *)
(* with the calls q on the C stack for the name a.                          *)

Pointer(n) == {NULL} \cup 0 .. n
Fields(n) == {Root} \cup 0 .. n
OnSide(i, j, s) == IF s = LH THEN i < j ELSE i > j
SideOf(i, j) == IF i < j THEN LH ELSE RH
Higher(i, j) == IF i > j THEN i ELSE j

\* No two fields point to one node.
OneParent(k, n) ==
  \A x, y \in Fields(n), s, t \in Sides : k[x][s] = k[y][t] /\ k[x][s] # NULL => x = y /\ s = t

\* A search tree, with the nodes B below every address.
IsTree(k, d, n, B) ==
  /\ k \in [Fields(n) -> [Sides -> Pointer(n)]] /\ d \in [0 .. n -> Nat]
  /\ B \in [Pointer(n) -> SUBSET (0 .. n)] /\ B[NULL] = {}
  /\ \A x \in 0 .. n : B[x] = {x} \cup B[k[x][LH]] \cup B[k[x][RH]]
  /\ \A x \in 0 .. n, s \in Sides : \A y \in B[k[x][s]] : OnSide(d[y], d[x], s)
  /\ B[k[Root][LH]] = 0 .. n
  /\ \A x, y \in 0 .. n : d[x] = d[y] => x = y
  /\ OneParent(k, n)

\* The calls go down the tree towards the name.
IsPath(k, d, n, B, q, a) ==
  /\ q \in Seq([of : Fields(n), side : Sides])
  /\ q # <<>> => q[1].of = Root /\ q[1].side = LH
  /\ \A i \in 1 .. Len(q) - 1 : q[i + 1].of = k[q[i].of][q[i].side]
  /\ \A i \in 2 .. Len(q) :
       q[i].of \in 0 .. n /\ d[q[i].of] # a /\ q[i].side = SideOf(a, d[q[i].of])
  /\ \A i, j \in 1 .. Len(q) :
       i <= j => B[k[q[j].of][q[j].side]] \subseteq B[k[q[i].of][q[i].side]]

\* A node of height l has factor f, over a subtree of height i on side s and one
\* of height j on the other.
Level(i, j, l, f, s) ==
  /\ l = 1 + Higher(i, j)
  /\ f = (IF s = LH THEN i - j ELSE j - i) /\ f \in {LH, EH, RH}

\* The heights h agree with the factors at x; or with the factor that x had before
\* the subtree on side s grew, which leans unless it is a leaf.
LevelAt(k, b, h, x) == Level(h[k[x][LH]], h[k[x][RH]], h[x], b[x], LH)
GrownAt(k, b, h, x, s) ==
  /\ Level(h[k[x][s]] - 1, h[k[x][-s]], h[x], b[x], s)
  /\ k[x][s] # NULL /\ (h[k[x][s]] = 1 \/ b[k[x][s]] # EH)
HasHeights(n, h) == h \in [Pointer(n) -> Nat] /\ h[NULL] = 0

----------------------------------------------------------------------------
(* Search trees.                                                           *)

LEMMA SideFacts ==
  /\ LH \in Sides /\ RH \in Sides /\ LH # RH /\ NULL \notin Nat /\ Root \notin Nat /\ Root # NULL
  /\ \A s \in Sides : -s \in Sides /\ s # -s /\ -(-s) = s /\ (s = LH \/ s = RH)
  /\ \A s, t \in Sides : t = s \/ t = -s
<1>1. LH = 1 /\ RH = -1 /\ NULL = -1 /\ Root = -2
  BY DEF LH, RH, NULL, Root
<1>2. \A i \in Int : -(-i) = i
  OBVIOUS
<1>3. \A s \in Sides : s = 1 \/ s = -1
  BY <1>1 DEF Sides
<1>4. 1 \in Sides /\ -1 \in Sides
  BY <1>1 DEF Sides
<1>5. ASSUME NEW s \in Sides
      PROVE  -s \in Sides /\ s # -s /\ -(-s) = s /\ (s = LH \/ s = RH)
  <2>1. PICK i \in Int : i = s /\ (i = 1 \/ i = -1)
    BY <1>3
  <2>2. /\ i = 1 => -i = -1 /\ -1 \in Sides
        /\ i = -1 => -i = 1 /\ 1 \in Sides
        /\ i # -i /\ -(-i) = i
    BY <2>1, <1>4
  <2>3. -i \in Sides
    BY <2>1, <2>2
  <2> QED BY <1>1, <2>1, <2>2, <2>3
<1>6. \A s, t \in Sides : t = s \/ t = -s
  BY <1>2, <1>3
<1> QED BY <1>1, <1>4, <1>5, <1>6

\* Order by sides.
LEMMA SideOrder ==
  ASSUME NEW i \in Nat, NEW j \in Nat, NEW s \in Sides
  PROVE  /\ OnSide(i, j, s) => OnSide(j, i, -s) /\ i # j
         /\ i # j => SideOf(i, j) \in Sides /\ OnSide(i, j, SideOf(i, j))
         /\ OnSide(i, j, s) => SideOf(i, j) = s
         /\ \A l \in Nat : OnSide(i, j, s) /\ OnSide(j, l, s) => OnSide(i, l, s)
  BY DEF OnSide, SideOf, Sides, LH, RH

\* A node is among its own, and not below its children.
LEMMA NodeFacts ==
  ASSUME NEW n \in Int, NEW k, NEW d, NEW B, IsTree(k, d, n, B)
  PROVE  /\ \A x \in 0 .. n : /\ x \in Nat /\ d[x] \in Nat /\ x \in Pointer(n) /\ x \in Fields(n)
                             /\ x # NULL /\ x # Root
         /\ \A x \in Fields(n), s \in Sides : k[x][s] \in Pointer(n)
         /\ \A x \in Pointer(n) : x = NULL \/ x \in 0 .. n
         /\ \A x \in Pointer(n) : B[x] \subseteq 0 .. n
         /\ \A x \in 0 .. n : x \in B[x]
         /\ \A x \in 0 .. n, s \in Sides : B[k[x][s]] \subseteq B[x] /\ x \notin B[k[x][s]]
         /\ \A x \in Fields(n), s \in Sides : x \notin B[k[x][s]]
<1>1. /\ k \in [Fields(n) -> [Sides -> Pointer(n)]] /\ d \in [0 .. n -> Nat]
      /\ B \in [Pointer(n) -> SUBSET (0 .. n)]
  BY DEF IsTree
<1>2. \A x \in 0 .. n : x \in Nat /\ x \in Pointer(n) /\ x \in Fields(n) /\ x # NULL /\ x # Root
  BY SideFacts DEF Pointer, Fields
<1>3. \A x \in 0 .. n : d[x] \in Nat
  BY <1>1
<1>4. \A x \in Fields(n), s \in Sides : k[x][s] \in Pointer(n)
  BY <1>1
<1>5. \A x \in Pointer(n) : B[x] \subseteq 0 .. n
  BY <1>1
<1>6. \A x \in 0 .. n : x \in B[x]
  BY DEF IsTree
<1>7. \A x \in 0 .. n, s \in Sides : B[k[x][s]] \subseteq B[x]
  BY SideFacts DEF IsTree
<1>8. \A x \in 0 .. n, s \in Sides : x \notin B[k[x][s]]
  <2>1. ASSUME NEW x \in 0 .. n, NEW s \in Sides, x \in B[k[x][s]]
        PROVE  FALSE
    <3>1. OnSide(d[x], d[x], s)
      BY <2>1 DEF IsTree
    <3> QED BY <1>3, <3>1, SideOrder
  <2> QED BY <2>1
<1>9. \A s \in Sides : Root \notin B[k[Root][s]]
  <2>1. Root \in Fields(n)
    BY DEF Fields
  <2> QED BY <1>2, <1>4, <1>5, <2>1
<1>10. \A x \in Pointer(n) : x = NULL \/ x \in 0 .. n
  BY DEF Pointer
<1>11. \A x \in Fields(n) : x = Root \/ x \in 0 .. n
  BY DEF Fields
<1> QED BY <1>2, <1>3, <1>4, <1>5, <1>6, <1>7, <1>8, <1>9, <1>10, <1>11

\* What a rotation does to every field.
Rotates(k, k2, n, p, t, x, s, c) ==
  /\ k2 \in [Fields(n) -> [Sides -> Pointer(n)]]
  /\ k2[p][t] = c /\ k2[x][s] = k[c][-s] /\ k2[c][-s] = x
  /\ \A y \in Fields(n), u \in Sides :
       ~ (y = p /\ u = t) /\ ~ (y = x /\ u = s) /\ ~ (y = c /\ u = -s) => k2[y][u] = k[y][u]

LEMMA RotateIs ==
  ASSUME NEW n \in Int, NEW k, NEW d, NEW B, IsTree(k, d, n, B),
         NEW p \in Fields(n), NEW t \in Sides, NEW s \in Sides, NEW x \in 0 .. n, NEW c \in 0 .. n,
         k[p][t] = x, k[x][s] = c
  PROVE  /\ p # x /\ p # c /\ x # c
         /\ Rotates(k, Rotate(k, Field(p, t), s), n, p, t, x, s, c)
<1>1. p # x /\ p # c /\ x # c
  BY NodeFacts
<1>2. Rotate(k, Field(p, t), s) = [k EXCEPT ![x][s] = k[c][-s], ![c][-s] = x, ![p][t] = c]
  BY Zenon DEF Rotate, Field
<1> DEFINE g == k[c][-s]
           o == -s
<1>3. /\ k \in [Fields(n) -> [Sides -> Pointer(n)]] /\ x \in Fields(n) /\ c \in Fields(n)
      /\ x \in Pointer(n) /\ c \in Pointer(n)
  <2>1. k \in [Fields(n) -> [Sides -> Pointer(n)]]
    BY DEF IsTree
  <2> QED BY <2>1, NodeFacts
<1>7. o \in Sides /\ g \in Pointer(n)
  <2>1. o \in Sides
    BY SideFacts
  <2>2. \A u \in Sides : k[c][u] \in Pointer(n)
    BY <1>3
  <2> QED BY <2>1, <2>2
<1>8. g = k[c][o]
  OBVIOUS
<1>4. Rotate(k, Field(p, t), s) = [k EXCEPT ![x] = [k[x] EXCEPT ![s] = g],
                                              ![c] = [k[c] EXCEPT ![o] = x],
                                              ![p] = [k[p] EXCEPT ![t] = c]]
  <2> HIDE DEF g, o
  <2> DEFINE j == [k EXCEPT ![x][s] = g, ![c][o] = x, ![p][t] = c]
  <2>1. Rotate(k, Field(p, t), s) = j
    BY <1>2 DEF g, o
  <2>2. j = [k EXCEPT ![x] = [k[x] EXCEPT ![s] = g],
                                              ![c] = [k[c] EXCEPT ![o] = x],
                                              ![p] = [k[p] EXCEPT ![t] = c]]
    BY <1>1, <1>3
  <2> QED BY <2>1, <2>2
<1>5. k[x] \in [Sides -> Pointer(n)] /\ k[c] \in [Sides -> Pointer(n)] /\ k[p] \in [Sides -> Pointer(n)]
  BY <1>3
<1> DEFINE k2 == [k EXCEPT ![x] = [k[x] EXCEPT ![s] = g],
                           ![c] = [k[c] EXCEPT ![o] = x],
                           ![p] = [k[p] EXCEPT ![t] = c]]
<1>6. /\ k2 \in [Fields(n) -> [Sides -> Pointer(n)]]
      /\ k2[p][t] = c /\ k2[x][s] = g /\ k2[c][o] = x
      /\ \A y \in Fields(n), u \in Sides :
          ~ (y = p /\ u = t) /\ ~ (y = x /\ u = s) /\ ~ (y = c /\ u = o) => k2[y][u] = k[y][u]
  <2> HIDE DEF g, o
  <2> QED BY <1>1, <1>3, <1>5, <1>7
<1>9. Rotates(k, k2, n, p, t, x, s, c)
  <2> HIDE DEF k2
  <2>1. k2[x][s] = k[c][-s] /\ k2[c][-s] = x
    BY <1>6
  <2>2. \A y \in Fields(n), u \in Sides :
          ~ (y = p /\ u = t) /\ ~ (y = x /\ u = s) /\ ~ (y = c /\ u = -s) => k2[y][u] = k[y][u]
    BY <1>6
  <2> HIDE DEF g, o
  <2> QED BY <1>6, <2>1, <2>2 DEF Rotates
<1> HIDE DEF g, o
<1> QED BY <1>1, <1>4, <1>9

\* A field holds no node twice.
LEMMA OnlyParent ==
  ASSUME NEW n \in Int, NEW k, NEW d, NEW B, IsTree(k, d, n, B),
         NEW p \in Fields(n), NEW t \in Sides, NEW y \in Fields(n), NEW u \in Sides,
         k[p][t] \in 0 .. n, ~ (y = p /\ u = t)
  PROVE  k[y][u] # k[p][t]
<1>1. k[p][t] # NULL
  BY NodeFacts
<1> QED BY <1>1 DEF IsTree, OneParent

\* The nodes below every address after a rotation.
Turned(k, B, x, s, c) ==
  [B EXCEPT ![x] = {x} \cup B[k[c][-s]] \cup B[k[x][-s]], ![c] = B[x]]

\* A rotation keeps a search tree.
LEMMA Rotation ==
  ASSUME NEW n \in Int, NEW k, NEW d, NEW B, IsTree(k, d, n, B), NEW k2,
         NEW p \in Fields(n), NEW t \in Sides, NEW s \in Sides, NEW x \in 0 .. n, NEW c \in 0 .. n,
         k[p][t] = x, k[x][s] = c, p # x, p # c, x # c,
         Rotates(k, k2, n, p, t, x, s, c)
  PROVE  IsTree(k2, d, n, Turned(k, B, x, s, c))
<1> DEFINE B2 == Turned(k, B, x, s, c)
           o == -s
           g == k[c][o]
           r == k[x][o]
<1>1. /\ o \in Sides /\ o # s /\ \A u \in Sides : u = s \/ u = o
      /\ (s = LH \/ s = RH) /\ (o = LH \/ o = RH)
  BY SideFacts
<1>2. /\ x \in Fields(n) /\ c \in Fields(n) /\ x \in Pointer(n) /\ c \in Pointer(n)
      /\ x # NULL /\ c # NULL /\ x # Root /\ c # Root
      /\ x \in Nat /\ c \in Nat /\ d[x] \in Nat /\ d[c] \in Nat
  BY NodeFacts
<1>3. /\ k \in [Fields(n) -> [Sides -> Pointer(n)]] /\ d \in [0 .. n -> Nat]
      /\ B \in [Pointer(n) -> SUBSET (0 .. n)] /\ B[NULL] = {}
      /\ \A y, z \in 0 .. n : d[y] = d[z] => y = z
  BY DEF IsTree
<1>4. g \in Pointer(n) /\ r \in Pointer(n)
  BY <1>1, <1>2, <1>3
<1>5. /\ k2 \in [Fields(n) -> [Sides -> Pointer(n)]]
      /\ k2[p][t] = c /\ k2[x][s] = g /\ k2[c][o] = x
      /\ \A y \in Fields(n), u \in Sides :
          ~ (y = p /\ u = t) /\ ~ (y = x /\ u = s) /\ ~ (y = c /\ u = o) => k2[y][u] = k[y][u]
  BY DEF Rotates
<1>6. /\ B2 \in [Pointer(n) -> SUBSET (0 .. n)]
      /\ B2[x] = {x} \cup B[g] \cup B[r] /\ B2[c] = B[x]
      /\ \A y \in Pointer(n) : y # x /\ y # c => B2[y] = B[y]
  <2>1. B2 = [B EXCEPT ![x] = {x} \cup B[g] \cup B[r], ![c] = B[x]]
    BY DEF Turned
  <2>2. B[g] \subseteq 0 .. n /\ B[r] \subseteq 0 .. n /\ B[x] \subseteq 0 .. n
    BY <1>2, <1>3, <1>4
  <2> DEFINE X == {x} \cup B[g] \cup B[r]
             Y == B[x]
  <2>3. X \in SUBSET (0 .. n) /\ Y \in SUBSET (0 .. n)
    BY <2>2
  <2> HIDE DEF X, Y
  <2>4. B2 = [B EXCEPT ![x] = X, ![c] = Y]
    BY <2>1 DEF X, Y
  <2> HIDE DEF B2
  <2>5. /\ B2 \in [Pointer(n) -> SUBSET (0 .. n)] /\ B2[x] = X /\ B2[c] = Y
        /\ \A y \in Pointer(n) : y # x /\ y # c => B2[y] = B[y]
    BY <2>3, <2>4, <1>2, <1>3
  <2> QED BY <2>5 DEF X, Y
<1> HIDE DEF B2
<1>7. /\ \A y \in Fields(n), u \in Sides : ~ (y = p /\ u = t) => k[y][u] # x
      /\ \A y \in Fields(n), u \in Sides : ~ (y = x /\ u = s) => k[y][u] # c
  BY <1>2, OnlyParent
<1>8. /\ \A y \in 0 .. n : B[y] = {y} \cup B[k[y][s]] \cup B[k[y][o]]
      /\ \A y \in 0 .. n, u \in Sides : \A z \in B[k[y][u]] : OnSide(d[z], d[y], u)
  <2>1. (s = LH /\ o = RH) \/ (s = RH /\ o = LH)
    BY SideFacts DEF LH, RH
  <2>2. /\ \A y \in 0 .. n : B[y] = {y} \cup B[k[y][LH]] \cup B[k[y][RH]]
        /\ \A y \in 0 .. n, u \in Sides : \A z \in B[k[y][u]] : OnSide(d[z], d[y], u)
    BY DEF IsTree
  <2> HIDE DEF o
  <2> QED BY <2>1, <2>2
\* Every field but two leads to the nodes that it led to before.
<1>9. ASSUME NEW y \in Fields(n), NEW u \in Sides, ~ (y = x /\ u = s), ~ (y = c /\ u = o)
      PROVE  B2[k2[y][u]] = B[k[y][u]]
  <2>1. CASE y = p /\ u = t
    BY <2>1, <1>5, <1>6
  <2>2. CASE ~ (y = p /\ u = t)
    <3>1. k2[y][u] = k[y][u]
      BY <2>2, <1>9, <1>5
    <3>2. k[y][u] # x /\ k[y][u] # c /\ k[y][u] \in Pointer(n)
      BY <2>2, <1>9, <1>7, <1>3
    <3> QED BY <3>1, <3>2, <1>6
  <2> QED BY <2>1, <2>2
<1>10. B2[k2[x][o]] = B[r] /\ B2[k2[x][s]] = B[g] /\ B2[k2[c][s]] = B[k[c][s]] /\ B2[k2[c][o]] = B2[x]
  <2>1. g # x /\ g # c
    BY <1>1, <1>2, <1>7
  <2>2. B2[k2[x][s]] = B[g]
    BY <2>1, <1>4, <1>5, <1>6
  <2>3. B2[k2[x][o]] = B[r] /\ B2[k2[c][s]] = B[k[c][s]]
    BY <1>1, <1>2, <1>9
  <2> QED BY <2>2, <2>3, <1>5
<1>11. B[x] = {x} \cup B[c] \cup B[r] /\ B[c] = {c} \cup B[k[c][s]] \cup B[g]
  BY <1>8
<1>12. ASSUME NEW y \in 0 .. n
       PROVE  B2[y] = {y} \cup B2[k2[y][LH]] \cup B2[k2[y][RH]]
  <2>1. B2[y] = {y} \cup B2[k2[y][s]] \cup B2[k2[y][o]]
    <3>1. CASE y = x
      BY <3>1, <1>6, <1>10
    <3>2. CASE y = c
      BY <3>2, <1>6, <1>10, <1>11
    <3>3. CASE y # x /\ y # c
      <4>1. y \in Fields(n) /\ y \in Pointer(n)
        BY NodeFacts
      <4>2. B2[k2[y][s]] = B[k[y][s]] /\ B2[k2[y][o]] = B[k[y][o]]
        BY <4>1, <3>3, <1>1, <1>9
      <4> QED BY <4>1, <4>2, <3>3, <1>6, <1>8
    <3> QED BY <3>1, <3>2, <3>3
  <2>2. (s = LH /\ o = RH) \/ (s = RH /\ o = LH)
    BY SideFacts DEF LH, RH
  <2> QED BY <2>1, <2>2
<1>13. ASSUME NEW y \in 0 .. n, NEW u \in Sides, NEW z \in B2[k2[y][u]]
       PROVE  OnSide(d[z], d[y], u)
  <2>1. y \in Fields(n) /\ d[y] \in Nat
    BY NodeFacts
  <2>2. CASE y = x /\ u = s
    <3>1. z \in B[c]
      BY <2>2, <1>10, <1>11, <1>13
    <3> QED BY <3>1, <2>2, <1>8
  <2>3. CASE y = c /\ u = o
    <3>1. z = x \/ z \in B[g] \/ z \in B[r]
      BY <2>3, <1>6, <1>10, <1>13
    <3>2. OnSide(d[c], d[x], s)
      BY <1>8, <1>11
    <3>3. OnSide(d[x], d[c], o)
      BY <3>2, <1>2, SideOrder
    <3>4. CASE z \in B[g]
      BY <3>4, <2>3, <1>1, <1>8
    <3>5. CASE z \in B[r]
      <4>1. OnSide(d[z], d[x], o)
        BY <3>5, <1>1, <1>8
      <4>2. d[z] \in Nat
        BY <3>5, <1>3, <1>4
      <4> QED BY <4>1, <4>2, <3>3, <2>3, <1>1, <1>2, SideOrder
    <3> QED BY <3>1, <3>3, <3>4, <3>5, <2>3
  <2>4. CASE ~ (y = x /\ u = s) /\ ~ (y = c /\ u = o)
    <3>1. z \in B[k[y][u]]
      BY <2>1, <2>4, <1>9, <1>13
    <3> QED BY <3>1, <1>8
  <2> QED BY <2>2, <2>3, <2>4
<1>14. B2[k2[Root][LH]] = 0 .. n
  <2>1. Root \in Fields(n) /\ LH \in Sides /\ B[k[Root][LH]] = 0 .. n
    BY SideFacts DEF Fields, IsTree
  <2> QED BY <2>1, <1>2, <1>9
<1>15. OneParent(k2, n)
  <2> DEFINE F(y, u) == IF y = p /\ u = t THEN <<x, s>>
                        ELSE IF y = x /\ u = s THEN <<c, o>>
                        ELSE IF y = c /\ u = o THEN <<p, t>> ELSE <<y, u>>
  <2>1. ASSUME NEW y \in Fields(n), NEW u \in Sides
        PROVE  /\ F(y, u)[1] \in Fields(n) /\ F(y, u)[2] \in Sides
               /\ k2[y][u] = k[F(y, u)[1]][F(y, u)[2]]
    BY <1>1, <1>2, <1>5
  <2>2. ASSUME NEW y \in Fields(n), NEW u \in Sides, NEW z \in Fields(n), NEW v \in Sides,
               F(y, u)[1] = F(z, v)[1], F(y, u)[2] = F(z, v)[2]
        PROVE  y = z /\ u = v
    BY <2>2, <1>1
  <2>3. \A y, z \in Fields(n), u, v \in Sides : k[y][u] = k[z][v] /\ k[y][u] # NULL => y = z /\ u = v
    BY DEF IsTree, OneParent
  <2>4. ASSUME NEW y \in Fields(n), NEW z \in Fields(n), NEW u \in Sides, NEW v \in Sides,
               k2[y][u] = k2[z][v], k2[y][u] # NULL
        PROVE  y = z /\ u = v
    <3> HIDE DEF F
    <3>1. F(y, u)[1] = F(z, v)[1] /\ F(y, u)[2] = F(z, v)[2]
      BY <2>1, <2>3, <2>4
    <3> QED BY <3>1, <2>2
  <2> QED BY <2>4 DEF OneParent
<1>16. B2[NULL] = {}
  <2>1. NULL \in Pointer(n)
    BY DEF Pointer
  <2> QED BY <2>1, <1>2, <1>3, <1>6
<1> HIDE DEF g, o, r
<1>17. IsTree(k2, d, n, B2)
  BY <1>3, <1>5, <1>6, <1>12, <1>13, <1>14, <1>15, <1>16 DEF IsTree
<1> QED BY <1>17 DEF B2

----------------------------------------------------------------------------
(* The path of the calls.                                                  *)

Front(q) == SubSeq(q, 1, Len(q) - 1)

LEMMA FrontIs ==
  ASSUME NEW T, NEW q \in Seq(T), q # <<>>
  PROVE  /\ Len(q) \in Nat /\ Len(q) >= 1 /\ Front(q) \in Seq(T) /\ Len(Front(q)) = Len(q) - 1
         /\ \A i \in 1 .. Len(q) - 1 : Front(q)[i] = q[i]
<1>1. q \in Seq(T) /\ Len(q) \in Nat \ {0}
  OBVIOUS
<1> DEFINE f == SubSeq(q, 1, Len(q) - 1)
<1>2. /\ f \in Seq(T) /\ Len(f) = Len(q) - 1
      /\ \A i \in 1 .. Len(q) - 1 : f[i] = q[i]
  <2>1. PICK m \in Nat \ {0} : m = Len(q)
    BY <1>1
  <2>2. /\ f \in Seq(T) /\ Len(f) = IF 1 <= m - 1 THEN m - 1 - 1 + 1 ELSE 0
        /\ \A i \in 1 .. m - 1 - 1 + 1 : f[i] = q[1 + i - 1]
    <3>1. \A i \in 1 .. m - 1 : q[i] \in T
      BY <2>1
    <3> QED BY <2>1, <3>1, SubSeqProperties
  <2> HIDE DEF f
  <2>3. Len(f) = m - 1
    BY <2>2
  <2>4. ASSUME NEW i \in 1 .. m - 1
        PROVE  f[i] = q[i]
    <3>1. 1 + i - 1 = i /\ i \in 1 .. m - 1 - 1 + 1
      OBVIOUS
    <3> QED BY <2>2, <3>1
  <2> QED BY <2>1, <2>2, <2>3, <2>4
<1> HIDE DEF f
<1> QED BY <1>1, <1>2 DEF Front, f

\* Where a path goes.
LEMMA PathFacts ==
  ASSUME NEW n \in Int, NEW k, NEW d, NEW B, NEW q, NEW a, IsTree(k, d, n, B), IsPath(k, d, n, B, q, a)
  PROVE  /\ Len(q) \in Nat
         /\ \A i \in 1 .. Len(q) :
              /\ q[i].of \in Fields(n) /\ q[i].side \in Sides
              /\ q[i].of # Root <=> i # 1
              /\ q[i].of = Root => q[i].side = LH
              /\ q[i].of # Root => /\ q[i].of \in 0 .. n /\ d[q[i].of] # a
                                   /\ q[i].side = SideOf(a, d[q[i].of])
              /\ q[i].of \notin B[k[q[i].of][q[i].side]]
         /\ \A i, j \in 1 .. Len(q) : i <= j => q[i].of \notin B[k[q[j].of][q[j].side]]
<1>1. /\ q \in Seq([of : Fields(n), side : Sides]) /\ Len(q) \in Nat
      /\ \A i \in 1 .. Len(q) : q[i] \in [of : Fields(n), side : Sides]
  <2>1. q \in Seq([of : Fields(n), side : Sides])
    BY DEF IsPath
  <2>2. \A R : q \in Seq(R) => Len(q) \in Nat /\ \A i \in 1 .. Len(q) : q[i] \in R
    OBVIOUS
  <2> QED BY <2>1, <2>2
<1>2. /\ q # <<>> => q[1].of = Root /\ q[1].side = LH
      /\ \A i \in 2 .. Len(q) :
           q[i].of \in 0 .. n /\ d[q[i].of] # a /\ q[i].side = SideOf(a, d[q[i].of])
      /\ \A i, j \in 1 .. Len(q) :
           i <= j => B[k[q[j].of][q[j].side]] \subseteq B[k[q[i].of][q[i].side]]
  BY DEF IsPath
<1>3. ASSUME NEW i \in 1 .. Len(q)
      PROVE  /\ q[i].of \in Fields(n) /\ q[i].side \in Sides
             /\ q[i].of # Root <=> i # 1
             /\ q[i].of = Root => q[i].side = LH
             /\ q[i].of # Root => /\ q[i].of \in 0 .. n /\ d[q[i].of] # a
                                  /\ q[i].side = SideOf(a, d[q[i].of])
  <2>1. q[i].of \in Fields(n) /\ q[i].side \in Sides
    BY <1>1
  <2>2. CASE i = 1
    <3>1. q # <<>>
      BY <1>1
    <3> QED BY <3>1, <2>1, <2>2, <1>2
  <2>3. CASE i # 1
    <3>1. i \in 2 .. Len(q)
      BY <2>3, <1>1
    <3> QED BY <3>1, <2>1, <2>3, <1>2, NodeFacts
  <2> QED BY <2>2, <2>3
<1>4. ASSUME NEW i \in 1 .. Len(q)
      PROVE  q[i].of \notin B[k[q[i].of][q[i].side]]
  BY <1>3, NodeFacts
<1> QED BY <1>1, <1>2, <1>3, <1>4

\* The node, or no node, that the call on top of the stack is for.
Tip(k, q) == k[q[Len(q)].of][q[Len(q)].side]

\* Every call is for the node at the field of the call before it.
Leads(k, q) == \A i \in 1 .. Len(q) - 1 : k[q[i].of][q[i].side] = q[i + 1].of

\* A change only of the subtree x, and of the field that points to it.
OnlyBelow(k, k2, n, B, B2, x, p, t) ==
  /\ \A y \in Fields(n), u \in Sides : y \notin B[x] /\ ~ (y = p /\ u = t) => k2[y][u] = k[y][u]
  /\ \A y \in Pointer(n) : y \notin B[x] => B2[y] = B[y]

\* What changes only the subtree at the top keeps the path to it.
LEMMA PathKept ==
  ASSUME NEW n \in Int, NEW k, NEW d, NEW B, NEW q, NEW a, IsTree(k, d, n, B), IsPath(k, d, n, B, q, a),
         q # <<>>, NEW k2, NEW B2, NEW x \in 0 .. n, x = Tip(k, q),
         OnlyBelow(k, k2, n, B, B2, x, q[Len(q)].of, q[Len(q)].side)
  PROVE  /\ IsPath(k2, d, n, B2, Front(q), a)
         /\ Leads(k2, q)
<1>0. /\ x = k[q[Len(q)].of][q[Len(q)].side]
      /\ \A y \in Fields(n), u \in Sides :
           y \notin B[x] /\ ~ (y = q[Len(q)].of /\ u = q[Len(q)].side) => k2[y][u] = k[y][u]
      /\ \A y \in Pointer(n) : y \notin B[x] => B2[y] = B[y]
  BY DEF Tip, OnlyBelow
<1> DEFINE At1(i) == k[q[i].of][q[i].side]
           At2(i) == k2[q[i].of][q[i].side]
<1>1. /\ q \in Seq([of : Fields(n), side : Sides]) /\ Len(q) \in Nat
      /\ \A i \in 1 .. Len(q) - 1 : q[i + 1].of = At1(i)
      /\ \A i, j \in 1 .. Len(q) : i <= j => B[At1(j)] \subseteq B[At1(i)]
  <2>1. Len(q) \in Nat
    BY PathFacts
  <2> QED BY <2>1 DEF IsPath
<1>2. /\ Front(q) \in Seq([of : Fields(n), side : Sides]) /\ Len(Front(q)) = Len(q) - 1 /\ Len(q) >= 1
      /\ \A i \in 1 .. Len(q) - 1 : Front(q)[i] = q[i]
  BY <1>1, FrontIs
<1>3. ASSUME NEW i \in 1 .. Len(q) - 1
      PROVE  At2(i) = q[i + 1].of /\ At2(i) = At1(i) /\ B2[At2(i)] = B[At1(i)]
  <2>1. i \in 1 .. Len(q) /\ i + 1 \in 1 .. Len(q) /\ Len(q) \in 1 .. Len(q) /\ i <= Len(q) /\ i + 1 <= Len(q)
    BY <1>1
  <2>2. q[i].of \notin B[x] /\ q[i + 1].of \notin B[x]
    <3>1. \A j, l \in 1 .. Len(q) : j <= l => q[j].of \notin B[k[q[l].of][q[l].side]]
      BY PathFacts
    <3>2. x = k[q[Len(q)].of][q[Len(q)].side]
      BY <1>0
    <3> QED BY ONLY <2>1, <3>1, <3>2
  <2>3. q[i + 1].of = At1(i) /\ At1(i) # x /\ At1(i) \in Pointer(n)
    <3>1. x \in B[x]
      BY NodeFacts
    <3>2. q[i].of \in Fields(n) /\ q[i].side \in Sides
      BY <2>1, PathFacts
    <3>3. q[i + 1].of = At1(i)
      BY <1>1
    <3>4. At1(i) \in Pointer(n)
      BY <3>2, NodeFacts
    <3> QED BY <3>1, <3>3, <3>4, <2>2
  <2>4. ~ (q[i].of = q[Len(q)].of /\ q[i].side = q[Len(q)].side)
    BY <2>3, <1>0
  <2>5. q[i].of \in Fields(n) /\ q[i].side \in Sides
    BY <2>1, PathFacts
  <2>6. At2(i) = At1(i)
    BY <2>2, <2>4, <2>5, <1>0
  <2>7. B2[At1(i)] = B[At1(i)]
    BY <2>2, <2>3, <1>0, Zenon
  <2> QED BY <2>3, <2>6, <2>7
<1>4. Front(q) # <<>> => Front(q)[1].of = Root /\ Front(q)[1].side = LH
  <2>1. SUFFICES ASSUME Front(q) # <<>> PROVE Front(q)[1].of = Root /\ Front(q)[1].side = LH
    OBVIOUS
  <2>2. Len(Front(q)) # 0
    BY <2>1, <1>2
  <2>3. Front(q)[1] = q[1] /\ q # <<>>
    BY <2>2, <1>1, <1>2
  <2> QED BY <2>3 DEF IsPath
<1>5. \A i \in 1 .. Len(Front(q)) - 1 : Front(q)[i + 1].of = k2[Front(q)[i].of][Front(q)[i].side]
  <2>1. SUFFICES ASSUME NEW i \in 1 .. Len(Front(q)) - 1
        PROVE Front(q)[i + 1].of = k2[Front(q)[i].of][Front(q)[i].side]
    OBVIOUS
  <2>2. i \in 1 .. Len(q) - 1 /\ i + 1 \in 1 .. Len(q) - 1
    BY <1>1, <1>2
  <2>3. Front(q)[i] = q[i] /\ Front(q)[i + 1] = q[i + 1]
    BY <2>2, <1>2
  <2> QED BY <2>2, <2>3, <1>3
<1>6. \A i \in 2 .. Len(Front(q)) :
        /\ Front(q)[i].of \in 0 .. n /\ d[Front(q)[i].of] # a
        /\ Front(q)[i].side = SideOf(a, d[Front(q)[i].of])
  <2>1. SUFFICES ASSUME NEW i \in 2 .. Len(Front(q))
        PROVE /\ Front(q)[i].of \in 0 .. n /\ d[Front(q)[i].of] # a
              /\ Front(q)[i].side = SideOf(a, d[Front(q)[i].of])
    OBVIOUS
  <2>2. i \in 2 .. Len(q) /\ i \in 1 .. Len(q) - 1
    BY <1>1, <1>2
  <2> QED BY <2>2, <1>2 DEF IsPath
<1>7. ASSUME NEW i \in 1 .. Len(Front(q)), NEW j \in 1 .. Len(Front(q)), i <= j
      PROVE B2[k2[Front(q)[j].of][Front(q)[j].side]] \subseteq B2[k2[Front(q)[i].of][Front(q)[i].side]]
  <2>1. i \in 1 .. Len(q) - 1 /\ j \in 1 .. Len(q) - 1 /\ i \in 1 .. Len(q) /\ j \in 1 .. Len(q)
    BY <1>1, <1>2
  <2>2. Front(q)[i] = q[i] /\ Front(q)[j] = q[j] /\ B[At1(j)] \subseteq B[At1(i)]
    BY <2>1, <1>1, <1>2, <1>7
  <2>3. B2[At2(i)] = B[At1(i)] /\ B2[At2(j)] = B[At1(j)]
    BY <2>1, <1>3
  <2> QED BY <2>2, <2>3, Zenon
<1>8. IsPath(k2, d, n, B2, Front(q), a)
  BY <1>2, <1>4, <1>5, <1>6, <1>7 DEF IsPath
<1> QED BY <1>3, <1>8 DEF Leads

\* The new node m, on top of the calls q, of a tree.
Adds(n, k, d, q, a, m, k2, d2) ==
  /\ m = n + 1
  /\ k2 \in [Fields(m) -> [Sides -> Pointer(m)]] /\ d2 \in [0 .. m -> Nat]
  /\ k2[q[Len(q)].of][q[Len(q)].side] = m /\ \A u \in Sides : k2[m][u] = NULL
  /\ \A y \in Fields(n), u \in Sides :
       ~ (y = q[Len(q)].of /\ u = q[Len(q)].side) => k2[y][u] = k[y][u]
  /\ d2[m] = a /\ \A y \in 0 .. n : d2[y] = d[y]

\* A new node belongs to the nodes on the path to it.
Joined(B, q, m) ==
  [x \in DOMAIN B \cup {m} |->
     IF x = m THEN {m} ELSE B[x] \cup (IF \E i \in 1 .. Len(q) : q[i].of = x THEN {m} ELSE {})]

\* A node is added to a search tree where the path to its name ends.
LEMMA Added ==
  ASSUME NEW n \in Int, n >= -1, NEW k, NEW d, NEW B, NEW q, NEW a \in Nat,
         IsTree(k, d, n, B), IsPath(k, d, n, B, q, a), q # <<>>,
         k[q[Len(q)].of][q[Len(q)].side] = NULL, \A y \in 0 .. n : d[y] # a,
         NEW m, NEW k2, NEW d2, Adds(n, k, d, q, a, m, k2, d2)
  PROVE  /\ IsTree(k2, d2, m, Joined(B, q, m))
         /\ IsPath(k2, d2, m, Joined(B, q, m), Front(q), a)
         /\ Leads(k2, q)
<1> DEFINE B2 == Joined(B, q, m)
           p == q[Len(q)].of
           t == q[Len(q)].side
           P == {q[i].of : i \in 1 .. Len(q)}
           OnPath(y, u) == \E i \in 1 .. Len(q) : y = q[i].of /\ u = q[i].side
<1>1. /\ m = n + 1 /\ m \in Nat /\ m \notin 0 .. n /\ \A x \in 0 .. m : x = m \/ x \in 0 .. n
      /\ k2 \in [Fields(m) -> [Sides -> Pointer(m)]] /\ d2 \in [0 .. m -> Nat]
      /\ k2[p][t] = m /\ \A u \in Sides : k2[m][u] = NULL
      /\ \A y \in Fields(n), u \in Sides : ~ (y = p /\ u = t) => k2[y][u] = k[y][u]
      /\ d2[m] = a /\ \A y \in 0 .. n : d2[y] = d[y]
  BY DEF Adds
<1>2. /\ m # NULL /\ m # Root /\ m \notin Pointer(n) /\ m \notin Fields(n)
      /\ Pointer(m) = Pointer(n) \cup {m} /\ Fields(m) = Fields(n) \cup {m}
      /\ NULL \in Pointer(n) /\ Root \in Fields(n)
      /\ NULL \notin 0 .. m /\ Root \notin 0 .. m /\ NULL \notin Fields(m)
  <2>1. 0 .. m = (0 .. n) \cup {m} /\ m \notin 0 .. n
    BY <1>1
  <2>2. NULL \notin 0 .. m /\ Root \notin 0 .. m /\ m # NULL /\ m # Root /\ NULL # Root
    BY <1>1 DEF NULL, Root
  <2> QED BY <2>1, <2>2 DEF Pointer, Fields
<1>3. /\ k \in [Fields(n) -> [Sides -> Pointer(n)]] /\ d \in [0 .. n -> Nat]
      /\ B \in [Pointer(n) -> SUBSET (0 .. n)] /\ B[NULL] = {}
      /\ \A y, z \in 0 .. n : d[y] = d[z] => y = z
      /\ B[k[Root][LH]] = 0 .. n
      /\ \A y \in 0 .. n : B[y] = {y} \cup B[k[y][LH]] \cup B[k[y][RH]]
      /\ \A y \in 0 .. n, u \in Sides : \A z \in B[k[y][u]] : OnSide(d[z], d[y], u)
  BY DEF IsTree
<1>4. /\ Len(q) \in Nat /\ Len(q) >= 1 /\ Len(q) \in 1 .. Len(q)
      /\ \A i \in 1 .. Len(q) :
              /\ q[i].of \in Fields(n) /\ q[i].side \in Sides
              /\ q[i].of # Root <=> i # 1
              /\ q[i].of = Root => q[i].side = LH
              /\ q[i].of # Root => /\ q[i].of \in 0 .. n /\ d[q[i].of] # a
                                   /\ q[i].side = SideOf(a, d[q[i].of])
      /\ \A i \in 1 .. Len(q) - 1 : q[i + 1].of = k[q[i].of][q[i].side]
      /\ q \in Seq([of : Fields(n), side : Sides])
  <2>1. q \in Seq([of : Fields(n), side : Sides])
    BY DEF IsPath
  <2>2. Len(q) \in Nat /\ Len(q) >= 1 /\ Len(q) \in 1 .. Len(q)
    BY <2>1, FrontIs
  <2>3. \A i \in 1 .. Len(q) - 1 : q[i + 1].of = k[q[i].of][q[i].side]
    BY <2>2 DEF IsPath
  <2> QED BY <2>1, <2>2, <2>3, PathFacts
<1>5. /\ B2 \in [Pointer(m) -> SUBSET (0 .. m)]
      /\ B2[m] = {m} /\ B2[NULL] = {}
      /\ \A x \in Pointer(n) \cap P : B2[x] = B[x] \cup {m}
      /\ \A x \in Pointer(n) \ P : B2[x] = B[x]
  <2>1. B2 = [x \in Pointer(m) |-> IF x = m THEN {m} ELSE B[x] \cup (IF x \in P THEN {m} ELSE {})]
    <3>1. \A x : (\E i \in 1 .. Len(q) : q[i].of = x) <=> x \in P
      OBVIOUS
    <3>2. DOMAIN B \cup {m} = Pointer(m)
      BY <1>2, <1>3
    <3> HIDE DEF P
    <3> QED BY <3>1, <3>2 DEF Joined
  <2>2. \A x \in Pointer(n) : B[x] \subseteq 0 .. m
    BY <1>1, <1>3
  <2>3. {m} \subseteq 0 .. m
    BY <1>1
  <2>4. NULL \notin P
    BY <1>2, <1>4
  <2> DEFINE E(x) == IF x = m THEN {m} ELSE B[x] \cup (IF x \in P THEN {m} ELSE {})
  <2>5. /\ B2 = [x \in Pointer(m) |-> E(x)]
        /\ E(m) = {m} /\ E(NULL) = {}
        /\ \A x \in Pointer(n) \cap P : E(x) = B[x] \cup {m}
        /\ \A x \in Pointer(n) \ P : E(x) = B[x]
    <3> HIDE DEF P, B2
    <3> QED BY <2>1, <2>4, <1>2, <1>3
  <2>6. \A x \in Pointer(m) : E(x) \in SUBSET (0 .. m)
    <3> HIDE DEF P, B2
    <3> QED BY <2>2, <2>3, <1>2
  <2> HIDE DEF P, B2, E
  <2> QED BY <2>5, <2>6, <1>2
<1> HIDE DEF B2
\* The fields that lead to the path, or to the new node, are those on it.
<1>6. ASSUME NEW y \in Fields(n), NEW u \in Sides, OnPath(y, u)
      PROVE  IF y = p /\ u = t THEN k2[y][u] = m ELSE k2[y][u] = k[y][u] /\ k[y][u] \in P /\ k[y][u] \in 0 .. n
  <2>1. PICK i \in 1 .. Len(q) : y = q[i].of /\ u = q[i].side
    BY <1>6
  <2>2. ASSUME ~ (y = p /\ u = t)
        PROVE  k[y][u] \in P /\ k[y][u] \in 0 .. n
    <3>1. i # Len(q)
      BY <2>1, <2>2
    <3>2. i \in 1 .. Len(q) - 1 /\ i + 1 \in 1 .. Len(q) /\ i + 1 # 1
      BY <3>1, <1>4
    <3>3. k[y][u] = q[i + 1].of
      BY <3>2, <2>1, <1>4
    <3> QED BY <3>2, <3>3, <1>4
  <2> QED BY <2>2, <1>1
<1>7. ASSUME NEW y \in Fields(n), NEW u \in Sides, ~ OnPath(y, u)
      PROVE  k2[y][u] = k[y][u] /\ k[y][u] \in Pointer(n) \ P
  <2>1. ~ (y = p /\ u = t)
    BY <1>4, <1>7
  <2>2. ASSUME k[y][u] \in P
        PROVE  FALSE
    <3>1. PICK i \in 1 .. Len(q) : k[y][u] = q[i].of
      BY <2>2
    <3>2. k[y][u] \in Pointer(n)
      BY <1>3
    <3>3. i # 1
      BY <3>1, <3>2, <1>2, <1>4 DEF Pointer
    <3>4. i - 1 \in 1 .. Len(q) - 1 /\ i - 1 \in 1 .. Len(q) /\ (i - 1) + 1 = i /\ i \in 1 .. Len(q)
      BY <3>3, <1>4
    <3>5. k[y][u] = k[q[i - 1].of][q[i - 1].side] /\ k[y][u] \in 0 .. n
      BY <3>1, <3>3, <3>4, <1>4
    <3>6. q[i - 1].of \in Fields(n) /\ q[i - 1].side \in Sides
      BY <3>4, <1>4
    <3>7. y = q[i - 1].of /\ u = q[i - 1].side
      BY <3>5, <3>6, OnlyParent
    <3> QED BY <3>4, <3>7, <1>7
  <2> QED BY <2>1, <2>2, <1>1, <1>3
<1>8. ASSUME NEW y \in Fields(n), NEW u \in Sides
      PROVE  B2[k2[y][u]] = B[k[y][u]] \cup (IF OnPath(y, u) THEN {m} ELSE {})
  <2> HIDE DEF P, OnPath
  <2>1. CASE OnPath(y, u) /\ y = p /\ u = t
    <3>1. k[y][u] = NULL /\ k2[y][u] = m
      BY <2>1, <1>1
    <3> QED BY <3>1, <2>1, <1>3, <1>5
  <2>2. CASE OnPath(y, u) /\ ~ (y = p /\ u = t)
    BY <2>2, <1>5, <1>6, NodeFacts
  <2>3. CASE ~ OnPath(y, u)
    BY <2>3, <1>5, <1>7
  <2> QED BY <2>1, <2>2, <2>3
<1>9. ASSUME NEW y \in 0 .. n
      PROVE  y \in P <=> OnPath(y, LH) \/ OnPath(y, RH)
  BY <1>4, SideFacts
<1>10. ASSUME NEW y \in 0 .. m
       PROVE  B2[y] = {y} \cup B2[k2[y][LH]] \cup B2[k2[y][RH]]
  <2>1. LH \in Sides /\ RH \in Sides
    BY SideFacts
  <2>2. CASE y = m
    BY <2>1, <2>2, <1>1, <1>5
  <2>3. CASE y \in 0 .. n
    <3>1. y \in Pointer(n) /\ y \in Fields(n)
      BY <2>3, NodeFacts
    <3>2. B2[k2[y][LH]] = B[k[y][LH]] \cup (IF OnPath(y, LH) THEN {m} ELSE {})
      BY <2>1, <3>1, <1>8
    <3>3. B2[k2[y][RH]] = B[k[y][RH]] \cup (IF OnPath(y, RH) THEN {m} ELSE {})
      BY <2>1, <3>1, <1>8
    <3>4. B2[y] = B[y] \cup (IF y \in P THEN {m} ELSE {})
      BY <3>1, <1>5
    <3>5. B[y] = {y} \cup B[k[y][LH]] \cup B[k[y][RH]] /\ (y \in P <=> OnPath(y, LH) \/ OnPath(y, RH))
      BY <2>3, <1>3, <1>9
    <3> HIDE DEF P, OnPath
    <3> QED BY <3>2, <3>3, <3>4, <3>5
  <2> QED BY <2>2, <2>3, <1>1
<1>11. ASSUME NEW y \in 0 .. m, NEW u \in Sides, NEW z \in B2[k2[y][u]]
       PROVE  OnSide(d2[z], d2[y], u)
  <2>1. y # m
    BY <1>1, <1>5, <1>11
  <2>2. y \in 0 .. n /\ y \in Fields(n)
    BY <2>1, <1>1, NodeFacts
  <2>3. CASE z \in B[k[y][u]]
    <3>1. k[y][u] \in Pointer(n)
      BY <2>2, <1>3
    <3>2. z \in 0 .. n
      BY <2>3, <3>1, <1>3
    <3> QED BY <3>2, <2>2, <2>3, <1>1, <1>3
  <2>4. CASE z \notin B[k[y][u]]
    <3>1. z = m /\ OnPath(y, u)
      BY <2>2, <2>4, <1>8, <1>11
    <3>2. PICK i \in 1 .. Len(q) : y = q[i].of /\ u = q[i].side
      BY <3>1
    <3>3. y # Root
      BY <2>2, NodeFacts
    <3>4. d[y] # a /\ u = SideOf(a, d[y])
      BY <3>2, <3>3, <1>4
    <3>5. d[y] \in Nat
      BY <2>2, <1>3
    <3>6. OnSide(a, d[y], u)
      BY <3>4, <3>5, SideOrder
    <3> QED BY <3>1, <3>6, <2>2, <1>1
  <2> QED BY <2>3, <2>4
<1>12. B2[k2[Root][LH]] = 0 .. m
  <2>1. OnPath(Root, LH) /\ Root \in Fields(n) /\ LH \in Sides
    <3>1. 1 \in 1 .. Len(q) /\ q[1].of = Root
      BY <1>4
    <3>2. q[1].side = LH
      BY <3>1, <1>4
    <3> QED BY <3>1, <3>2, <1>2, SideFacts
  <2>2. B2[k2[Root][LH]] = (0 .. n) \cup {m}
    <3> HIDE DEF OnPath
    <3> QED BY <2>1, <1>3, <1>8
  <2> QED BY <2>2, <1>1
<1>13. \A y, z \in 0 .. m : d2[y] = d2[z] => y = z
  <2>1. ASSUME NEW y \in 0 .. m, NEW z \in 0 .. m, d2[y] = d2[z]
        PROVE  y = z
    <3>1. CASE y = m /\ z = m
      BY <3>1
    <3>2. CASE y \in 0 .. n /\ z \in 0 .. n
      BY <3>2, <2>1, <1>1, <1>3
    <3>3. CASE y = m /\ z \in 0 .. n
      BY <3>3, <2>1, <1>1
    <3>4. CASE y \in 0 .. n /\ z = m
      BY <3>4, <2>1, <1>1
    <3> QED BY <3>1, <3>2, <3>3, <3>4, <1>1
  <2> QED BY <2>1
<1>14. OneParent(k2, m)
  <2>1. ASSUME NEW y \in Fields(m), NEW u \in Sides, k2[y][u] # NULL
        PROVE  y \in Fields(n)
    BY <2>1, <1>1, <1>2
  <2>2. ASSUME NEW y \in Fields(n), NEW u \in Sides, ~ (y = p /\ u = t)
        PROVE  k2[y][u] = k[y][u] /\ k2[y][u] # m
    BY <2>2, <1>1, <1>2, <1>3
  <2>3. ASSUME NEW y \in Fields(m), NEW z \in Fields(m), NEW u \in Sides, NEW v \in Sides,
               k2[y][u] = k2[z][v], k2[y][u] # NULL
        PROVE  y = z /\ u = v
    <3>1. y \in Fields(n) /\ z \in Fields(n)
      BY <2>1, <2>3
    <3>2. (y = p /\ u = t) <=> (z = p /\ v = t)
      BY <3>1, <2>2, <2>3, <1>1
    <3>3. CASE ~ (y = p /\ u = t)
      <4>1. k[y][u] = k[z][v] /\ k[y][u] # NULL
        BY <3>1, <3>2, <3>3, <2>2, <2>3
      <4> QED BY <4>1, <3>1 DEF IsTree, OneParent
    <3> QED BY <3>2, <3>3
  <2> QED BY <2>3 DEF OneParent
<1>15. IsTree(k2, d2, m, B2)
  BY <1>1, <1>5, <1>10, <1>11, <1>12, <1>13, <1>14 DEF IsTree
\* The calls that are left.
<1> DEFINE r == Front(q)
<1>16. /\ r \in Seq([of : Fields(n), side : Sides]) /\ Len(r) = Len(q) - 1
       /\ \A i \in 1 .. Len(q) - 1 : r[i] = q[i]
  BY <1>4, FrontIs
<1> HIDE DEF r
<1>17. ASSUME NEW i \in 1 .. Len(q) - 1
       PROVE  /\ i \in 1 .. Len(q) /\ k2[q[i].of][q[i].side] = q[i + 1].of
              /\ B2[k2[q[i].of][q[i].side]] = B[k[q[i].of][q[i].side]] \cup {m}
  <2>1. i \in 1 .. Len(q) /\ i + 1 \in 1 .. Len(q) /\ i + 1 # 1
    BY <1>4
  <2>2. OnPath(q[i].of, q[i].side) /\ q[i].of \in Fields(n) /\ q[i].side \in Sides
    BY <2>1, <1>4
  <2>3. k[q[i].of][q[i].side] = q[i + 1].of /\ q[i + 1].of \in 0 .. n
    BY <2>1, <1>4
  <2>4. ~ (q[i].of = p /\ q[i].side = t)
    BY <2>3, <1>2, NodeFacts
  <2>5. k2[q[i].of][q[i].side] = q[i + 1].of
    BY <2>2, <2>3, <2>4, <1>1
  <2>6. B2[k2[q[i].of][q[i].side]] = B[k[q[i].of][q[i].side]] \cup {m}
    <3> HIDE DEF OnPath
    <3> QED BY <2>2, <1>8
  <2> QED BY <2>1, <2>5, <2>6
<1>18. IsPath(k2, d2, m, B2, r, a)
  <2>1. r \in Seq([of : Fields(m), side : Sides])
    <3>1. [of : Fields(n), side : Sides] \subseteq [of : Fields(m), side : Sides]
      BY <1>2
    <3>2. \A R, T : R \subseteq T /\ r \in Seq(R) => r \in Seq(T)
      OBVIOUS
    <3> QED BY <3>1, <3>2, <1>16
  <2>2. r # <<>> => r[1].of = Root /\ r[1].side = LH
    <3>1. SUFFICES ASSUME r # <<>> PROVE r[1].of = Root /\ r[1].side = LH
      OBVIOUS
    <3>2. Len(r) # 0
      BY <3>1, <1>16
    <3>3. r[1] = q[1] /\ 1 \in 1 .. Len(q)
      BY <3>2, <1>4, <1>16
    <3> QED BY <3>3, <1>4
  <2>3. \A i \in 1 .. Len(r) - 1 : r[i + 1].of = k2[r[i].of][r[i].side]
    <3>1. SUFFICES ASSUME NEW i \in 1 .. Len(r) - 1 PROVE r[i + 1].of = k2[r[i].of][r[i].side]
      OBVIOUS
    <3>2. i \in 1 .. Len(q) - 1 /\ i + 1 \in 1 .. Len(q) - 1
      BY <1>4, <1>16
    <3> QED BY <3>2, <1>16, <1>17
  <2>4. \A i \in 2 .. Len(r) : /\ r[i].of \in 0 .. m /\ d2[r[i].of] # a
                               /\ r[i].side = SideOf(a, d2[r[i].of])
    <3>1. SUFFICES ASSUME NEW i \in 2 .. Len(r)
          PROVE /\ r[i].of \in 0 .. m /\ d2[r[i].of] # a /\ r[i].side = SideOf(a, d2[r[i].of])
      OBVIOUS
    <3>2. i \in 1 .. Len(q) /\ i # 1 /\ r[i] = q[i]
      BY <1>4, <1>16
    <3>3. q[i].of \in 0 .. n /\ d[q[i].of] # a /\ q[i].side = SideOf(a, d[q[i].of])
      BY <3>2, <1>4
    <3> QED BY <3>2, <3>3, <1>1
  <2>5. ASSUME NEW i \in 1 .. Len(r), NEW j \in 1 .. Len(r), i <= j
        PROVE  B2[k2[r[j].of][r[j].side]] \subseteq B2[k2[r[i].of][r[i].side]]
    <3>1. i \in 1 .. Len(q) - 1 /\ j \in 1 .. Len(q) - 1 /\ i \in 1 .. Len(q) /\ j \in 1 .. Len(q)
      BY <1>4, <1>16
    <3>2. B[k[q[j].of][q[j].side]] \subseteq B[k[q[i].of][q[i].side]]
      BY <3>1, <2>5 DEF IsPath
    <3>3. r[i] = q[i] /\ r[j] = q[j]
      BY <3>1, <1>16
    <3> QED BY <3>1, <3>2, <3>3, <1>17
  <2> QED BY <2>1, <2>2, <2>3, <2>4, <2>5 DEF IsPath
<1>19. Leads(k2, q)
  BY <1>17 DEF Leads
<1> QED BY <1>15, <1>18, <1>19 DEF B2, r

----------------------------------------------------------------------------
(* The heights.                                                            *)

Factors == {LH, EH, RH}

LEMMA Numbers ==
  /\ LH = 1 /\ EH = 0 /\ RH = -1
  /\ \A s \in Sides : s \in Int /\ -s \in Int /\ (s = 1 \/ s = -1)
  /\ \A f \in Factors : f \in Int
BY DEF LH, EH, RH, Sides, Factors

\* A level, written for the other side.
LEMMA LevelTurned ==
  ASSUME NEW i \in Int, NEW j \in Int, NEW l \in Int, NEW f \in Int, NEW s \in Sides
  PROVE  Level(i, j, l, f, s) <=> Level(j, i, l, f, -s)
<1>1. Higher(i, j) = Higher(j, i)
  BY DEF Higher
<1>2. (s = LH /\ -s # LH) \/ (s # LH /\ -s = LH)
  BY SideFacts
<1> QED BY <1>1, <1>2 DEF Level

LEMMA LevelOnSide ==
  ASSUME NEW n, NEW k, NEW b, NEW h, HasHeights(n, h), NEW x \in 0 .. n, NEW s \in Sides,
         b[x] \in Factors, k[x][LH] \in Pointer(n), k[x][RH] \in Pointer(n)
  PROVE  LevelAt(k, b, h, x) <=> Level(h[k[x][s]], h[k[x][-s]], h[x], b[x], s)
<1>1. h[k[x][LH]] \in Int /\ h[k[x][RH]] \in Int /\ h[x] \in Int /\ b[x] \in Int
  BY Numbers DEF HasHeights, Pointer
<1>2. (s = LH /\ -s = RH) \/ (s = RH /\ -s = LH)
  BY SideFacts DEF LH, RH
<1>3. LH \in Sides /\ RH \in Sides
  BY SideFacts
<1>4. CASE s = LH /\ -s = RH
  BY <1>4 DEF LevelAt
<1>5. CASE s = RH /\ -s = LH
  BY <1>1, <1>3, <1>5, LevelTurned DEF LevelAt
<1> QED BY <1>2, <1>4, <1>5

\* The higher side of a node gets higher; or the other; or it leaned to none.
LEMMA Leans ==
  ASSUME NEW i \in Nat, NEW j \in Nat, NEW l \in Nat, NEW f \in Factors, NEW s \in Sides,
         Level(i - 1, j, l, f, s), f # s
  PROVE  /\ f = EH => Level(i, j, l + 1, f + s, s) /\ f + s # EH
         /\ f # EH => Level(i, j, l, f + s, s)
         /\ f + s \in Factors
<1>1. CASE s = 1
  BY <1>1, Numbers DEF Level, Higher, Factors
<1>2. CASE s = -1
  BY <1>2, Numbers DEF Level, Higher, Factors
<1> QED BY <1>1, <1>2, Numbers

\* The heights i and j of the subtrees of a node of height l that is too high on
\* side s, after a single rotation.
LEMMA Single ==
  ASSUME NEW i \in Nat, NEW j \in Nat, NEW l \in Nat, NEW s \in Sides, Level(i - 1, j, l, s, s),
         NEW u \in Nat, NEW v \in Nat, Level(u, v, i, s, s)
  PROVE  l = i /\ i - 1 \in Nat /\ Level(v, j, i - 1, EH, s) /\ Level(u, i - 1, i, EH, s)
<1>1. CASE s = 1
  BY <1>1, Numbers DEF Level, Higher
<1>2. CASE s = -1
  BY <1>2, Numbers DEF Level, Higher
<1> QED BY <1>1, <1>2, Numbers

\* A level depends on the children, their heights, and its own height and factor.
LEMMA LevelKept ==
  ASSUME NEW n \in Int, NEW k, NEW b, NEW h, HasHeights(n, h), NEW x \in 0 .. n, b[x] \in Factors,
         k[x] \in [Sides -> Pointer(n)], LevelAt(k, b, h, x),
         NEW m, NEW k2, NEW b2, NEW h2, HasHeights(m, h2), x \in 0 .. m, k2[x] \in [Sides -> Pointer(m)],
         \A u \in Sides : h2[k2[x][u]] = h[k[x][u]], b2[x] = b[x], h2[x] = h[x]
  PROVE  LevelAt(k2, b2, h2, x)
BY SideFacts DEF LevelAt

Leaned(b, x, s) == [b EXCEPT ![x] = @ + s]

\* The levels when a subtree of p has grown, or none.
LevelsBut(n, k, b, grows, p, t, h) ==
  /\ HasHeights(n, h)
  /\ \A y \in 0 .. n : (y = p /\ grows) \/ LevelAt(k, b, h, y)
  /\ grows /\ p # Root => GrownAt(k, b, h, p, t)

\* A node whose subtree got higher leans towards it, or no longer to the other side.
LEMMA LeanLevels ==
  ASSUME NEW n \in Int, NEW k, NEW d, NEW B, IsTree(k, d, n, B), NEW h, HasHeights(n, h),
         NEW b \in [0 .. n -> Factors], NEW x \in 0 .. n, NEW s \in Sides,
         GrownAt(k, b, h, x, s), b[x] # s, \A y \in 0 .. n : y # x => LevelAt(k, b, h, y),
         NEW p \in Fields(n), NEW t \in Sides, k[p][t] = x, NEW b2, b2 = Leaned(b, x, s)
  PROVE  /\ b2 \in [0 .. n -> Factors]
         /\ \E h2 : LevelsBut(n, k, b2, b[x] = EH, p, t, h2)
<1> DEFINE c == k[x][s]
           o == k[x][-s]
           l2 == IF b[x] = EH THEN h[x] + 1 ELSE h[x]
           h2 == [h EXCEPT ![x] = l2]
<1>1. /\ k \in [Fields(n) -> [Sides -> Pointer(n)]]
      /\ h \in [Pointer(n) -> Nat] /\ h[NULL] = 0 /\ -s \in Sides /\ -t \in Sides /\ t # -t
      /\ x \in Fields(n) /\ x \in Pointer(n) /\ x # NULL /\ NULL \in Pointer(n)
      /\ p # x /\ \A y \in 0 .. n : y \in Fields(n) /\ y \in Pointer(n)
  <2>1. k \in [Fields(n) -> [Sides -> Pointer(n)]]
    BY DEF IsTree
  <2>2. NULL \in Pointer(n)
    BY DEF Pointer
  <2>3. p # x
    BY NodeFacts
  <2>4. h \in [Pointer(n) -> Nat] /\ h[NULL] = 0
    BY DEF HasHeights
  <2>5. -s \in Sides /\ -t \in Sides /\ t # -t
    BY SideFacts
  <2>6. \A y \in 0 .. n : y \in Fields(n) /\ y \in Pointer(n) /\ y # NULL
    BY NodeFacts
  <2> QED BY <2>1, <2>2, <2>3, <2>4, <2>5, <2>6
<1>2. /\ c \in Pointer(n) /\ o \in Pointer(n) /\ c # x /\ o # x
      /\ h[c] \in Nat /\ h[o] \in Nat /\ h[x] \in Nat /\ b[x] \in Factors
  <2>1. c \in Pointer(n) /\ o \in Pointer(n)
    BY <1>1
  <2>2. ~ (p = x /\ t = s) /\ ~ (p = x /\ t = -s)
    BY <1>1
  <2>3. c # x /\ o # x
    BY <1>1, <2>2, OnlyParent
  <2> QED BY <2>1, <2>3, <1>1
<1>3. /\ Level(h[c] - 1, h[o], h[x], b[x], s)
      /\ b[x] = EH => Level(h[c], h[o], h[x] + 1, b[x] + s, s) /\ b[x] + s # EH
      /\ b[x] # EH => Level(h[c], h[o], h[x], b[x] + s, s)
      /\ b[x] + s \in Factors
  <2>1. Level(h[c] - 1, h[o], h[x], b[x], s)
    BY DEF GrownAt
  <2> HIDE DEF c, o
  <2> QED BY <2>1, <1>2, Leans
<1>4. /\ HasHeights(n, h2) /\ h2[x] = l2 /\ \A y \in Pointer(n) : y # x => h2[y] = h[y]
  <2>1. l2 \in Nat
    BY <1>2
  <2> HIDE DEF l2
  <2> QED BY <2>1, <1>1 DEF HasHeights
<1>5. /\ b2 \in [0 .. n -> Factors] /\ b2[x] = b[x] + s /\ \A y \in 0 .. n : y # x => b2[y] = b[y]
  BY <1>3 DEF Leaned
<1> HIDE DEF h2
<1>6. LevelAt(k, b2, h2, x)
  <2>1. h2[c] = h[c] /\ h2[o] = h[o]
    BY <1>2, <1>4
  <2>2. Level(h2[c], h2[o], h2[x], b2[x], s)
    BY <1>3, <1>4, <1>5, <2>1
  <2>3. b2[x] \in Factors /\ k[x][LH] \in Pointer(n) /\ k[x][RH] \in Pointer(n)
    BY <1>1, <1>5, SideFacts
  <2> QED BY <2>2, <2>3, <1>4, LevelOnSide
<1>7. ASSUME NEW y \in 0 .. n, y # x, y # p \/ b[x] # EH
      PROVE  LevelAt(k, b2, h2, y)
  <2>1. ASSUME NEW u \in Sides
        PROVE  h2[k[y][u]] = h[k[y][u]]
    <3>1. y \in Fields(n) /\ k[y][u] \in Pointer(n)
      BY <1>1
    <3>2. CASE k[y][u] = x
      <4>1. y = p /\ u = t
        BY <3>1, <3>2, OnlyParent
      <4> QED BY <3>2, <4>1, <1>4, <1>7
    <3>3. CASE k[y][u] # x
      BY <3>1, <3>3, <1>4
    <3> QED BY <3>2, <3>3
  <2>2. k[y] \in [Sides -> Pointer(n)] /\ b[y] \in Factors /\ b2[y] = b[y] /\ h2[y] = h[y]
    BY <1>1, <1>4, <1>5, <1>7
  <2>3. LevelAt(k, b, h, y)
    BY <1>7
  <2> QED BY <2>1, <2>2, <2>3, <1>4, LevelKept
<1>8. ASSUME b[x] = EH, p # Root
      PROVE  GrownAt(k, b2, h2, p, t)
  <2>1. p \in 0 .. n
    BY <1>8 DEF Fields
  <2>2. LevelAt(k, b, h, p)
    BY <2>1, <1>1
  <2>3. k[p][LH] \in Pointer(n) /\ k[p][RH] \in Pointer(n) /\ b[p] \in Factors
    BY <2>1, <1>1, SideFacts
  <2>4. Level(h[x], h[k[p][-t]], h[p], b[p], t)
    BY <2>1, <2>2, <2>3, LevelOnSide
  <2>5. h2[x] - 1 = h[x] /\ b2[x] # EH
    BY <1>2, <1>3, <1>4, <1>5, <1>8
  <2>6. k[p][-t] \in Pointer(n) /\ k[p][-t] # x
    <3>1. ~ (p = p /\ -t = t)
      BY <1>1
    <3>2. k[p][-t] # k[p][t]
      BY <3>1, <1>1, OnlyParent
    <3> QED BY <3>2, <1>1
  <2>7. h2[k[p][-t]] = h[k[p][-t]] /\ h2[p] = h[p] /\ b2[p] = b[p]
    BY <2>1, <2>6, <1>1, <1>4, <1>5
  <2>8. Level(h2[k[p][t]] - 1, h2[k[p][-t]], h2[p], b2[p], t)
    BY <2>4, <2>5, <2>7
  <2> QED BY <2>5, <2>8, <1>1 DEF GrownAt
<1>9. LevelsBut(n, k, b2, b[x] = EH, p, t, h2)
  BY <1>4, <1>6, <1>7, <1>8 DEF LevelsBut
<1> QED BY <1>5, <1>9

\* What leftBalance and rightBalance make of a tree.
SingleKid(k, p, t, s) == Rotate(k, Field(p, t), s)
DoubleKid(k, p, t, x, s) == Rotate(Rotate(k, Field(x, s), -s), Field(p, t), s)

\* What the single and the double rotation do to the children of every node: x is the
\* root of the subtree, c its child on side s, and e the child of c on the other.
SingleTurn(k, k2, n, p, t, x, s, c) ==
  /\ k2 \in [Fields(n) -> [Sides -> Pointer(n)]]
  /\ k2[p][t] = c /\ k2[x][s] = k[c][-s] /\ k2[x][-s] = k[x][-s]
  /\ k2[c][-s] = x /\ k2[c][s] = k[c][s]
  /\ \A y \in Fields(n), u \in Sides :
       ~ (y = p /\ u = t) /\ y # x /\ y # c => k2[y][u] = k[y][u]
DoubleTurn(k, k2, n, p, t, x, s, c, e1) ==
  /\ k2 \in [Fields(n) -> [Sides -> Pointer(n)]]
  /\ k2[p][t] = e1 /\ k2[x][s] = k[e1][-s] /\ k2[x][-s] = k[x][-s]
  /\ k2[c][-s] = k[e1][s] /\ k2[c][s] = k[c][s] /\ k2[e1][-s] = x /\ k2[e1][s] = c
  /\ \A y \in Fields(n), u \in Sides :
       ~ (y = p /\ u = t) /\ y # x /\ y # c /\ y # e1 => k2[y][u] = k[y][u]

\* Both keep a search tree, and the nodes below every address but those that they turn.
Turns(n, d, B, k2, X) ==
  \E B2 : IsTree(k2, d, n, B2) /\ \A y \in Pointer(n) \ X : B2[y] = B[y]

LEMMA TurnedKeeps ==
  ASSUME NEW n \in Int, NEW k, NEW d, NEW B, IsTree(k, d, n, B), NEW x \in 0 .. n, NEW s, NEW c \in 0 .. n
  PROVE  \A y \in Pointer(n) \ {x, c} : Turned(k, B, x, s, c)[y] = B[y]
<1>1. B \in [Pointer(n) -> SUBSET (0 .. n)]
  BY DEF IsTree
<1> QED BY <1>1 DEF Turned

LEMMA SingleRotation ==
  ASSUME NEW n \in Int, NEW k, NEW d, NEW B, IsTree(k, d, n, B),
         NEW p \in Fields(n), NEW t \in Sides, NEW s \in Sides, NEW x \in 0 .. n, NEW c \in 0 .. n,
         k[p][t] = x, k[x][s] = c
  PROVE  /\ p # x /\ p # c /\ x # c
         /\ SingleTurn(k, Rotate(k, Field(p, t), s), n, p, t, x, s, c)
         /\ Turns(n, d, B, Rotate(k, Field(p, t), s), {x, c})
<1> DEFINE k2 == Rotate(k, Field(p, t), s)
<1>1. p # x /\ p # c /\ x # c /\ Rotates(k, k2, n, p, t, x, s, c)
  BY RotateIs
<1>2. x \in Fields(n) /\ c \in Fields(n) /\ s # -s /\ -s \in Sides
  BY NodeFacts, SideFacts
<1> HIDE DEF k2
<1>3. SingleTurn(k, k2, n, p, t, x, s, c)
  <2>1. /\ k2 \in [Fields(n) -> [Sides -> Pointer(n)]]
        /\ k2[p][t] = c /\ k2[x][s] = k[c][-s] /\ k2[c][-s] = x
        /\ \A y \in Fields(n), u \in Sides :
             ~ (y = p /\ u = t) /\ ~ (y = x /\ u = s) /\ ~ (y = c /\ u = -s) => k2[y][u] = k[y][u]
    BY <1>1 DEF Rotates
  <2>2. k2[x][-s] = k[x][-s] /\ k2[c][s] = k[c][s]
    BY <1>1, <1>2, <2>1
  <2> QED BY <2>1, <2>2 DEF SingleTurn
<1>4. IsTree(k2, d, n, Turned(k, B, x, s, c))
  BY <1>1, Rotation
<1>5. \A y \in Pointer(n) \ {x, c} : Turned(k, B, x, s, c)[y] = B[y]
  BY TurnedKeeps
<1> QED BY <1>1, <1>3, <1>4, <1>5 DEF Turns, k2

DoubleNodes(k, n, p, t, x, s, c, e1) ==
  /\ p \in Fields(n) /\ t \in Sides /\ s \in Sides /\ x \in 0 .. n /\ c \in 0 .. n /\ e1 \in 0 .. n
  /\ k[p][t] = x /\ k[x][s] = c /\ k[c][-s] = e1

LEMMA DoubleRotation ==
  ASSUME NEW n \in Int, NEW k, NEW d, NEW B, IsTree(k, d, n, B),
         NEW p, NEW t, NEW s, NEW x, NEW c, NEW e1, DoubleNodes(k, n, p, t, x, s, c, e1)
  PROVE  /\ p # x /\ p # c /\ p # e1 /\ x # c /\ x # e1 /\ c # e1
         /\ DoubleTurn(k, DoubleKid(k, p, t, x, s), n, p, t, x, s, c, e1)
         /\ Turns(n, d, B, DoubleKid(k, p, t, x, s), {x, c, e1})
<1> DEFINE o == -s
           k1 == Rotate(k, Field(x, s), o)
           k2 == Rotate(k1, Field(p, t), s)
           B1 == Turned(k, B, c, o, e1)
           B2 == Turned(k1, B1, x, s, e1)
<1>0. /\ p \in Fields(n) /\ t \in Sides /\ s \in Sides /\ x \in 0 .. n /\ c \in 0 .. n /\ e1 \in 0 .. n
      /\ k[p][t] = x /\ k[x][s] = c /\ k[c][-s] = e1
  BY DEF DoubleNodes
<1>1. /\ x \in Fields(n) /\ c \in Fields(n) /\ e1 \in Fields(n) /\ s # o /\ o \in Sides /\ -o = s
      /\ p # x
  BY <1>0, NodeFacts, SideFacts
<1> HIDE DEF o
<1>2. /\ x # c /\ x # e1 /\ c # e1 /\ Rotates(k, k1, n, x, s, c, o, e1) /\ k[c][o] = e1
  <2>1. k[c][o] = e1
    BY <1>0 DEF o
  <2> QED BY <1>0, <1>1, <2>1, RotateIs
<1> HIDE DEF k1
<1>3. IsTree(k1, d, n, B1)
  BY <1>0, <1>1, <1>2, Rotation
<1>4. /\ k1 \in [Fields(n) -> [Sides -> Pointer(n)]]
      /\ k1[x][s] = e1 /\ k1[c][o] = k[e1][s] /\ k1[e1][s] = c
      /\ \A y \in Fields(n), u \in Sides :
           ~ (y = x /\ u = s) /\ ~ (y = c /\ u = o) /\ ~ (y = e1 /\ u = s) => k1[y][u] = k[y][u]
  BY <1>0, <1>1, <1>2 DEF Rotates
<1>5. p # c /\ p # e1
  <2>1. e1 \in B[c] /\ c \in B[c] /\ B[c] \subseteq B[x] /\ p \notin B[x]
    BY <1>0, <1>1, <1>2, NodeFacts
  <2> QED BY <1>0, <2>1
<1>6. k1[p][t] = x
  BY <1>0, <1>1, <1>4, <1>5
<1>7. Rotates(k1, k2, n, p, t, x, s, e1)
  BY <1>0, <1>3, <1>4, <1>6, RotateIs
<1> HIDE DEF k2
<1>8. IsTree(k2, d, n, B2)
  BY <1>0, <1>1, <1>2, <1>3, <1>4, <1>5, <1>6, <1>7, Rotation
<1>9. \A y \in Pointer(n) \ {x, c, e1} : B2[y] = B[y]
  <2>1. /\ \A y \in Pointer(n) \ {c, e1} : B1[y] = B[y]
        /\ \A y \in Pointer(n) \ {x, e1} : B2[y] = B1[y]
    BY <1>0, <1>3, TurnedKeeps
  <2> HIDE DEF B1, B2
  <2> QED BY <1>0, <2>1
<1>10. DoubleTurn(k, k2, n, p, t, x, s, c, e1)
  <2>1. /\ k2 \in [Fields(n) -> [Sides -> Pointer(n)]]
        /\ k2[p][t] = e1 /\ k2[x][s] = k1[e1][o] /\ k2[e1][o] = x
        /\ \A y \in Fields(n), u \in Sides :
             ~ (y = p /\ u = t) /\ ~ (y = x /\ u = s) /\ ~ (y = e1 /\ u = o) => k2[y][u] = k1[y][u]
    BY <1>0, <1>7 DEF Rotates, o
  <2>2. k1[e1][o] = k[e1][o] /\ k2[x][o] = k1[x][o] /\ k1[x][o] = k[x][o]
    BY <1>0, <1>1, <1>2, <1>4, <1>5, <2>1
  <2>3. /\ k2[c][o] = k1[c][o] /\ k2[c][s] = k1[c][s] /\ k1[c][s] = k[c][s]
        /\ k2[e1][s] = k1[e1][s]
    BY <1>0, <1>1, <1>2, <1>4, <1>5, <2>1
  <2>4. \A y \in Fields(n), u \in Sides :
          ~ (y = p /\ u = t) /\ y # x /\ y # c /\ y # e1 => k2[y][u] = k[y][u]
    BY <1>0, <1>4, <2>1
  <2>5. /\ k2[p][t] = e1 /\ k2[x][s] = k[e1][o] /\ k2[x][o] = k[x][o]
        /\ k2[c][o] = k[e1][s] /\ k2[c][s] = k[c][s] /\ k2[e1][o] = x /\ k2[e1][s] = c
    BY <1>0, <1>4, <2>1, <2>2, <2>3
  <2> QED BY <1>0, <2>1, <2>4, <2>5 DEF DoubleTurn, o
<1>11. Turns(n, d, B, k2, {x, c, e1})
  <2> HIDE DEF B2
  <2> QED BY <1>0, <1>8, <1>9 DEF Turns
<1> QED BY <1>0, <1>1, <1>2, <1>5, <1>10, <1>11 DEF o, k1, k2, DoubleKid

\* All levels are right, with some heights.
AllLevels(n, k, b) == \E h : HasHeights(n, h) /\ \A y \in 0 .. n : LevelAt(k, b, h, y)

\* After a single rotation all levels are right.
SingleCase(k, b, p, t, x, s, c) ==
  /\ k[p][t] = x /\ k[x][s] = c /\ b[x] = s /\ b[c] = s
  /\ p # x /\ p # c /\ x # c

LEMMA SingleLevels ==
  ASSUME NEW n \in Int, NEW k, NEW d, NEW B, IsTree(k, d, n, B), NEW h, HasHeights(n, h),
         NEW b \in [0 .. n -> Factors], NEW x \in 0 .. n, NEW c \in 0 .. n,
         NEW s \in Sides, NEW r \in Sides, r # s,
         GrownAt(k, b, h, x, s), \A y \in 0 .. n : y # x => LevelAt(k, b, h, y),
         NEW p \in Fields(n), NEW t \in Sides, SingleCase(k, b, p, t, x, s, c),
         NEW k2, SingleTurn(k, k2, n, p, t, x, s, c), NEW b2, b2 = [b EXCEPT ![x] = EH, ![c] = EH]
  PROVE  /\ b2 \in [0 .. n -> Factors]
         /\ AllLevels(n, k2, b2)
<1> DEFINE a == k[c][s]
           g == k[c][r]
           o == k[x][r]
           h2 == [h EXCEPT ![x] = h[c] - 1]
<1> HIDE DEF a, g, o, h2
<1>0. r = -s
  BY SideFacts
<1>16. p # x /\ p # c /\ x # c
  BY DEF SingleCase
<1>17. b[x] = s /\ b[c] = s
  BY DEF SingleCase
<1>18. k[p][t] = x /\ k[x][s] = c
  BY DEF SingleCase
<1>1. /\ k \in [Fields(n) -> [Sides -> Pointer(n)]]
      /\ h \in [Pointer(n) -> Nat] /\ h[NULL] = 0
      /\ x # NULL /\ NULL \in Pointer(n)
      /\ \A y \in 0 .. n : y \in Fields(n) /\ y \in Pointer(n)
      /\ EH \in Factors
  <2>1. k \in [Fields(n) -> [Sides -> Pointer(n)]]
    BY DEF IsTree
  <2>2. NULL \in Pointer(n)
    BY DEF Pointer
  <2>4. h \in [Pointer(n) -> Nat] /\ h[NULL] = 0
    BY DEF HasHeights
  <2>6. \A y \in 0 .. n : y \in Fields(n) /\ y \in Pointer(n) /\ y # NULL
    BY NodeFacts
  <2>7. EH \in Factors
    BY DEF Factors
  <2> QED BY <2>1, <2>2, <2>4, <2>6, <2>7
<1>2. /\ k2 \in [Fields(n) -> [Sides -> Pointer(n)]]
      /\ k2[p][t] = c /\ k2[x][s] = g /\ k2[x][r] = o /\ k2[c][r] = x /\ k2[c][s] = a
      /\ \A y \in Fields(n), u \in Sides :
           ~ (y = p /\ u = t) /\ y # x /\ y # c => k2[y][u] = k[y][u]
  BY <1>0 DEF SingleTurn, a, g, o
<1>15. \A y \in Fields(n), u \in Sides : ~ (y = p /\ u = t) => k[y][u] # x
  BY <1>1, <1>18, OnlyParent
<1>3. /\ a \in Pointer(n) /\ g \in Pointer(n) /\ o \in Pointer(n) /\ a # x /\ g # x /\ o # x
  <2>1. a \in Pointer(n) /\ g \in Pointer(n) /\ o \in Pointer(n)
    BY <1>1 DEF a, g, o
  <2>3. a # x /\ g # x /\ o # x
    BY <1>1, <1>15, <1>16 DEF a, g, o
  <2> QED BY <2>1, <2>3
<1>4. /\ h[a] \in Nat /\ h[g] \in Nat /\ h[o] \in Nat /\ h[c] \in Nat /\ h[x] \in Nat
  BY <1>1, <1>3
<1>5. Level(h[c] - 1, h[o], h[x], s, s)
  BY <1>0, <1>18, <1>17 DEF GrownAt, o
<1>6. Level(h[a], h[g], h[c], s, s)
  <2>1. LevelAt(k, b, h, c) /\ k[c][LH] \in Pointer(n) /\ k[c][RH] \in Pointer(n) /\ b[c] \in Factors
    BY <1>1, <1>16, SideFacts
  <2> QED BY <1>0, <1>17, <2>1, LevelOnSide DEF a, g
<1>7. /\ h[x] = h[c] /\ h[c] - 1 \in Nat
      /\ Level(h[g], h[o], h[c] - 1, EH, s) /\ Level(h[a], h[c] - 1, h[c], EH, s)
  BY <1>4, <1>5, <1>6, Single
<1>8. HasHeights(n, h2) /\ h2[x] = h[c] - 1 /\ \A y \in Pointer(n) : y # x => h2[y] = h[y]
  BY <1>1, <1>7 DEF HasHeights, h2
<1>9. /\ b2 \in [0 .. n -> Factors] /\ b2[x] = EH /\ b2[c] = EH
      /\ \A y \in 0 .. n : y # x /\ y # c => b2[y] = b[y]
  BY <1>1, <1>16
<1>10. \A y \in 0 .. n : k2[y][LH] \in Pointer(n) /\ k2[y][RH] \in Pointer(n) /\ b2[y] \in Factors
  <2>1. \A y \in 0 .. n : k2[y] \in [Sides -> Pointer(n)]
    BY <1>1, <1>2
  <2>2. \A y \in 0 .. n : b2[y] \in Factors
    BY <1>9
  <2> QED BY <2>1, <2>2, SideFacts, SMTT(30)
<1>11. LevelAt(k2, b2, h2, x)
  <2>1. Level(h2[k2[x][s]], h2[k2[x][r]], h2[x], b2[x], s)
    BY <1>2, <1>3, <1>7, <1>8, <1>9
  <2> QED BY <2>1, <1>0, <1>8, <1>10, LevelOnSide
<1>12. LevelAt(k2, b2, h2, c)
  <2>1. Level(h2[k2[c][s]], h2[k2[c][r]], h2[c], b2[c], s)
    BY <1>1, <1>2, <1>3, <1>7, <1>8, <1>9, <1>16
  <2> QED BY <2>1, <1>0, <1>8, <1>10, LevelOnSide
<1>13. ASSUME NEW y \in 0 .. n, y # x, y # c
       PROVE  LevelAt(k2, b2, h2, y)
  <2>1. ASSUME NEW u \in Sides
        PROVE  h2[k2[y][u]] = h[k[y][u]]
    <3>1. y \in Fields(n) /\ k[y][u] \in Pointer(n)
      BY <1>1
    <3>2. CASE y = p /\ u = t
      <4>1. k2[y][u] = c /\ k[y][u] = x /\ c \in Pointer(n) /\ c # x
        BY <3>2, <1>1, <1>2, <1>16, <1>18
      <4>2. h2[c] = h[c]
        BY <4>1, <1>8
      <4> QED BY <4>1, <4>2, <1>7
    <3>3. CASE ~ (y = p /\ u = t)
      <4>1. k[y][u] # x
        BY <3>1, <3>3, <1>15
      <4>2. k2[y][u] = k[y][u]
        BY <3>1, <3>3, <1>2, <1>13
      <4> QED BY <3>1, <4>1, <4>2, <1>8
    <3> QED BY <3>2, <3>3
  <2>2. /\ k[y] \in [Sides -> Pointer(n)] /\ b[y] \in Factors /\ b2[y] = b[y] /\ h2[y] = h[y]
        /\ k2[y] \in [Sides -> Pointer(n)]
    BY <1>1, <1>2, <1>8, <1>9, <1>13
  <2>3. LevelAt(k, b, h, y)
    BY <1>13
  <2> QED BY <2>1, <2>2, <2>3, SideFacts DEF LevelAt
<1> QED BY <1>8, <1>9, <1>11, <1>12, <1>13 DEF AllLevels

\* And after a double one, with the factors that leftBalance and rightBalance set.
DoubleFactors(b, x, s, c, e1) ==
  [b EXCEPT ![x] = IF b[e1] = s THEN -s ELSE EH, ![c] = IF b[e1] = -s THEN s ELSE EH, ![e1] = EH]

DoubleCase(k, b, n, p, t, x, s, r, c, e1) ==
  /\ k[p][t] = x /\ k[x][s] = c /\ k[c][r] = e1 /\ b[x] = s /\ b[c] = r /\ r # s
  /\ p # x /\ p # c /\ p # e1 /\ x # c /\ x # e1 /\ c # e1

LEMMA DoubleLevels ==
  ASSUME NEW n \in Int, NEW k, NEW d, NEW B, IsTree(k, d, n, B), NEW h, HasHeights(n, h),
         NEW b \in [0 .. n -> Factors], NEW x \in 0 .. n, NEW s \in Sides, NEW r \in Sides,
         NEW c \in 0 .. n, NEW e1 \in 0 .. n,
         GrownAt(k, b, h, x, s), \A y \in 0 .. n : y # x => LevelAt(k, b, h, y),
         NEW p \in Fields(n), NEW t \in Sides, DoubleCase(k, b, n, p, t, x, s, r, c, e1),
         NEW k2, DoubleTurn(k, k2, n, p, t, x, s, c, e1),
         NEW b2, b2 = DoubleFactors(b, x, s, c, e1)
  PROVE  /\ b2 \in [0 .. n -> Factors]
         /\ AllLevels(n, k2, b2)
<1> DEFINE a == k[c][s]
           e2 == k[e1][s]
           e3 == k[e1][r]
           o == k[x][r]
           fx == IF b[e1] = s THEN r ELSE EH
           fc == IF b[e1] = r THEN s ELSE EH
           h2 == [h EXCEPT ![x] = h[c] - 1, ![c] = h[c] - 1, ![e1] = h[c]]
<1> HIDE DEF a, e2, e3, o, fx, fc, h2
<1>0. r = -s
  BY SideFacts DEF DoubleCase
<1>16. p # x /\ p # c /\ p # e1 /\ x # c /\ x # e1 /\ c # e1
  BY DEF DoubleCase
<1>17. r # s /\ b[x] = s /\ b[c] = r
  BY DEF DoubleCase
<1>18. k[p][t] = x /\ k[x][s] = c /\ k[c][r] = e1
  BY DEF DoubleCase
<1>1. /\ k \in [Fields(n) -> [Sides -> Pointer(n)]]
      /\ h \in [Pointer(n) -> Nat] /\ h[NULL] = 0
      /\ x # NULL /\ c # NULL /\ e1 # NULL /\ NULL \in Pointer(n)
      /\ \A y \in 0 .. n : y \in Fields(n) /\ y \in Pointer(n)
      /\ EH \in Factors /\ fx \in Factors /\ fc \in Factors
  <2>1. k \in [Fields(n) -> [Sides -> Pointer(n)]]
    BY DEF IsTree
  <2>2. NULL \in Pointer(n)
    BY DEF Pointer
  <2>4. h \in [Pointer(n) -> Nat] /\ h[NULL] = 0
    BY DEF HasHeights
  <2>6. \A y \in 0 .. n : y \in Fields(n) /\ y \in Pointer(n) /\ y # NULL
    BY NodeFacts
  <2>7. EH \in Factors /\ \A u \in Sides : u \in Factors
    BY DEF Factors, Sides
  <2>8. fx \in Factors /\ fc \in Factors
    BY <2>7 DEF fx, fc
  <2> QED BY <2>1, <2>2, <2>4, <2>6, <2>7, <2>8
<1>2. /\ k2 \in [Fields(n) -> [Sides -> Pointer(n)]]
      /\ k2[p][t] = e1 /\ k2[x][s] = e3 /\ k2[x][r] = o /\ k2[c][r] = e2 /\ k2[c][s] = a
      /\ k2[e1][r] = x /\ k2[e1][s] = c
      /\ \A y \in Fields(n), u \in Sides :
           ~ (y = p /\ u = t) /\ y # x /\ y # c /\ y # e1 => k2[y][u] = k[y][u]
  BY <1>0 DEF DoubleTurn, a, e2, e3, o
<1>15. /\ \A y \in Fields(n), u \in Sides : ~ (y = p /\ u = t) => k[y][u] # x
       /\ \A y \in Fields(n), u \in Sides : ~ (y = x /\ u = s) => k[y][u] # c
       /\ \A y \in Fields(n), u \in Sides : ~ (y = c /\ u = r) => k[y][u] # e1
  <2>1. \A y \in Fields(n), u \in Sides : ~ (y = p /\ u = t) => k[y][u] # x
    BY <1>1, <1>18, OnlyParent
  <2>2. \A y \in Fields(n), u \in Sides : ~ (y = x /\ u = s) => k[y][u] # c
    BY <1>1, <1>18, OnlyParent, ZenonT(60)
  <2>3. \A y \in Fields(n), u \in Sides : ~ (y = c /\ u = r) => k[y][u] # e1
    <3>1. k[c][r] \in 0 .. n /\ c \in Fields(n)
      BY <1>1, <1>18
    <3>2. \A y \in Fields(n), u \in Sides : ~ (y = c /\ u = r) => k[y][u] # k[c][r]
      BY <3>1, OnlyParent
    <3> QED BY <3>2, <1>18
  <2> QED BY <2>1, <2>2, <2>3
<1>3. /\ a \in Pointer(n) \ {x, c, e1} /\ e2 \in Pointer(n) \ {x, c, e1}
      /\ e3 \in Pointer(n) \ {x, c, e1} /\ o \in Pointer(n) \ {x, c, e1}
  <2>1. a \in Pointer(n) /\ e2 \in Pointer(n) /\ e3 \in Pointer(n) /\ o \in Pointer(n)
    BY <1>1 DEF a, e2, e3, o
  <2>3. a # x /\ e2 # x /\ e3 # x /\ o # x
    BY <1>1, <1>15, <1>16, <1>18, <1>17 DEF a, e2, e3, o
  <2>4. a # c /\ e2 # c /\ e3 # c /\ o # c
    BY <1>1, <1>15, <1>16, <1>18, <1>17 DEF a, e2, e3, o
  <2>5. a # e1 /\ e2 # e1 /\ e3 # e1 /\ o # e1
    BY <1>1, <1>15, <1>16, <1>18, <1>17 DEF a, e2, e3, o
  <2> QED BY <2>1, <2>3, <2>4, <2>5
<1>4. /\ h[a] \in Nat /\ h[e2] \in Nat /\ h[e3] \in Nat /\ h[o] \in Nat
      /\ h[c] \in Nat /\ h[x] \in Nat /\ h[e1] \in Nat
  BY <1>1, <1>3
<1>5. Level(h[c] - 1, h[o], h[x], s, s)
  BY <1>0, <1>18, <1>17 DEF GrownAt, o
<1>6. Level(h[a], h[e1], h[c], r, s) /\ Level(h[e2], h[e3], h[e1], b[e1], s)
  <2>1. /\ LevelAt(k, b, h, c) /\ k[c][LH] \in Pointer(n) /\ k[c][RH] \in Pointer(n) /\ b[c] \in Factors
        /\ LevelAt(k, b, h, e1) /\ k[e1][LH] \in Pointer(n) /\ k[e1][RH] \in Pointer(n) /\ b[e1] \in Factors
    BY <1>1, <1>16, SideFacts
  <2> QED BY <1>0, <1>18, <1>17, <2>1, LevelOnSide DEF a, e2, e3
<1>7. /\ h[x] = h[c] /\ h[c] - 1 \in Nat
      /\ Level(h[e3], h[o], h[c] - 1, fx, s) /\ Level(h[a], h[e2], h[c] - 1, fc, s)
      /\ Level(h[c] - 1, h[c] - 1, h[c], EH, s)
  <2>1. b[e1] \in Factors /\ fx = (IF b[e1] = s THEN r ELSE EH) /\ fc = (IF b[e1] = r THEN s ELSE EH)
    BY DEF fx, fc
  <2> DEFINE i == h[c]
             j == h[o]
             l == h[x]
             u == h[a]
             v == h[e1]
             w == h[e2]
             z == h[e3]
             f == b[e1]
  <2>2. /\ i \in Nat /\ j \in Nat /\ l \in Nat /\ u \in Nat /\ v \in Nat /\ w \in Nat /\ z \in Nat
        /\ f \in Factors /\ fx = (IF f = s THEN r ELSE EH) /\ fc = (IF f = r THEN s ELSE EH) /\ r # s
        /\ Level(i - 1, j, l, s, s) /\ Level(u, v, i, r, s) /\ Level(w, z, v, f, s)
    BY <2>1, <1>4, <1>5, <1>6, <1>17
  <2> HIDE DEF i, j, l, u, v, w, z, f
  <2>3. /\ l = i /\ i - 1 \in Nat /\ Level(z, j, i - 1, fx, s) /\ Level(u, w, i - 1, fc, s)
        /\ Level(i - 1, i - 1, i, EH, s)
    <3>1. CASE s = 1
      BY <2>2, <3>1, <1>0, Numbers DEF Level, Higher, Factors
    <3>2. CASE s = -1
      BY <2>2, <3>2, <1>0, Numbers DEF Level, Higher, Factors
    <3> QED BY <3>1, <3>2, Numbers
  <2> QED BY <2>3 DEF i, j, l, u, v, w, z, f
<1>8. /\ HasHeights(n, h2) /\ h2[x] = h[c] - 1 /\ h2[c] = h[c] - 1 /\ h2[e1] = h[c]
      /\ \A y \in Pointer(n) \ {x, c, e1} : h2[y] = h[y]
  <2> DEFINE i == h[c] - 1
             j == h[c]
  <2>1. i \in Nat /\ j \in Nat
    BY <1>4, <1>7
  <2>2. h2 = [h EXCEPT ![x] = i, ![c] = i, ![e1] = j]
    BY DEF h2
  <2> HIDE DEF i, j
  <2>3. /\ h2 \in [Pointer(n) -> Nat] /\ h2[NULL] = 0 /\ h2[x] = i /\ h2[c] = i /\ h2[e1] = j
        /\ \A y \in Pointer(n) \ {x, c, e1} : h2[y] = h[y]
    BY <2>1, <2>2, <1>1, <1>16
  <2> QED BY <2>3 DEF HasHeights, i, j
<1>9. /\ b2 \in [0 .. n -> Factors] /\ b2[x] = fx /\ b2[c] = fc /\ b2[e1] = EH
      /\ \A y \in 0 .. n : y # x /\ y # c /\ y # e1 => b2[y] = b[y]
  <2>1. b2 = [b EXCEPT ![x] = fx, ![c] = fc, ![e1] = EH]
    BY <1>0 DEF DoubleFactors, fx, fc
  <2> QED BY <2>1, <1>1, <1>16
<1>10. \A y \in 0 .. n : k2[y][LH] \in Pointer(n) /\ k2[y][RH] \in Pointer(n) /\ b2[y] \in Factors
  <2>1. \A y \in 0 .. n : k2[y] \in [Sides -> Pointer(n)]
    BY <1>1, <1>2
  <2>2. \A y \in 0 .. n : b2[y] \in Factors
    BY <1>9
  <2> QED BY <2>1, <2>2, SideFacts
<1>11. LevelAt(k2, b2, h2, x)
  <2>1. Level(h2[k2[x][s]], h2[k2[x][r]], h2[x], b2[x], s)
    BY <1>2, <1>3, <1>7, <1>8, <1>9
  <2> QED BY <2>1, <1>8, <1>10, LevelOnSide, <1>0
<1>12. LevelAt(k2, b2, h2, c)
  <2>1. Level(h2[k2[c][s]], h2[k2[c][r]], h2[c], b2[c], s)
    BY <1>2, <1>3, <1>7, <1>8, <1>9
  <2> QED BY <2>1, <1>8, <1>10, LevelOnSide, <1>0
<1>14. LevelAt(k2, b2, h2, e1)
  <2>1. Level(h2[k2[e1][s]], h2[k2[e1][r]], h2[e1], b2[e1], s)
    BY <1>2, <1>7, <1>8, <1>9
  <2>2. HasHeights(n, h2)
    BY <1>8
  <2> QED BY <2>1, <2>2, <1>10, LevelOnSide, <1>0
<1>13. ASSUME NEW y \in 0 .. n, y # x, y # c, y # e1
       PROVE  LevelAt(k2, b2, h2, y)
  <2>1. ASSUME NEW u \in Sides
        PROVE  h2[k2[y][u]] = h[k[y][u]]
    <3>1. y \in Fields(n) /\ k[y][u] \in Pointer(n)
      BY <1>1
    <3>2. CASE y = p /\ u = t
      BY <3>2, <1>1, <1>2, <1>7, <1>8, <1>18
    <3>3. CASE ~ (y = p /\ u = t)
      <4>1. k[y][u] # x /\ k[y][u] # c /\ k[y][u] # e1
        BY <3>1, <3>3, <1>13, <1>15
      <4>4. k2[y][u] = k[y][u]
        BY <3>1, <3>3, <1>2, <1>13
      <4> QED BY <3>1, <4>1, <4>4, <1>8
    <3> QED BY <3>2, <3>3
  <2>2. /\ k[y] \in [Sides -> Pointer(n)] /\ b[y] \in Factors /\ b2[y] = b[y] /\ h2[y] = h[y]
        /\ k2[y] \in [Sides -> Pointer(n)]
    BY <1>1, <1>2, <1>8, <1>9, <1>13
  <2>3. LevelAt(k, b, h, y)
    BY <1>13
  <2> QED BY <2>1, <2>2, <2>3, SideFacts DEF LevelAt
<1> QED BY <1>8, <1>9, <1>11, <1>12, <1>13, <1>14 DEF AllLevels

----------------------------------------------------------------------------
(* The recursive function Tree: its equation has a solution.               *)

\* The first n values of the iterates of G from a.
Iterates(g, n, X, G, a) ==
  /\ g \in [0 .. n -> X] /\ g[0] = a
  /\ \A i \in 1 .. n : g[i] = G[g[i - 1]]

LEMMA IteratesExist ==
  ASSUME NEW X, NEW G \in [X -> X], NEW a \in X, NEW n \in Nat
  PROVE  \E g : Iterates(g, n, X, G, a)
<1> DEFINE Upto(m) == \E g : Iterates(g, m, X, G, a)
           T == {m \in Nat : ~ Upto(m)}
<1>1. Upto(0)
  <2>1. Iterates([i \in 0 .. 0 |-> a], 0, X, G, a)
    BY DEF Iterates
  <2> QED BY <2>1
<1>2. ASSUME NEW m \in Nat, m # 0, Upto(m - 1)
      PROVE  Upto(m)
  <2>1. PICK g : Iterates(g, m - 1, X, G, a)
    BY <1>2
  <2> DEFINE f == [i \in 0 .. m |-> IF i = m THEN G[g[m - 1]] ELSE g[i]]
  <2>2. m - 1 \in 0 .. m - 1 /\ m \in 0 .. m /\ 0 \in 0 .. m - 1 /\ 0 \in 0 .. m
    BY <1>2
  <2>3. g \in [0 .. m - 1 -> X] /\ g[0] = a /\ \A i \in 1 .. m - 1 : g[i] = G[g[i - 1]]
    BY <2>1 DEF Iterates
  <2>4. G[g[m - 1]] \in X
    BY <2>2, <2>3
  <2>5. \A i \in 0 .. m : i # m => i \in 0 .. m - 1
    BY <1>2
  <2>6. f \in [0 .. m -> X] /\ f[0] = a
    BY <1>2, <2>2, <2>3, <2>4, <2>5
  <2>7. ASSUME NEW i \in 1 .. m
        PROVE  f[i] = G[f[i - 1]]
    <3>1. i - 1 \in 0 .. m /\ i - 1 # m /\ i \in 0 .. m
      BY <1>2
    <3>2. f[i - 1] = g[i - 1]
      BY <3>1
    <3>3. CASE i = m
      BY <3>1, <3>2, <3>3
    <3>4. CASE i # m
      <4>1. i \in 1 .. m - 1
        BY <3>4, <1>2
      <4>2. f[i] = g[i] /\ g[i] = G[g[i - 1]]
        BY <3>1, <3>4, <4>1, <2>3
      <4> QED BY <3>2, <4>2
    <3> QED BY <3>3, <3>4
  <2> HIDE DEF f
  <2>8. Iterates(f, m, X, G, a)
    BY <2>6, <2>7 DEF Iterates
  <2> QED BY <2>8
<1> HIDE DEF Upto
<1>3. ASSUME T # {} PROVE FALSE
  <2>1. PICK m \in T : \A i \in T : m <= i
    <3>1. T \subseteq Nat
      OBVIOUS
    <3> HIDE DEF T
    <3> QED BY <1>3, <3>1, LeastNatural
  <2>2. m \in Nat /\ ~ Upto(m)
    OBVIOUS
  <2>3. m # 0
    BY <2>2, <1>1
  <2>4. m - 1 \in Nat /\ ~ m <= m - 1
    BY <2>2, <2>3
  <2>5. Upto(m - 1)
    BY <2>1, <2>4
  <2> QED BY <2>2, <2>3, <2>5, <1>2
<1>4. Upto(n)
  BY <1>3
<1> QED BY <1>4 DEF Upto

LEMMA IteratesAgree ==
  ASSUME NEW X, NEW G \in [X -> X], NEW a \in X, NEW n \in Nat, NEW m \in Nat, NEW g, NEW f,
         Iterates(g, n, X, G, a), Iterates(f, m, X, G, a), NEW j \in Nat, j <= n, j <= m
  PROVE  g[j] = f[j]
<1> DEFINE T == {i \in Nat : i <= n /\ i <= m /\ g[i] # f[i]}
<1>1. /\ g[0] = a /\ \A i \in 1 .. n : g[i] = G[g[i - 1]]
      /\ f[0] = a /\ \A i \in 1 .. m : f[i] = G[f[i - 1]]
  BY DEF Iterates
<1>2. ASSUME T # {} PROVE FALSE
  <2>1. PICK i \in T : \A l \in T : i <= l
    <3>1. T \subseteq Nat
      OBVIOUS
    <3> HIDE DEF T
    <3> QED BY <1>2, <3>1, LeastNatural
  <2>2. i \in Nat /\ i <= n /\ i <= m /\ g[i] # f[i]
    OBVIOUS
  <2>3. i # 0
    BY <2>2, <1>1
  <2>4. i - 1 \in Nat /\ i - 1 <= n /\ i - 1 <= m /\ ~ i <= i - 1 /\ i \in 1 .. n /\ i \in 1 .. m
    BY <2>2, <2>3
  <2>5. g[i - 1] = f[i - 1]
    BY <2>1, <2>4
  <2> QED BY <2>2, <2>4, <2>5, <1>1
<1> QED BY <1>2

Iterated(f, X, G, a) ==
  f \in [Nat -> X] /\ f[0] = a /\ \A n \in Nat : f[n + 1] = G[f[n]]
LEMMA Iteration ==
  ASSUME NEW X, NEW G \in [X -> X], NEW a \in X
  PROVE  \E f : Iterated(f, X, G, a)
<1> DEFINE Upto(n) == CHOOSE g : Iterates(g, n, X, G, a)
           f == [n \in Nat |-> Upto(n)[n]]
<1>1. \A n \in Nat : Iterates(Upto(n), n, X, G, a)
  BY IteratesExist
<1> HIDE DEF Upto
<1>2. ASSUME NEW n \in Nat
      PROVE  Upto(n)[n] \in X /\ Upto(n + 1)[n + 1] = G[Upto(n)[n]]
  <2>1. n + 1 \in Nat /\ n + 1 \in 1 .. n + 1 /\ n + 1 - 1 = n /\ n <= n + 1 /\ n <= n /\ n \in 0 .. n
    OBVIOUS
  <2>2. Iterates(Upto(n), n, X, G, a) /\ Iterates(Upto(n + 1), n + 1, X, G, a)
    BY <1>1, <2>1
  <2>3. Upto(n + 1)[n] = Upto(n)[n]
    BY <2>1, <2>2, IteratesAgree
  <2>4. Upto(n + 1)[n + 1] = G[Upto(n + 1)[n]]
    BY <2>1, <2>2 DEF Iterates
  <2>5. Upto(n)[n] \in X
    BY <2>1, <2>2 DEF Iterates
  <2> QED BY <2>3, <2>4, <2>5
<1>3. Upto(0)[0] = a
  BY <1>1 DEF Iterates
<1>4. f \in [Nat -> X] /\ f[0] = a /\ \A n \in Nat : f[n + 1] = G[f[n]]
  BY <1>2, <1>3
<1> HIDE DEF f
<1> QED BY <1>4 DEF Iterated

\* A level more of the trees: what is above the trees t of the children.
Leaf == [height |-> 0, nodes |-> {}]
Above(x, l, r) ==
  [height |-> 1 + (IF l.height > r.height THEN l.height ELSE r.height),
   nodes |-> {x} \cup l.nodes \cup r.nodes]
OneMore(t) ==
  [x \in {NULL} \cup Address |-> IF x = NULL THEN Leaf ELSE Above(x, t[kid[x][LH]], t[kid[x][RH]])]

LEMMA TreeEquation ==
  ASSUME symCur \in Int, kid \in [Fields(symCur) -> [Sides -> Pointer(symCur)]]
  PROVE  /\ \A x \in Pointer(symCur) : Tree[0][x] = Leaf
         /\ \A n \in Nat : Tree[n + 1] = OneMore(Tree[n])
<1> DEFINE P == {NULL} \cup Address
           R == [height : Nat, nodes : SUBSET Address]
           X == [P -> R]
           G == [t \in X |-> OneMore(t)]
           a == [x \in P |-> Leaf]
           Body(f, n) == [x \in P |-> IF n = 0 \/ x = NULL THEN Leaf
                                      ELSE Above(x, f[n - 1][kid[x][LH]], f[n - 1][kid[x][RH]])]
<1>1. P = Pointer(symCur) /\ Leaf \in R
  BY DEF Pointer, Address, Leaf
<1>2. \A x \in P : x # NULL => kid[x][LH] \in P /\ kid[x][RH] \in P
  <2>1. \A x \in P : x # NULL => x \in Fields(symCur)
    BY DEF Fields, Address
  <2> HIDE DEF P
  <2> QED BY <2>1, <1>1, SideFacts
<1>3. ASSUME NEW x \in Address, NEW l \in R, NEW r \in R
      PROVE  Above(x, l, r) \in R
  <2>1. l.height \in Nat /\ r.height \in Nat /\ l.nodes \subseteq Address /\ r.nodes \subseteq Address
    OBVIOUS
  <2>2. 1 + (IF l.height > r.height THEN l.height ELSE r.height) \in Nat
    BY <2>1
  <2> QED BY <2>1, <2>2 DEF Above
<1>4. ASSUME NEW t \in X
      PROVE  OneMore(t) \in X
  <2>1. ASSUME NEW x \in P
        PROVE  (IF x = NULL THEN Leaf ELSE Above(x, t[kid[x][LH]], t[kid[x][RH]])) \in R
    <3>1. x # NULL => x \in Address /\ t[kid[x][LH]] \in R /\ t[kid[x][RH]] \in R
      <4>1. x # NULL => x \in Address
        OBVIOUS
      <4> HIDE DEF P, R
      <4> QED BY <4>1, <1>2
    <3> HIDE DEF P, R
    <3> QED BY <3>1, <1>1, <1>3
  <2> HIDE DEF R
  <2> QED BY <2>1 DEF OneMore
<1>5. G \in [X -> X] /\ a \in X
  <2> HIDE DEF P, R
  <2> QED BY <1>1, <1>4
<1>6. PICK f \in [Nat -> X] : f[0] = a /\ \A n \in Nat : f[n + 1] = G[f[n]]
  <2> HIDE DEF X, G, a
  <2>1. \E g : Iterated(g, X, G, a)
    BY <1>5, Iteration
  <2> QED BY <2>1 DEF Iterated
<1>7. ASSUME NEW n \in Nat
      PROVE  f[n] = Body(f, n)
  <2>1. CASE n = 0
    BY <2>1, <1>6
  <2>2. CASE n # 0
    <3>1. n - 1 \in Nat /\ n - 1 + 1 = n
      BY <2>2
    <3>2. f[n] = OneMore(f[n - 1])
      <4>1. f[n] = G[f[n - 1]] /\ f[n - 1] \in X
        BY <3>1, <1>6
      <4> HIDE DEF X
      <4> QED BY <4>1
    <3> QED BY <2>2, <3>2 DEF OneMore
  <2> QED BY <2>1, <2>2
<1>8. f = [n \in Nat |-> Body(f, n)]
  <2> HIDE DEF Body, X
  <2> QED BY <1>6, <1>7
<1>9. Tree = CHOOSE g : g = [n \in Nat |-> Body(g, n)]
  BY DEF Tree, Leaf, Above
<1>10. Tree = [n \in Nat |-> Body(Tree, n)]
  <2> HIDE DEF Body
  <2> QED BY <1>8, <1>9
<1>11. \A n \in Nat : Tree[n] = Body(Tree, n)
  <2> HIDE DEF Body
  <2> QED BY <1>10
<1>12. ASSUME NEW n \in Nat
       PROVE  Tree[n + 1] = OneMore(Tree[n])
  <2>1. n + 1 \in Nat /\ n + 1 # 0 /\ n + 1 - 1 = n
    OBVIOUS
  <2>2. Tree[n + 1] = Body(Tree, n + 1)
    BY <2>1, <1>11
  <2>3. Body(Tree, n + 1) = OneMore(Tree[n])
    BY <2>1 DEF OneMore
  <2> QED BY <2>2, <2>3
<1>13. \A x \in P : Tree[0][x] = Leaf
  <2>1. Tree[0] = Body(Tree, 0)
    <3> HIDE DEF Body
    <3> QED BY <1>11
  <2> HIDE DEF P
  <2> QED BY <2>1
<1> HIDE DEF P
<1> QED BY <1>1, <1>12, <1>13

\* The trees are those of the invariant, when they may be as deep as they have nodes.
LEMMA TreeIs ==
  ASSUME symCur \in Int, symCur >= -1, NEW B, IsTree(kid, data, symCur, B), NEW h, HasHeights(symCur, h),
         NEW x \in Pointer(symCur)
  PROVE  /\ Nodes(x) = B[x]
         /\ (\A y \in Address : h[y] = 1 + Higher(h[kid[y][LH]], h[kid[y][RH]])) => Height(x) = h[x]
<1> DEFINE N == symCur + 1
           P == Pointer(symCur)
           C(y) == Cardinality(B[y])
           Levels == \A y \in Address : h[y] = 1 + Higher(h[kid[y][LH]], h[kid[y][RH]])
           Right(d, y) == Tree[d][y].nodes = B[y] /\ (Levels => Tree[d][y].height = h[y])
           T == {d \in Nat : \E y \in P : C(y) <= d /\ ~ Right(d, y)}
<1>1. /\ kid \in [Fields(symCur) -> [Sides -> P]] /\ B \in [P -> SUBSET (0 .. symCur)] /\ B[NULL] = {}
      /\ \A y \in Address : B[y] = {y} \cup B[kid[y][LH]] \cup B[kid[y][RH]]
      /\ h \in [P -> Nat] /\ h[NULL] = 0 /\ NULL \in P /\ Address = 0 .. symCur
  <2>1. kid \in [Fields(symCur) -> [Sides -> P]] /\ B \in [P -> SUBSET (0 .. symCur)] /\ B[NULL] = {}
    BY DEF IsTree
  <2>2. \A y \in Address : B[y] = {y} \cup B[kid[y][LH]] \cup B[kid[y][RH]]
    BY DEF IsTree, Address
  <2>3. h \in [P -> Nat] /\ h[NULL] = 0
    BY DEF HasHeights
  <2>4. NULL \in P /\ Address = 0 .. symCur
    BY DEF Pointer, Address
  <2> QED BY <2>1, <2>2, <2>3, <2>4
<1>2. \A y \in P : IsFiniteSet(B[y]) /\ C(y) \in Nat /\ C(y) <= N
  <2>1. IsFiniteSet(0 .. symCur) /\ Cardinality(0 .. symCur) = N
    BY FS_Interval
  <2>2. ASSUME NEW y \in P
        PROVE  IsFiniteSet(B[y]) /\ C(y) \in Nat /\ C(y) <= N
    <3>1. B[y] \subseteq 0 .. symCur
      BY <1>1
    <3>2. IsFiniteSet(B[y]) /\ C(y) <= N
      BY <2>1, <3>1, FS_Subset
    <3> QED BY <3>2, FS_CardinalityType
  <2> QED BY <2>2
<1>3. ASSUME NEW y \in Address, NEW s \in Sides
      PROVE  kid[y][s] \in P /\ C(kid[y][s]) < C(y)
  <2>1. kid[y][s] \in P /\ y \in P
    BY <1>1, NodeFacts
  <2>2. B[kid[y][s]] \subseteq B[y] /\ y \in B[y] /\ y \notin B[kid[y][s]]
    BY <1>1, NodeFacts
  <2>3. B[kid[y][s]] # B[y]
    BY <2>2
  <2>4. IsFiniteSet(B[y]) /\ C(kid[y][s]) \in Nat /\ C(y) \in Nat
    BY <2>1, <1>2
  <2>5. C(kid[y][s]) <= C(y) /\ (C(kid[y][s]) = C(y) => B[kid[y][s]] = B[y])
    BY <2>2, <2>4, FS_Subset
  <2> QED BY <2>1, <2>3, <2>4, <2>5
<1>4. \A y \in P : y = NULL \/ y \in Address
  BY DEF Pointer, Address
<1>5. \A d \in Nat : Right(d, NULL)
  <2>1. ASSUME NEW d \in Nat
        PROVE  Tree[d][NULL] = Leaf
    <3>1. CASE d = 0
      BY <3>1, <1>1, TreeEquation
    <3>2. CASE d # 0
      <4>1. d - 1 \in Nat /\ d - 1 + 1 = d
        BY <3>2
      <4>2. Tree[d] = OneMore(Tree[d - 1])
        BY <4>1, <1>1, TreeEquation
      <4> QED BY <4>2 DEF OneMore
    <3> QED BY <3>1, <3>2
  <2> QED BY <2>1, <1>1 DEF Leaf
<1>6. ASSUME NEW d \in Nat, d # 0, \A y \in P : C(y) <= d - 1 => Right(d - 1, y), NEW y \in Address, C(y) <= d
      PROVE  Right(d, y)
  <2> DEFINE l == kid[y][LH]
             r == kid[y][RH]
  <2>1. d - 1 \in Nat /\ d - 1 + 1 = d
    BY <1>6
  <2>2. Tree[d] = OneMore(Tree[d - 1])
    BY <2>1, <1>1, TreeEquation
  <2>3. Tree[d][y] = Above(y, Tree[d - 1][l], Tree[d - 1][r])
    <3>1. y # NULL
      BY SideFacts DEF Address
    <3> QED BY <2>2, <3>1 DEF OneMore
  <2>4. l \in P /\ r \in P /\ C(l) < C(y) /\ C(r) < C(y)
    BY <1>3, SideFacts
  <2>5. C(l) <= d - 1 /\ C(r) <= d - 1
    <3>1. C(l) \in Nat /\ C(r) \in Nat /\ C(y) \in Nat
      BY <2>4, <1>1, <1>2 DEF Pointer
    <3> HIDE DEF C
    <3> QED BY <3>1, <2>4, <1>6
  <2>6. Right(d - 1, l) /\ Right(d - 1, r)
    BY <2>4, <2>5, <1>6
  <2>7. Tree[d][y].nodes = {y} \cup B[l] \cup B[r]
    BY <2>3, <2>6 DEF Above
  <2>8. Levels => Tree[d][y].height = 1 + Higher(h[l], h[r])
    BY <2>3, <2>6 DEF Above, Higher
  <2> QED BY <2>7, <2>8, <1>1
<1>7. ASSUME T # {} PROVE FALSE
  <2>1. PICK d \in T : \A i \in T : d <= i
    <3>1. T \subseteq Nat
      OBVIOUS
    <3> HIDE DEF T
    <3> QED BY <1>7, <3>1, LeastNatural
  <2>2. PICK y \in P : d \in Nat /\ C(y) <= d /\ ~ Right(d, y)
    OBVIOUS
  <2> HIDE DEF Right
  <2>3. y \in Address
    BY <2>2, <1>4, <1>5
  <2>4. d # 0
    <3>1. C(y) \in Nat /\ C(kid[y][LH]) \in Nat /\ C(kid[y][LH]) < C(y)
      BY <2>3, <2>2, <1>2, <1>3, SideFacts
    <3> HIDE DEF C
    <3> QED BY <3>1, <2>2
  <2>5. d - 1 \in Nat /\ ~ d <= d - 1
    BY <2>2, <2>4
  <2>6. \A z \in P : C(z) <= d - 1 => Right(d - 1, z)
    BY <2>1, <2>5
  <2> QED BY <2>2, <2>3, <2>4, <2>6, <1>6
<1>8. N \in Nat /\ C(x) <= N
  BY <1>2
<1>9. Right(N, x)
  <2> HIDE DEF Right
  <2> QED BY <1>7, <1>8
<1> QED BY <1>9 DEF Nodes, Height

\* The heights after a new node: its parent has grown.
LEMMA AddedLevels ==
  ASSUME NEW n \in Int, n >= -1, NEW k, NEW d, NEW B, IsTree(k, d, n, B), NEW h, HasHeights(n, h),
         NEW b \in [0 .. n -> Factors], \A y \in 0 .. n : LevelAt(k, b, h, y),
         NEW q, q[Len(q)].of \in Fields(n), q[Len(q)].side \in Sides,
         k[q[Len(q)].of][q[Len(q)].side] = NULL,
         NEW a, NEW m, NEW k2, NEW d2, Adds(n, k, d, q, a, m, k2, d2),
         NEW b2 \in [0 .. m -> Factors], b2[m] = EH, \A y \in 0 .. n : b2[y] = b[y]
  PROVE  \E h2 :
           /\ HasHeights(m, h2)
           /\ \A y \in 0 .. m : y = q[Len(q)].of \/ LevelAt(k2, b2, h2, y)
           /\ q[Len(q)].of # Root => GrownAt(k2, b2, h2, q[Len(q)].of, q[Len(q)].side)
<1> DEFINE p == q[Len(q)].of
           t == q[Len(q)].side
           h2 == [z \in Pointer(m) |-> IF z = m THEN 1 ELSE h[z]]
<1>1. /\ m = n + 1 /\ m \in Nat /\ m \notin 0 .. n /\ \A x \in 0 .. m : x = m \/ x \in 0 .. n
      /\ k2 \in [Fields(m) -> [Sides -> Pointer(m)]]
      /\ k2[p][t] = m /\ \A u \in Sides : k2[m][u] = NULL
      /\ \A y \in Fields(n), u \in Sides : ~ (y = p /\ u = t) => k2[y][u] = k[y][u]
  BY DEF Adds
<1>2. p \in Fields(n) /\ t \in Sides /\ k[p][t] = NULL
  OBVIOUS
<1> HIDE DEF p, t
<1>3. /\ h \in [Pointer(n) -> Nat] /\ h[NULL] = 0 /\ NULL \in Pointer(n) /\ NULL # m
      /\ Pointer(m) = Pointer(n) \cup {m} /\ m \notin Pointer(n)
      /\ k \in [Fields(n) -> [Sides -> Pointer(n)]]
      /\ \A y \in 0 .. n : y \in Fields(n) /\ y \in Pointer(n)
  <2>1. 0 .. m = (0 .. n) \cup {m} /\ m # NULL
    BY <1>1 DEF NULL
  <2>2. h \in [Pointer(n) -> Nat] /\ h[NULL] = 0
    BY DEF HasHeights
  <2>3. k \in [Fields(n) -> [Sides -> Pointer(n)]]
    BY DEF IsTree
  <2>4. \A y \in 0 .. n : y \in Fields(n) /\ y \in Pointer(n)
    BY NodeFacts
  <2> QED BY <2>1, <2>2, <2>3, <2>4, <1>1 DEF Pointer
<1>4. HasHeights(m, h2) /\ h2[m] = 1 /\ \A y \in Pointer(n) : h2[y] = h[y]
  <2>1. \A z \in Pointer(m) : (IF z = m THEN 1 ELSE h[z]) \in Nat
    BY <1>3
  <2>2. h2 \in [Pointer(m) -> Nat]
    BY <2>1
  <2>3. h2[m] = 1 /\ \A y \in Pointer(n) : h2[y] = h[y]
    BY <1>3
  <2> HIDE DEF h2
  <2> QED BY <2>2, <2>3, <1>3 DEF HasHeights
<1> HIDE DEF h2
<1>5. LevelAt(k2, b2, h2, m)
  <2>1. k2[m][LH] = NULL /\ k2[m][RH] = NULL /\ h2[NULL] = 0
    BY <1>1, <1>3, <1>4, SideFacts
  <2> QED BY <2>1, <1>4 DEF LevelAt, Level, Higher, EH
<1>6. ASSUME NEW y \in 0 .. n, y # p
      PROVE  LevelAt(k2, b2, h2, y)
  <2>1. ASSUME NEW u \in Sides
        PROVE  h2[k2[y][u]] = h[k[y][u]]
    <3>1. y \in Fields(n) /\ k[y][u] \in Pointer(n)
      BY <1>3
    <3>2. k2[y][u] = k[y][u]
      BY <3>1, <1>1, <1>6
    <3> QED BY <3>1, <3>2, <1>4
  <2>2. b2[y] = b[y] /\ h2[y] = h[y]
    BY <1>3, <1>4
  <2>3. LevelAt(k, b, h, y)
    OBVIOUS
  <2> QED BY <2>1, <2>2, <2>3, SideFacts DEF LevelAt
<1>7. ASSUME p # Root
      PROVE  GrownAt(k2, b2, h2, p, t)
  <2>1. p \in 0 .. n
    BY <1>2, <1>7 DEF Fields
  <2>2. LevelAt(k, b, h, p) /\ b[p] \in Factors /\ b2[p] = b[p] /\ h2[p] = h[p]
    BY <2>1, <1>3, <1>4
  <2>3. k[p][LH] \in Pointer(n) /\ k[p][RH] \in Pointer(n) /\ -t \in Sides /\ -t # t
    BY <2>1, <1>2, <1>3, SideFacts
  <2>4. Level(h[k[p][t]], h[k[p][-t]], h[p], b[p], t)
    BY <2>1, <2>2, <2>3, <1>2, LevelOnSide
  <2>5. h2[k2[p][-t]] = h[k[p][-t]]
    BY <2>3, <1>1, <1>2, <1>3, <1>4
  <2>6. h[k[p][t]] = 0 /\ h2[k2[p][t]] - 1 = 0 /\ h2[k2[p][t]] = 1 /\ k2[p][t] # NULL
    BY <1>1, <1>2, <1>3, <1>4
  <2>7. Level(h2[k2[p][t]] - 1, h2[k2[p][-t]], h2[p], b2[p], t)
    BY <2>2, <2>4, <2>5, <2>6
  <2> QED BY <2>6, <2>7 DEF GrownAt
<1> QED BY <1>1, <1>4, <1>5, <1>6, <1>7 DEF p, t

----------------------------------------------------------------------------
(* The invariant.                                                          *)

\* The calls look for the name where it is, or return from where it is now.
TreeInv(k, d, n, q, a, w, B) ==
  /\ IsTree(k, d, n, B) /\ IsPath(k, d, n, B, q, a)
  /\ w = "insert" => q # <<>> /\ \A y \in 0 .. n : d[y] = a => y \in B[Tip(k, q)]
  /\ w = "return" /\ q # <<>> => Tip(k, q) \in 0 .. n /\ d[Tip(k, q)] # a

\* All heights agree with the factors, but for a node whose subtree has grown.
LevelInv(k, d, b, n, q, a, growing, h) ==
  /\ HasHeights(n, h)
  /\ \A x \in 0 .. n :
       IF growing /\ q # <<>> /\ x = Tip(k, q) THEN GrownAt(k, b, h, x, SideOf(a, d[x]))
       ELSE LevelAt(k, b, h, x)

BalancedTree(k, d, b, n, q, a, w, growing) ==
  \E B, h : TreeInv(k, d, n, q, a, w, B) /\ LevelInv(k, d, b, n, q, a, growing, h)

NamesKept ==
  /\ symSize # 0
  /\ \A x \in Address : symTable[x] = x
  /\ pc # "idle" => e \in Names
  /\ pc = "idle" => cstack = <<>>
  /\ pc = "return" => symCur \in Address /\ data[symCur] = e

Growing == pc = "return" /\ taller

IInv == TypeOK /\ NamesKept /\ BalancedTree(kid, data, bf, symCur, cstack, e, pc, Growing)

----------------------------------------------------------------------------
(* Every step keeps the tree.                                              *)

\* What the call on top of the stack knows when it goes on.
LEMMA PopFacts ==
  ASSUME NEW n \in Int, NEW k, NEW d, NEW B, NEW q, NEW a, IsTree(k, d, n, B), IsPath(k, d, n, B, q, a),
         q # <<>>, NEW k2, Leads(k2, q)
  PROVE  /\ Front(q) = <<>> <=> q[Len(q)].of = Root
         /\ q[Len(q)].of \in Fields(n) /\ q[Len(q)].side \in Sides
         /\ q[Len(q)].of # Root => /\ q[Len(q)].of \in 0 .. n /\ d[q[Len(q)].of] # a
                                   /\ Tip(k2, Front(q)) = q[Len(q)].of
                                   /\ q[Len(q)].side = SideOf(a, d[q[Len(q)].of])
<1>1. q \in Seq([of : Fields(n), side : Sides])
  BY DEF IsPath
<1>2. /\ Len(q) \in Nat /\ Len(q) >= 1 /\ Len(Front(q)) = Len(q) - 1
      /\ Front(q) \in Seq([of : Fields(n), side : Sides])
      /\ \A i \in 1 .. Len(q) - 1 : Front(q)[i] = q[i]
  BY <1>1, FrontIs
<1>3. PICK m \in Nat : m = Len(q) /\ m >= 1
  BY <1>2
<1>4. m \in 1 .. Len(q)
  BY <1>3
<1>5. /\ q[m].of \in Fields(n) /\ q[m].side \in Sides
      /\ q[m].of # Root <=> m # 1
      /\ q[m].of # Root => /\ q[m].of \in 0 .. n /\ d[q[m].of] # a
                           /\ q[m].side = SideOf(a, d[q[m].of])
  BY <1>4, PathFacts
<1>6. Front(q) = <<>> <=> m = 1
  <2>1. \A R : \A f \in Seq(R) : f = <<>> <=> Len(f) = 0
    OBVIOUS
  <2>2. Front(q) = <<>> <=> Len(Front(q)) = 0
    BY <1>2, <2>1
  <2> QED BY <2>2, <1>2, <1>3
<1>7. ASSUME m # 1
      PROVE  Tip(k2, Front(q)) = q[m].of
  <2>1. m - 1 \in 1 .. Len(q) - 1 /\ m - 1 + 1 = m /\ Len(Front(q)) = m - 1
    BY <1>2, <1>3, <1>7
  <2>2. Front(q)[m - 1] = q[m - 1] /\ k2[q[m - 1].of][q[m - 1].side] = q[m - 1 + 1].of
    BY <2>1, <1>2 DEF Leads
  <2> QED BY <2>1, <2>2 DEF Tip
<1> QED BY <1>3, <1>5, <1>6, <1>7

\* A return that changes only the subtree it returns, and the field that points to it.
LEMMA ReturnKeepsTree ==
  ASSUME NEW n \in Int, NEW k, NEW d, NEW B, NEW q, NEW a, TreeInv(k, d, n, q, a, "return", B), q # <<>>,
         NEW k2, NEW B2, IsTree(k2, d, n, B2), NEW x, x = Tip(k, q),
         OnlyBelow(k, k2, n, B, B2, x, q[Len(q)].of, q[Len(q)].side)
  PROVE  /\ TreeInv(k2, d, n, Front(q), a, "return", B2)
         /\ Leads(k2, q)
<1>1. IsTree(k, d, n, B) /\ IsPath(k, d, n, B, q, a) /\ x \in 0 .. n
  BY DEF TreeInv
<1>2. /\ IsPath(k2, d, n, B2, Front(q), a)
      /\ Leads(k2, q)
  BY <1>1, PathKept
<1>3. Front(q) # <<>> => Tip(k2, Front(q)) \in 0 .. n /\ d[Tip(k2, Front(q))] # a
  BY <1>1, <1>2, PopFacts
<1> QED BY <1>2, <1>3 DEF TreeInv

LEMMA AsHighKeeps ==
  ASSUME NEW n \in Int, NEW k, NEW d, NEW b, NEW q, NEW a, q # <<>>,
         BalancedTree(k, d, b, n, q, a, "return", FALSE)
  PROVE  BalancedTree(k, d, b, n, Front(q), a, "return", FALSE)
<1>1. PICK B, h : TreeInv(k, d, n, q, a, "return", B) /\ LevelInv(k, d, b, n, q, a, FALSE, h)
  BY DEF BalancedTree
<1>2. TreeInv(k, d, n, Front(q), a, "return", B)
  <2>1. IsTree(k, d, n, B) /\ \A x : OnlyBelow(k, k, n, B, B, x, q[Len(q)].of, q[Len(q)].side)
    BY <1>1 DEF TreeInv, OnlyBelow
  <2> QED BY <1>1, <2>1, ReturnKeepsTree
<1>3. LevelInv(k, d, b, n, Front(q), a, FALSE, h)
  BY <1>1 DEF LevelInv
<1> QED BY <1>2, <1>3 DEF BalancedTree

\* What is known of the node whose subtree has grown.
LEMMA GrownFacts ==
  ASSUME NEW n \in Int, NEW k, NEW d, NEW b, NEW q, NEW a \in Nat, q # <<>>, NEW B, NEW h,
         TreeInv(k, d, n, q, a, "return", B), LevelInv(k, d, b, n, q, a, TRUE, h)
  PROVE  /\ IsTree(k, d, n, B) /\ IsPath(k, d, n, B, q, a) /\ HasHeights(n, h)
         /\ Tip(k, q) \in 0 .. n /\ SideOf(a, d[Tip(k, q)]) \in Sides
         /\ GrownAt(k, b, h, Tip(k, q), SideOf(a, d[Tip(k, q)]))
         /\ \A y \in 0 .. n : y # Tip(k, q) => LevelAt(k, b, h, y)
         /\ q[Len(q)].of \in Fields(n) /\ q[Len(q)].side \in Sides
         /\ k[q[Len(q)].of][q[Len(q)].side] = Tip(k, q)
<1>1. /\ IsTree(k, d, n, B) /\ IsPath(k, d, n, B, q, a)
      /\ Tip(k, q) \in 0 .. n /\ d[Tip(k, q)] # a
  BY DEF TreeInv
<1>2. d[Tip(k, q)] \in Nat
  BY <1>1, NodeFacts
<1>3. SideOf(a, d[Tip(k, q)]) \in Sides
  BY DEF SideOf, Sides
<1>4. Leads(k, q)
  BY <1>1 DEF IsPath, Leads
<1>5. q[Len(q)].of \in Fields(n) /\ q[Len(q)].side \in Sides
  BY <1>1, <1>4, PopFacts
<1> QED BY <1>1, <1>3, <1>5 DEF LevelInv, Tip

\* The node x leans towards the side s that has grown.
LeanCase(k, d, b, q, a, x, s, b2, grown) ==
  /\ x = Tip(k, q) /\ s = SideOf(a, d[x]) /\ b[x] # s
  /\ b2 = Leaned(b, x, s) /\ grown \in BOOLEAN /\ (grown <=> b[x] = EH)

LEMMA LeanKeeps ==
  ASSUME NEW n \in Int, NEW k, NEW d, NEW b \in [0 .. n -> Factors], NEW q, NEW a \in Nat, q # <<>>,
         BalancedTree(k, d, b, n, q, a, "return", TRUE),
         NEW x, NEW s, NEW b2, NEW grown, LeanCase(k, d, b, q, a, x, s, b2, grown)
  PROVE  /\ BalancedTree(k, d, b2, n, Front(q), a, "return", grown)
         /\ b2 \in [0 .. n -> Factors]
<1>8. /\ x = Tip(k, q) /\ s = SideOf(a, d[x]) /\ b[x] # s
      /\ b2 = Leaned(b, x, s) /\ grown \in BOOLEAN /\ (grown <=> b[x] = EH)
  BY DEF LeanCase
<1>1. PICK B, h : TreeInv(k, d, n, q, a, "return", B) /\ LevelInv(k, d, b, n, q, a, TRUE, h)
  BY DEF BalancedTree
<1>2. /\ IsTree(k, d, n, B) /\ IsPath(k, d, n, B, q, a) /\ HasHeights(n, h)
      /\ x \in 0 .. n /\ s \in Sides /\ GrownAt(k, b, h, x, s)
      /\ \A y \in 0 .. n : y # x => LevelAt(k, b, h, y)
      /\ q[Len(q)].of \in Fields(n) /\ q[Len(q)].side \in Sides
      /\ k[q[Len(q)].of][q[Len(q)].side] = x
  BY <1>1, <1>8, GrownFacts
<1> DEFINE p == q[Len(q)].of
           t == q[Len(q)].side
<1>3. /\ TreeInv(k, d, n, Front(q), a, "return", B)
      /\ Leads(k, q)
  <2>1. OnlyBelow(k, k, n, B, B, x, q[Len(q)].of, q[Len(q)].side)
    BY DEF OnlyBelow
  <2> QED BY <1>1, <1>2, <2>1, <1>8, ReturnKeepsTree
<1>4. /\ Front(q) = <<>> <=> p = Root
      /\ p # Root => Tip(k, Front(q)) = p /\ t = SideOf(a, d[p])
  BY <1>2, <1>3, <1>8, PopFacts
<1> HIDE DEF p, t
<1>5. PICK h2 : LevelsBut(n, k, b2, b[x] = EH, p, t, h2) /\ b2 \in [0 .. n -> Factors]
  <2>1. p \in Fields(n) /\ t \in Sides /\ k[p][t] = x
    BY <1>2 DEF p, t
  <2> QED BY <1>2, <1>8, <2>1, LeanLevels
<1>7. /\ HasHeights(n, h2)
      /\ \A y \in 0 .. n : (y = p /\ b[x] = EH) \/ LevelAt(k, b2, h2, y)
      /\ b[x] = EH /\ p # Root => GrownAt(k, b2, h2, p, t)
  BY <1>5 DEF LevelsBut
<1>6. LevelInv(k, d, b2, n, Front(q), a, grown, h2)
  <2>1. ASSUME NEW y \in 0 .. n
        PROVE  IF grown /\ Front(q) # <<>> /\ y = Tip(k, Front(q))
               THEN GrownAt(k, b2, h2, y, SideOf(a, d[y])) ELSE LevelAt(k, b2, h2, y)
    <3>1. y # Root
      BY NodeFacts, <1>2
    <3> QED BY <3>1, <1>4, <1>7, <1>8
  <2> QED BY <2>1, <1>7 DEF LevelInv
<1> QED BY <1>3, <1>5, <1>6 DEF BalancedTree

\* A node that is too high has a child there which leans, and which has a child there.
LEMMA TooHigh ==
  ASSUME NEW i \in Nat, NEW j \in Nat, NEW l \in Nat, NEW s \in Sides
  PROVE  /\ Level(i - 1, j, l, s, s) => i >= 2
         /\ Level(i, j, l, -s, s) => j >= 1
<1>1. CASE s = 1
  BY <1>1, Numbers DEF Level
<1>2. CASE s = -1
  BY <1>2, Numbers DEF Level
<1> QED BY <1>1, <1>2, Numbers

LEMMA RebalanceFacts ==
  ASSUME NEW n \in Int, NEW k, NEW d, NEW B, IsTree(k, d, n, B), NEW h, HasHeights(n, h),
         NEW b \in [0 .. n -> Factors], NEW x \in 0 .. n, NEW s \in Sides,
         GrownAt(k, b, h, x, s), b[x] = s, \A y \in 0 .. n : y # x => LevelAt(k, b, h, y)
  PROVE  /\ k[x][s] \in 0 .. n /\ k[x][s] \in B[x] /\ x \in B[x]
         /\ b[k[x][s]] \in {s, -s}
         /\ b[k[x][s]] = -s => k[k[x][s]][-s] \in 0 .. n /\ k[k[x][s]][-s] \in B[x]
<1> DEFINE c == k[x][s]
           o == k[x][-s]
           a == k[c][s]
           e1 == k[c][-s]
<1>1. /\ k \in [Fields(n) -> [Sides -> Pointer(n)]] /\ -s \in Sides
      /\ \A y \in 0 .. n : y \in Fields(n) /\ y \in Pointer(n)
      /\ h \in [Pointer(n) -> Nat] /\ h[NULL] = 0
  <2>1. k \in [Fields(n) -> [Sides -> Pointer(n)]]
    BY DEF IsTree
  <2>2. h \in [Pointer(n) -> Nat] /\ h[NULL] = 0
    BY DEF HasHeights
  <2>3. -s \in Sides
    BY SideFacts
  <2>4. \A y \in 0 .. n : y \in Fields(n) /\ y \in Pointer(n)
    BY NodeFacts
  <2> QED BY <2>1, <2>2, <2>3, <2>4
<1>2. c \in 0 .. n /\ o \in Pointer(n)
  <2>1. c \in Pointer(n) /\ o \in Pointer(n)
    BY <1>1
  <2>2. c # NULL
    BY DEF GrownAt
  <2> QED BY <2>1, <2>2 DEF Pointer
<1>3. a \in Pointer(n) /\ e1 \in Pointer(n)
  BY <1>1, <1>2
<1>4. c # x
  BY <1>2, NodeFacts
<1>5. /\ Level(h[c] - 1, h[o], h[x], s, s) /\ (h[c] = 1 \/ b[c] # EH)
      /\ h[c] \in Nat /\ h[o] \in Nat /\ h[x] \in Nat /\ h[a] \in Nat /\ h[e1] \in Nat
      /\ b[c] \in Factors
  BY <1>1, <1>2, <1>3 DEF GrownAt
<1>6. Level(h[a], h[e1], h[c], b[c], s)
  <2>1. LevelAt(k, b, h, c) /\ k[c][LH] \in Pointer(n) /\ k[c][RH] \in Pointer(n)
    BY <1>1, <1>2, <1>4, SideFacts
  <2> QED BY <2>1, <1>2, <1>5, LevelOnSide
<1>7. c \in B[x] /\ x \in B[x] /\ B[c] \subseteq B[x]
  BY <1>2, NodeFacts
<1>8. e1 # NULL => e1 \in 0 .. n /\ e1 \in B[x]
  <2>1. e1 # NULL => e1 \in 0 .. n
    BY <1>3 DEF Pointer
  <2>2. e1 \in 0 .. n => e1 \in B[e1]
    <3> HIDE DEF e1
    <3> QED BY NodeFacts
  <2>3. B[e1] \subseteq B[c]
    <3> HIDE DEF c
    <3> QED BY <1>1, <1>2, NodeFacts
  <2> QED BY <2>1, <2>2, <2>3, <1>7
<1> HIDE DEF c, o, a, e1
<1>9. b[c] # EH
  <2>1. h[c] >= 2
    BY <1>5, TooHigh
  <2> QED BY <2>1, <1>5
<1>10. b[c] \in {s, -s}
  BY <1>5, <1>9, Numbers DEF Factors
<1>11. b[c] = -s => e1 # NULL
  <2>1. ASSUME b[c] = -s PROVE h[e1] >= 1
    <3>1. Level(h[a], h[e1], h[c], -s, s)
      BY <1>6, <2>1
    <3> QED BY <3>1, <1>5, TooHigh
  <2>2. ASSUME b[c] = -s PROVE h[e1] # 0
    BY <2>1, <2>2, <1>5
  <2> QED BY <2>2, <1>1
<1> QED BY <1>2, <1>7, <1>8, <1>10, <1>11 DEF c, o, e1

SingleFactors(b, x, c) == [b EXCEPT ![x] = EH, ![c] = EH]

Rebalances(k, d, b, n, q, a, k2, b2) ==
  /\ BalancedTree(k2, d, b2, n, Front(q), a, "return", FALSE)
  /\ k2 \in [Fields(n) -> [Sides -> Pointer(n)]] /\ b2 \in [0 .. n -> Factors]

\* The node x is too high on the side s, where its child is c.
RebalanceCase(k, d, b, q, a, x, s, p, t, c) ==
  /\ x = Tip(k, q) /\ s = SideOf(a, d[x]) /\ b[x] = s
  /\ p = q[Len(q)].of /\ t = q[Len(q)].side /\ c = k[x][s]

RebalancesAll(k, d, b, n, q, a, x, s, p, t, c) ==
  /\ b[c] \in {s, -s}
  /\ b[c] = s => Rebalances(k, d, b, n, q, a, SingleKid(k, p, t, s), SingleFactors(b, x, c))
  /\ b[c] = -s => Rebalances(k, d, b, n, q, a, DoubleKid(k, p, t, x, s),
        DoubleFactors(b, x, s, c, k[c][-s]))

LEMMA RebalanceKeeps ==
  ASSUME NEW n \in Int, NEW k, NEW d, NEW b \in [0 .. n -> Factors], NEW q, NEW a \in Nat, q # <<>>,
         BalancedTree(k, d, b, n, q, a, "return", TRUE),
         NEW x, NEW s, NEW p, NEW t, NEW c, RebalanceCase(k, d, b, q, a, x, s, p, t, c)
  PROVE  RebalancesAll(k, d, b, n, q, a, x, s, p, t, c)
<1>8. /\ x = Tip(k, q) /\ s = SideOf(a, d[x]) /\ b[x] = s
      /\ p = q[Len(q)].of /\ t = q[Len(q)].side /\ c = k[x][s]
  BY DEF RebalanceCase
<1>1. PICK B, h : TreeInv(k, d, n, q, a, "return", B) /\ LevelInv(k, d, b, n, q, a, TRUE, h)
  BY DEF BalancedTree
<1>2. /\ IsTree(k, d, n, B) /\ IsPath(k, d, n, B, q, a) /\ HasHeights(n, h)
      /\ x \in 0 .. n /\ s \in Sides /\ GrownAt(k, b, h, x, s)
      /\ \A y \in 0 .. n : y # x => LevelAt(k, b, h, y)
      /\ p \in Fields(n) /\ t \in Sides /\ k[p][t] = x
  BY <1>1, <1>8, GrownFacts, ZenonT(60)
<1>3. /\ c \in 0 .. n /\ c \in B[x] /\ x \in B[x] /\ b[c] \in {s, -s}
      /\ b[c] = -s => k[c][-s] \in 0 .. n /\ k[c][-s] \in B[x]
  BY <1>2, <1>8, RebalanceFacts, SMTT(30)
<1>4. -s \in Sides /\ -s # s
  BY <1>2, SideFacts
<1>5. ASSUME NEW k2, NEW b2 \in [0 .. n -> Factors], NEW X \in SUBSET B[x], Turns(n, d, B, k2, X),
             \A y \in Fields(n) \ X, u \in Sides : ~ (y = p /\ u = t) => k2[y][u] = k[y][u],
             AllLevels(n, k2, b2)
      PROVE  Rebalances(k, d, b, n, q, a, k2, b2)
  <2>1. PICK B2 : IsTree(k2, d, n, B2) /\ \A y \in Pointer(n) \ X : B2[y] = B[y]
    BY <1>5 DEF Turns
  <2>2. PICK h2 : HasHeights(n, h2) /\ \A y \in 0 .. n : LevelAt(k2, b2, h2, y)
    BY <1>5 DEF AllLevels
  <2>3. OnlyBelow(k, k2, n, B, B2, x, p, t)
    BY <1>5, <2>1 DEF OnlyBelow
  <2>4. TreeInv(k2, d, n, Front(q), a, "return", B2)
    BY <1>1, <1>8, <2>1, <2>3, ReturnKeepsTree
  <2>5. LevelInv(k2, d, b2, n, Front(q), a, FALSE, h2)
    BY <2>2 DEF LevelInv
  <2>6. k2 \in [Fields(n) -> [Sides -> Pointer(n)]]
    BY <2>1 DEF IsTree
  <2> QED BY <2>4, <2>5, <2>6 DEF Rebalances, BalancedTree
<1>6. ASSUME b[c] = s
      PROVE  Rebalances(k, d, b, n, q, a, SingleKid(k, p, t, s), SingleFactors(b, x, c))
  <2> DEFINE k2 == SingleKid(k, p, t, s)
             b2 == SingleFactors(b, x, c)
  <2>1. /\ p # x /\ p # c /\ x # c
        /\ SingleTurn(k, k2, n, p, t, x, s, c) /\ Turns(n, d, B, k2, {x, c})
    <3>1. k[p][t] = x /\ k[x][s] = c /\ k2 = Rotate(k, Field(p, t), s)
      BY <1>2, <1>8 DEF SingleKid
    <3> HIDE DEF k2
    <3>2. SingleTurn(k, k2, n, p, t, x, s, c) /\ Turns(n, d, B, k2, {x, c})
      BY <1>2, <1>3, <3>1, SingleRotation
    <3>3. p # x /\ p # c /\ x # c
      BY <1>2, <1>3, <3>1, <3>2, SingleRotation
    <3> QED BY <3>2, <3>3
  <2>2. SingleCase(k, b, p, t, x, s, c)
    BY <1>2, <1>6, <1>8, <2>1 DEF SingleCase
  <2>3. b2 = [b EXCEPT ![x] = EH, ![c] = EH]
    BY DEF SingleFactors
  <2> HIDE DEF k2, b2
  <2>4. /\ b2 \in [0 .. n -> Factors]
        /\ AllLevels(n, k2, b2)
    BY <1>2, <1>3, <1>4, <2>1, <2>2, <2>3, SingleLevels
  <2>5. \A y \in Fields(n) \ {x, c}, u \in Sides : ~ (y = p /\ u = t) => k2[y][u] = k[y][u]
    BY <2>1 DEF SingleTurn
  <2>6. {x, c} \in SUBSET B[x]
    BY <1>3
  <2>7. Rebalances(k, d, b, n, q, a, k2, b2)
    BY <2>1, <2>4, <2>5, <2>6, <1>5
  <2> QED BY <2>7 DEF k2, b2
<1>7. ASSUME b[c] = -s
      PROVE  Rebalances(k, d, b, n, q, a, DoubleKid(k, p, t, x, s), DoubleFactors(b, x, s, c, k[c][-s]))
  <2> DEFINE k2 == DoubleKid(k, p, t, x, s)
             g == k[c][-s]
             b2 == DoubleFactors(b, x, s, c, g)
  <2>0. g \in 0 .. n /\ g \in B[x] /\ k[c][-s] = g
    BY <1>3, <1>7
  <2>3. b2 = DoubleFactors(b, x, s, c, g)
    OBVIOUS
  <2>8. k2 = DoubleKid(k, p, t, x, s)
    OBVIOUS
  <2> HIDE DEF k2, b2, g
  <2>1. /\ p # x /\ p # c /\ p # g /\ x # c /\ x # g /\ c # g
        /\ DoubleTurn(k, k2, n, p, t, x, s, c, g) /\ Turns(n, d, B, k2, {x, c, g})
    <3>1. /\ IsTree(k, d, n, B) /\ p \in Fields(n) /\ t \in Sides /\ s \in Sides /\ x \in 0 .. n
          /\ c \in 0 .. n /\ g \in 0 .. n /\ k[p][t] = x /\ k[x][s] = c /\ k[c][-s] = g
      BY <1>2, <1>3, <1>8, <2>0
    <3>3. DoubleNodes(k, n, p, t, x, s, c, g)
      BY <3>1 DEF DoubleNodes
    <3>4. DoubleTurn(k, DoubleKid(k, p, t, x, s), n, p, t, x, s, c, g)
      BY <3>1, <3>3, DoubleRotation
    <3>5. Turns(n, d, B, DoubleKid(k, p, t, x, s), {x, c, g})
      BY <3>1, <3>3, DoubleRotation
    <3>2. p # x /\ p # c /\ p # g /\ x # c /\ x # g /\ c # g
      BY <3>1, <3>3, <3>4, <3>5, DoubleRotation
    <3> QED BY <3>2, <3>4, <3>5, <2>8
  <2>2. DoubleCase(k, b, n, p, t, x, s, -s, c, g)
    BY <1>2, <1>4, <1>7, <1>8, <2>0, <2>1 DEF DoubleCase
  <2>4. /\ b2 \in [0 .. n -> Factors]
        /\ AllLevels(n, k2, b2)
    BY <1>2, <1>3, <1>4, <2>0, <2>1, <2>2, <2>3, DoubleLevels
  <2>5. \A y \in Fields(n) \ {x, c, g}, u \in Sides : ~ (y = p /\ u = t) => k2[y][u] = k[y][u]
    BY <2>1 DEF DoubleTurn
  <2>6. {x, c, g} \in SUBSET B[x]
    BY <1>3, <2>0
  <2>7. Rebalances(k, d, b, n, q, a, k2, b2)
    BY <2>1, <2>4, <2>5, <2>6, <1>5
  <2> QED BY <2>7 DEF k2, b2, g
<1> QED BY <1>3, <1>6, <1>7 DEF RebalancesAll

LEMMA NewNodeKeeps ==
  ASSUME NEW n \in Int, n >= -1, NEW k, NEW d, NEW b \in [0 .. n -> Factors], NEW q, NEW a \in Nat,
         BalancedTree(k, d, b, n, q, a, "insert", FALSE), Tip(k, q) = NULL,
         NEW m, NEW k2, NEW d2, Adds(n, k, d, q, a, m, k2, d2),
         NEW b2 \in [0 .. m -> Factors], b2[m] = EH, \A y \in 0 .. n : b2[y] = b[y]
  PROVE  BalancedTree(k2, d2, b2, m, Front(q), a, "return", TRUE)
<1>1. PICK B, h : TreeInv(k, d, n, q, a, "insert", B) /\ LevelInv(k, d, b, n, q, a, FALSE, h)
  BY DEF BalancedTree
<1>2. /\ IsTree(k, d, n, B) /\ IsPath(k, d, n, B, q, a) /\ q # <<>>
      /\ \A y \in 0 .. n : d[y] = a => y \in B[Tip(k, q)]
      /\ HasHeights(n, h) /\ \A y \in 0 .. n : LevelAt(k, b, h, y)
  BY <1>1 DEF TreeInv, LevelInv
<1>3. \A y \in 0 .. n : d[y] # a
  <2>1. B[NULL] = {}
    BY <1>2 DEF IsTree
  <2> QED BY <1>2, <2>1
<1> DEFINE B2 == Joined(B, q, m)
           p == q[Len(q)].of
           t == q[Len(q)].side
<1>4. k[p][t] = NULL
  BY DEF Tip
<1>5. IsTree(k2, d2, m, B2) /\ IsPath(k2, d2, m, B2, Front(q), a) /\ Leads(k2, q)
  BY <1>2, <1>3, <1>4, Added
<1>6. /\ Front(q) = <<>> <=> p = Root
      /\ p \in Fields(n) /\ t \in Sides
      /\ p # Root => /\ p \in 0 .. n /\ d[p] # a /\ Tip(k2, Front(q)) = p /\ t = SideOf(a, d[p])
  BY <1>2, <1>5, PopFacts
<1>7. PICK h2 :
        /\ HasHeights(m, h2)
        /\ \A y \in 0 .. m : y = p \/ LevelAt(k2, b2, h2, y)
        /\ p # Root => GrownAt(k2, b2, h2, p, t)
  BY <1>2, <1>4, <1>6, AddedLevels
<1>8. (\A y \in 0 .. n : y \in 0 .. m /\ d2[y] = d[y]) /\ \A y \in 0 .. m : y # Root
  BY Numbers DEF Adds, Root
<1> HIDE DEF B2, p, t
<1>9. TreeInv(k2, d2, m, Front(q), a, "return", B2)
  BY <1>5, <1>6, <1>8 DEF TreeInv
<1>10. ASSUME NEW y \in 0 .. m
       PROVE  IF Front(q) # <<>> /\ y = Tip(k2, Front(q)) THEN GrownAt(k2, b2, h2, y, SideOf(a, d2[y]))
              ELSE LevelAt(k2, b2, h2, y)
  BY <1>6, <1>7, <1>8
<1>11. LevelInv(k2, d2, b2, m, Front(q), a, TRUE, h2)
  BY <1>7, <1>10 DEF LevelInv
<1> QED BY <1>9, <1>11 DEF BalancedTree

LEMMA RecurseKeeps ==
  ASSUME NEW n \in Int, NEW k, NEW d, NEW b, NEW q, NEW a \in Nat,
         BalancedTree(k, d, b, n, q, a, "insert", FALSE),
         NEW x \in 0 .. n, x = Tip(k, q), d[x] # a, NEW s, s = SideOf(a, d[x])
  PROVE  BalancedTree(k, d, b, n, Append(q, Field(x, s)), a, "insert", FALSE)
<1>1. PICK B, h : TreeInv(k, d, n, q, a, "insert", B) /\ LevelInv(k, d, b, n, q, a, FALSE, h)
  BY DEF BalancedTree
<1>2. /\ IsTree(k, d, n, B) /\ IsPath(k, d, n, B, q, a) /\ q # <<>>
      /\ \A y \in 0 .. n : d[y] = a => y \in B[x]
  BY <1>1 DEF TreeInv
<1>3. s \in Sides /\ x \in Fields(n)
  BY NodeFacts, <1>2 DEF SideOf, Sides
<1> DEFINE f == Field(x, s)
           q2 == Append(q, f)
<1>4. f \in [of : Fields(n), side : Sides] /\ f.of = x /\ f.side = s
  BY <1>3 DEF Field
<1> HIDE DEF f
<1>5. /\ q \in Seq([of : Fields(n), side : Sides])
      /\ q[1].of = Root /\ q[1].side = LH
      /\ \A i \in 1 .. Len(q) - 1 : q[i + 1].of = k[q[i].of][q[i].side]
      /\ \A i \in 2 .. Len(q) :
           q[i].of \in 0 .. n /\ d[q[i].of] # a /\ q[i].side = SideOf(a, d[q[i].of])
      /\ \A i, j \in 1 .. Len(q) :
           i <= j => B[k[q[j].of][q[j].side]] \subseteq B[k[q[i].of][q[i].side]]
  BY <1>2 DEF IsPath
<1>6. /\ q2 \in Seq([of : Fields(n), side : Sides]) /\ Len(q) \in Nat /\ Len(q) >= 1 /\ Len(q2) = Len(q) + 1
      /\ q2[Len(q) + 1] = f /\ \A i \in 1 .. Len(q) : q2[i] = q[i]
  <2>1. \A R : \A z \in R : q \in Seq(R) =>
          /\ Append(q, z) \in Seq(R) /\ Len(q) \in Nat /\ (q # <<>> => Len(q) >= 1)
          /\ Len(Append(q, z)) = Len(q) + 1
          /\ Append(q, z)[Len(q) + 1] = z /\ \A i \in 1 .. Len(q) : Append(q, z)[i] = q[i]
    OBVIOUS
  <2> QED BY <2>1, <1>2, <1>4, <1>5
<1> HIDE DEF q2
<1>7. PICK l \in Nat : l = Len(q) /\ l >= 1 /\ Len(q2) = l + 1
  BY <1>6
<1>8. x = k[q[l].of][q[l].side]
  BY <1>7 DEF Tip
<1>9. B[k[x][s]] \subseteq B[x]
  <2>1. B[x] = {x} \cup B[k[x][LH]] \cup B[k[x][RH]]
    BY <1>2 DEF IsTree
  <2> QED BY <2>1, <1>3 DEF Sides
<1>10. IsPath(k, d, n, B, q2, a)
  <2>1. \A i \in 1 .. l : q2[i] = q[i]
    BY <1>6, <1>7
  <2>2. q2[l + 1] = f
    BY <1>6, <1>7
  <2>3. q2[1].of = Root /\ q2[1].side = LH
    BY <2>1, <1>5, <1>7
  <2>4. ASSUME NEW i \in 1 .. l PROVE q2[i + 1].of = k[q2[i].of][q2[i].side]
    <3>1. CASE i = l
      BY <3>1, <2>1, <2>2, <1>4, <1>8
    <3>2. CASE i # l
      <4>1. i \in 1 .. l - 1 /\ i + 1 \in 1 .. l
        BY <3>2
      <4> QED BY <4>1, <2>1, <1>5, <1>7
    <3> QED BY <3>1, <3>2
  <2>5. ASSUME NEW i \in 2 .. l + 1
        PROVE  q2[i].of \in 0 .. n /\ d[q2[i].of] # a /\ q2[i].side = SideOf(a, d[q2[i].of])
    <3>1. CASE i = l + 1
      BY <3>1, <2>2, <1>4
    <3>2. CASE i # l + 1
      <4>1. i \in 1 .. l /\ i \in 2 .. l
        BY <3>2
      <4> QED BY <4>1, <2>1, <1>5, <1>7
    <3> QED BY <3>1, <3>2
  <2>6. ASSUME NEW i \in 1 .. l + 1, NEW j \in 1 .. l + 1, i <= j
        PROVE  B[k[q2[j].of][q2[j].side]] \subseteq B[k[q2[i].of][q2[i].side]]
    <3>1. CASE i = l + 1
      <4>1. j = i
        BY <3>1, <2>6
      <4> QED BY <4>1
    <3>2. CASE i # l + 1 /\ j = l + 1
      <4>1. i \in 1 .. l /\ l \in 1 .. l /\ i <= l
        BY <3>2
      <4>2. B[x] \subseteq B[k[q[i].of][q[i].side]]
        BY <4>1, <1>5, <1>7, <1>8, Zenon
      <4>3. q2[i] = q[i] /\ q2[j].of = x /\ q2[j].side = s
        BY <4>1, <3>2, <2>1, <2>2, <1>4
      <4> QED BY <4>2, <4>3, <1>9
    <3>3. CASE i # l + 1 /\ j # l + 1
      <4>1. i \in 1 .. l /\ j \in 1 .. l
        BY <3>3
      <4> QED BY <4>1, <2>1, <2>6, <1>5, <1>7
    <3> QED BY <3>1, <3>2, <3>3
  <2>7. Len(q2) - 1 = l /\ Len(q2) = l + 1
    BY <1>7
  <2> QED BY <2>3, <2>4, <2>5, <2>6, <2>7, <1>6 DEF IsPath
<1>11. Tip(k, q2) = k[x][s]
  BY <1>4, <1>6, <1>7, Zenon DEF Tip
<1>12. ASSUME NEW y \in 0 .. n, d[y] = a
       PROVE  y \in B[k[x][s]]
  <2>1. y \in B[x] /\ y # x
    BY <1>2, <1>12
  <2>2. B[x] = {x} \cup B[k[x][LH]] \cup B[k[x][RH]]
    BY <1>2 DEF IsTree
  <2>3. PICK u \in Sides : y \in B[k[x][u]]
    BY <2>1, <2>2 DEF Sides
  <2>4. OnSide(d[y], d[x], u)
    BY <2>3, <1>2 DEF IsTree
  <2>5. d[x] \in Nat
    BY <1>2 DEF IsTree
  <2>6. u = s
    BY <2>4, <2>5, <1>12, SideFacts DEF OnSide, SideOf, Sides
  <2> QED BY <2>3, <2>6
<1>13. TreeInv(k, d, n, q2, a, "insert", B)
  <2>1. q2 # <<>>
    BY <1>6, <1>7
  <2> QED BY <2>1, <1>2, <1>10, <1>11, <1>12 DEF TreeInv
<1>14. LevelInv(k, d, b, n, q2, a, FALSE, h)
  BY <1>1 DEF LevelInv
<1> QED BY <1>13, <1>14 DEF BalancedTree, q2, f

\* Without calls on the stack.
LEMMA RestKeeps ==
  ASSUME NEW n \in Int, NEW k, NEW d, NEW b, NEW q, NEW a, NEW a2, NEW w, NEW w2, NEW growing,
         growing => q = <<>>, w2 # "insert", BalancedTree(k, d, b, n, q, a, w, growing)
  PROVE  BalancedTree(k, d, b, n, <<>>, a2, w2, FALSE)
<1>1. PICK B, h : TreeInv(k, d, n, q, a, w, B) /\ LevelInv(k, d, b, n, q, a, growing, h)
  BY DEF BalancedTree
<1>2. IsTree(k, d, n, B) /\ LevelInv(k, d, b, n, <<>>, a2, FALSE, h)
  BY <1>1 DEF TreeInv, LevelInv
<1>3. IsPath(k, d, n, B, <<>>, a2)
  <2>1. \A R : <<>> \in Seq(R) /\ Len(<<>>) = 0
    OBVIOUS
  <2> QED BY <2>1 DEF IsPath
<1>4. TreeInv(k, d, n, <<>>, a2, w2, B)
  BY <1>2, <1>3 DEF TreeInv
<1> QED BY <1>2, <1>4 DEF BalancedTree

LEMMA CallKeeps ==
  ASSUME NEW n \in Int, NEW k, NEW d, NEW b, NEW a, NEW a2, NEW w,
         BalancedTree(k, d, b, n, <<>>, a, w, FALSE)
  PROVE  BalancedTree(k, d, b, n, <<Field(Root, LH)>>, a2, "insert", FALSE)
<1>1. PICK B, h : TreeInv(k, d, n, <<>>, a, w, B) /\ LevelInv(k, d, b, n, <<>>, a, FALSE, h)
  BY DEF BalancedTree
<1> DEFINE f == Field(Root, LH)
           q == <<f>>
<1>2. IsTree(k, d, n, B) /\ LevelInv(k, d, b, n, q, a2, FALSE, h)
  BY <1>1 DEF TreeInv, LevelInv
<1>3. f \in [of : Fields(n), side : Sides] /\ f.of = Root /\ f.side = LH
  BY DEF Field, Fields, Sides
<1> HIDE DEF f
<1>4. q \in Seq([of : Fields(n), side : Sides]) /\ Len(q) = 1 /\ q[1] = f /\ q # <<>>
  <2>1. \A R : \A z \in R : <<z>> \in Seq(R) /\ Len(<<z>>) = 1 /\ <<z>>[1] = z /\ <<z>> # <<>>
    OBVIOUS
  <2> QED BY <2>1, <1>3
<1> HIDE DEF q
<1>5. IsPath(k, d, n, B, q, a2)
  <2>1. \A i, j \in 1 .. 1 : i = j
    OBVIOUS
  <2> QED BY <2>1, <1>3, <1>4 DEF IsPath
<1>6. Tip(k, q) = k[Root][LH]
  BY <1>3, <1>4 DEF Tip
<1>7. B[Tip(k, q)] = 0 .. n
  BY <1>2, <1>6 DEF IsTree
<1>8. TreeInv(k, d, n, q, a2, "insert", B)
  BY <1>2, <1>4, <1>5, <1>7 DEF TreeInv
<1> QED BY <1>2, <1>8 DEF BalancedTree, q, f

----------------------------------------------------------------------------
(* The steps.                                                              *)

\* A function from D that m is added to.
Extends(g, D, R, f, m, y) ==
  g \in [D \cup {m} -> R] /\ g[m] = y /\ \A x \in D : g[x] = f[x]

LEMMA WithFacts ==
  ASSUME NEW D, NEW R, NEW f \in [D -> R], NEW m, m \notin D, NEW y \in R
  PROVE  Extends(With(f, m, y), D, R, f, m, y)
<1>1. With(f, m, y) = [z \in D \cup {m} |-> IF z = m THEN y ELSE f[z]]
  BY DEF With
<1> QED BY <1>1 DEF Extends

NewKid(k, p, t, m) == With([k EXCEPT ![p][t] = m], m, [s \in Sides |-> NULL])

LEMMA NewFields ==
  ASSUME NEW n \in Int, n >= -1, NEW k \in [Fields(n) -> [Sides -> Pointer(n)]],
         NEW p \in Fields(n), NEW t \in Sides, NEW m, m = n + 1,
         NEW k2, k2 = NewKid(k, p, t, m)
  PROVE  /\ k2 \in [Fields(m) -> [Sides -> Pointer(m)]]
         /\ k2[p][t] = m /\ \A u \in Sides : k2[m][u] = NULL
         /\ \A y \in Fields(n), u \in Sides : ~ (y = p /\ u = t) => k2[y][u] = k[y][u]
<1>1. /\ m \in Nat /\ 0 .. m = (0 .. n) \cup {m} /\ m \notin 0 .. n
      /\ m # Root /\ m # NULL
  BY DEF Root, NULL
<1>2. /\ Fields(m) = Fields(n) \cup {m} /\ m \notin Fields(n)
      /\ Pointer(n) \subseteq Pointer(m) /\ m \in Pointer(m) /\ NULL \in Pointer(m)
  BY <1>1 DEF Fields, Pointer
<1> DEFINE j == [k EXCEPT ![p] = [k[p] EXCEPT ![t] = m]]
           z == [s \in Sides |-> NULL]
<1>3. /\ [k EXCEPT ![p][t] = m] = j /\ j \in [Fields(n) -> [Sides -> Pointer(m)]]
      /\ j[p][t] = m /\ \A y \in Fields(n), u \in Sides : ~ (y = p /\ u = t) => j[y][u] = k[y][u]
  <2>1. k \in [Fields(n) -> [Sides -> Pointer(m)]] /\ k[p] \in [Sides -> Pointer(m)]
    BY <1>2
  <2>2. [k[p] EXCEPT ![t] = m] \in [Sides -> Pointer(m)]
    BY <2>1, <1>2
  <2> QED BY <2>1, <2>2
<1>4. z \in [Sides -> Pointer(m)] /\ \A u \in Sides : z[u] = NULL
  BY <1>2
<1> HIDE DEF j, z
<1>5. k2 = With(j, m, z)
  BY <1>3 DEF z, NewKid
<1>6. /\ k2 \in [Fields(n) \cup {m} -> [Sides -> Pointer(m)]] /\ k2[m] = z
      /\ \A y \in Fields(n) : k2[y] = j[y]
  <2>1. /\ With(j, m, z) \in [Fields(n) \cup {m} -> [Sides -> Pointer(m)]]
        /\ With(j, m, z)[m] = z
        /\ \A y \in Fields(n) : With(j, m, z)[y] = j[y]
    <3>1. /\ m \notin Fields(n) /\ j \in [Fields(n) -> [Sides -> Pointer(m)]] /\ z \in [Sides -> Pointer(m)]
      BY <1>2, <1>3, <1>4
    <3>2. Extends(With(j, m, z), Fields(n), [Sides -> Pointer(m)], j, m, z)
      BY <3>1, WithFacts
    <3> QED BY <3>2 DEF Extends
  <2> QED BY <2>1, <1>5
<1>7. k2[p][t] = m /\ \A u \in Sides : k2[m][u] = NULL
  BY <1>3, <1>4, <1>6
<1>8. \A y \in Fields(n), u \in Sides : ~ (y = p /\ u = t) => k2[y][u] = k[y][u]
  BY <1>3, <1>6
<1>9. k2 \in [Fields(m) -> [Sides -> Pointer(m)]]
  BY <1>2, <1>6
<1> QED BY <1>7, <1>8, <1>9

\* What the tree says of its calls.
LEMMA TreeTypes ==
  ASSUME NEW n \in Int, NEW k, NEW d, NEW b, NEW q, NEW a, NEW w, NEW growing,
         BalancedTree(k, d, b, n, q, a, w, growing)
  PROVE  /\ k \in [Fields(n) -> [Sides -> Pointer(n)]]
         /\ q \in Seq([of : Fields(n), side : Sides])
         /\ \A x, y \in 0 .. n : d[x] = d[y] => x = y
         /\ w = "insert" => q # <<>> /\ \A y \in 0 .. n : Tip(k, q) = NULL => d[y] # a
         /\ q # <<>> => /\ q[Len(q)].of \in Fields(n) /\ q[Len(q)].side \in Sides
                        /\ Tip(k, q) \in Pointer(n)
         /\ w = "return" /\ q # <<>> => Tip(k, q) \in 0 .. n
<1>1. PICK B, h : TreeInv(k, d, n, q, a, w, B) /\ LevelInv(k, d, b, n, q, a, growing, h)
  BY DEF BalancedTree
<1>2. IsTree(k, d, n, B) /\ IsPath(k, d, n, B, q, a)
  BY <1>1 DEF TreeInv
<1>3. /\ k \in [Fields(n) -> [Sides -> Pointer(n)]] /\ B[NULL] = {}
      /\ \A x, y \in 0 .. n : d[x] = d[y] => x = y
  BY <1>2 DEF IsTree
<1>4. q \in Seq([of : Fields(n), side : Sides])
  BY <1>2 DEF IsPath
<1>5. ASSUME q # <<>>
      PROVE  q[Len(q)].of \in Fields(n) /\ q[Len(q)].side \in Sides /\ Tip(k, q) \in Pointer(n)
  <2>1. Len(q) \in 1 .. Len(q)
    <3>1. \A R : q \in Seq(R) => Len(q) \in 1 .. Len(q)
      BY <1>5
    <3> QED BY <3>1, <1>4
  <2>2. q[Len(q)].of \in Fields(n) /\ q[Len(q)].side \in Sides
    BY <2>1, <1>2, PathFacts
  <2> QED BY <2>2, <1>3 DEF Tip
<1>6. w = "insert" => q # <<>> /\ \A y \in 0 .. n : Tip(k, q) = NULL => d[y] # a
  BY <1>1, <1>3 DEF TreeInv
<1>7. w = "return" /\ q # <<>> => Tip(k, q) \in 0 .. n
  BY <1>1 DEF TreeInv
<1> QED BY <1>3, <1>4, <1>5, <1>6, <1>7

\* The variables, as the lemmas above name them.
LEMMA StateFacts ==
  ASSUME IInv
  PROVE  /\ symCur \in Int /\ symCur >= -1 /\ symSize \in Nat /\ symSize > 0 /\ symCur < symSize
         /\ Address = 0 .. symCur /\ Fields(symCur) = {Root} \cup Address
         /\ Pointer(symCur) = {NULL} \cup Address
         /\ bf \in [0 .. symCur -> Factors] /\ data \in [0 .. symCur -> Names]
         /\ symTable \in [0 .. symSize - 1 -> Address \cup {Junk}]
         /\ pc # "idle" => e \in Names /\ e \in Nat
         /\ BalancedTree(kid, data, bf, symCur, cstack, e, pc, Growing)
         /\ pc = "insert" => symCur + 1 < symSize
<1>1. TypeOK /\ NamesKept /\ BalancedTree(kid, data, bf, symCur, cstack, e, pc, Growing)
  BY DEF IInv
<1>2. symSize \in Nat /\ symCur \in -1 .. symSize - 1 /\ symSize # 0
  BY <1>1 DEF TypeOK, NamesKept
<1>3. symCur \in Int /\ symCur >= -1 /\ symSize > 0 /\ symCur < symSize
  BY <1>2
<1>4. pc # "idle" => e \in Names /\ e \in Nat
  BY <1>1, SymbolAssumption DEF NamesKept, SymbolAssumption
<1> QED BY <1>1, <1>2, <1>3, <1>4 DEF TypeOK, Address, Fields, Pointer, Factors

LEMMA Initially == Init => IInv
<1>1. SUFFICES ASSUME Init PROVE IInv
  OBVIOUS
<1>2. /\ data = <<>> /\ bf = <<>> /\ kid = [x \in {Root} |-> [s \in Sides |-> NULL]]
      /\ symTable = [c \in 0 .. InitSize - 1 |-> Junk]
      /\ symCur = -1 /\ symSize = InitSize
      /\ e = Junk /\ cstack = <<>> /\ taller = FALSE /\ pc = "idle" /\ answer = <<>>
  BY <1>1 DEF Init
<1>3. InitSize \in Nat \ {0}
  BY SymbolAssumption DEF SymbolAssumption
<1>4. /\ 0 .. -1 = {} /\ Address = {} /\ Pointer(-1) = {NULL} /\ Fields(-1) = {Root}
  BY <1>2 DEF Address, Pointer, Fields
<1>5. \A R : data \in [{} -> R] /\ bf \in [{} -> R] /\ cstack \in Seq(R)
  BY <1>2
<1>6. kid \in [{Root} -> [Sides -> {NULL}]] /\ kid[Root][LH] = NULL
  BY <1>2, SideFacts
<1>7. TypeOK
  <2>1. symSize \in Nat /\ symCur \in -1 .. symSize - 1
    BY <1>2, <1>3
  <2>2. symTable \in [0 .. symSize - 1 -> Address \cup {Junk}]
    BY <1>2
  <2> QED BY <2>1, <2>2, <1>2, <1>4, <1>5, <1>6 DEF TypeOK
<1>8. NamesKept
  BY <1>2, <1>3, <1>4 DEF NamesKept
<1> DEFINE B == [x \in {NULL} |-> {}]
           h == [x \in {NULL} |-> 0]
<1>9. IsTree(kid, data, -1, B)
  <2>1. B \in [{NULL} -> SUBSET {}] /\ B[NULL] = {}
    OBVIOUS
  <2> HIDE DEF B
  <2>2. OneParent(kid, -1)
    BY <1>4, <1>6 DEF OneParent
  <2>3. data \in [{} -> Nat]
    BY <1>5
  <2> QED BY <2>1, <2>2, <2>3, <1>4, <1>6 DEF IsTree
<1>10. IsPath(kid, data, -1, B, <<>>, e)
  <2>1. \A R : <<>> \in Seq(R) /\ Len(<<>>) = 0
    OBVIOUS
  <2> QED BY <2>1 DEF IsPath
<1>11. TreeInv(kid, data, -1, <<>>, e, "idle", B)
  BY <1>9, <1>10 DEF TreeInv
<1>12. LevelInv(kid, data, bf, -1, <<>>, e, Growing, h)
  BY <1>4 DEF LevelInv, HasHeights
<1>13. BalancedTree(kid, data, bf, symCur, cstack, e, pc, Growing)
  BY <1>2, <1>11, <1>12 DEF BalancedTree
<1> QED BY <1>7, <1>8, <1>13 DEF IInv

LEMMA GetSymbolKeeps ==
  ASSUME IInv, NEW name \in Names, GetSymbol(name)
  PROVE  IInv'
<1>1. /\ pc = "idle" /\ e' = name /\ taller' = FALSE
      /\ IF Full THEN symTable' = IncSym /\ symSize' = 2 * symSize ELSE UNCHANGED array
      /\ pc' = "insert" /\ cstack' = <<Field(Root, LH)>>
      /\ data' = data /\ bf' = bf /\ kid' = kid /\ symCur' = symCur /\ answer' = answer
  BY DEF GetSymbol
<1>2. TypeOK /\ NamesKept
  BY DEF IInv
<1>3. cstack = <<>> /\ Address' = Address /\ \A x \in Address : symTable[x] = x
  BY <1>1, <1>2 DEF NamesKept, Address
<1>4. /\ symSize' \in Nat /\ symSize' # 0 /\ symCur + 1 < symSize'
      /\ symTable' \in [0 .. symSize' - 1 -> Address \cup {Junk}]
      /\ \A x \in Address : symTable'[x] = x
  <2>1. CASE Full
    <3>1. /\ symTable' = [c \in 0 .. 2 * symSize - 1 |-> IF c < symSize THEN symTable[c] ELSE Junk]
          /\ symSize' = 2 * symSize
      BY <1>1, <2>1 DEF IncSym
    <3>2. symSize' \in Nat /\ symSize' # 0 /\ symCur + 1 < symSize'
      BY <3>1, StateFacts
    <3>3. ASSUME NEW c \in 0 .. 2 * symSize - 1
          PROVE  (IF c < symSize THEN symTable[c] ELSE Junk) \in Address \cup {Junk}
      <4>1. c < symSize => c \in 0 .. symSize - 1
        BY StateFacts
      <4> QED BY <4>1, StateFacts
    <3>4. ASSUME NEW x \in Address PROVE symTable'[x] = x
      <4>1. x \in 0 .. 2 * symSize - 1 /\ x < symSize
        BY StateFacts
      <4> QED BY <4>1, <3>1, <1>3
    <3> QED BY <3>1, <3>2, <3>3, <3>4
  <2>2. CASE ~ Full
    <3>1. symTable' = symTable /\ symSize' = symSize
      BY <1>1, <2>2 DEF array
    <3>2. symCur + 1 < symSize
      BY <2>2, StateFacts DEF Full
    <3> QED BY <3>1, <3>2, <1>3, StateFacts
  <2> QED BY <2>1, <2>2
<1>5. BalancedTree(kid, data, bf, symCur, cstack, e, pc, FALSE)
  BY <1>1, StateFacts DEF Growing
<1>6. BalancedTree(kid', data', bf', symCur', cstack', e', pc', FALSE)
  BY <1>1, <1>3, <1>5, StateFacts, CallKeeps
<1>7. symCur' \in -1 .. symSize' - 1
  BY <1>1, <1>4, StateFacts
<1>8. cstack' \in Seq([of : {Root} \cup Address, side : Sides])
  BY <1>1, <1>6, StateFacts, TreeTypes
<1>9. TypeOK'
  BY <1>1, <1>2, <1>3, <1>4, <1>7, <1>8 DEF TypeOK
<1>10. NamesKept'
  BY <1>1, <1>3, <1>4 DEF NamesKept
<1>11. Growing' = FALSE
  BY <1>1 DEF Growing
<1> QED BY <1>6, <1>9, <1>10, <1>11 DEF IInv

LEMMA NewNodeStep ==
  ASSUME IInv, NewNode
  PROVE  IInv'
<1> DEFINE m == symCur + 1
           p == Top.of
           t == Top.side
<1>1. /\ pc = "insert" /\ At(Top) = NULL
      /\ data' = With(data, m, e) /\ bf' = With(bf, m, EH)
      /\ kid' = NewKid(kid, p, t, m)
      /\ symCur' = m /\ symTable' = [symTable EXCEPT ![m] = m]
      /\ taller' = TRUE /\ pc' = "return" /\ cstack' = Popped
      /\ symSize' = symSize /\ e' = e /\ answer' = answer
  BY DEF NewNode, NewKid
<1>2. TypeOK /\ NamesKept /\ e \in Names /\ e \in Nat
  BY <1>1, StateFacts DEF IInv
<1>3. BalancedTree(kid, data, bf, symCur, cstack, e, "insert", FALSE)
  BY <1>1, StateFacts DEF Growing
<1>4. /\ kid \in [Fields(symCur) -> [Sides -> Pointer(symCur)]] /\ cstack # <<>>
      /\ p \in Fields(symCur) /\ t \in Sides
  BY <1>3, StateFacts, TreeTypes DEF Top
<1>5. /\ m \in Int /\ m \in Nat /\ m < symSize /\ 0 .. m = (0 .. symCur) \cup {m} /\ m \notin 0 .. symCur
      /\ m >= -1 /\ m \in 0 .. symSize - 1 /\ m \in -1 .. symSize - 1
  BY <1>1, StateFacts
<1>6. PICK n \in Int : n = symCur /\ n >= -1 /\ m = n + 1
  BY StateFacts
<1>7. PICK g : g = m /\ g \in Int /\ g \in Nat /\ g = n + 1
  BY <1>5, <1>6
<1>8. /\ kid' \in [Fields(g) -> [Sides -> Pointer(g)]]
      /\ kid'[p][t] = g /\ \A u \in Sides : kid'[g][u] = NULL
      /\ \A y \in Fields(n), u \in Sides : ~ (y = p /\ u = t) => kid'[y][u] = kid[y][u]
  <2>1. kid' = NewKid(kid, p, t, g)
    BY <1>1, <1>7
  <2> HIDE DEF p, t
  <2> QED BY <2>1, <1>4, <1>6, <1>7, NewFields
<1>9. data' \in [0 .. g -> Names] /\ data'[g] = e /\ \A y \in 0 .. n : data'[y] = data[y]
  <2>1. /\ data \in [0 .. n -> Names] /\ g \notin 0 .. n /\ 0 .. g = (0 .. n) \cup {g}
        /\ data' = With(data, g, e)
    BY <1>1, <1>5, <1>6, <1>7, StateFacts
  <2>2. Extends(With(data, g, e), 0 .. n, Names, data, g, e)
    BY <2>1, <1>2, WithFacts
  <2> QED BY <2>1, <2>2 DEF Extends
<1>10. bf' \in [0 .. g -> Factors] /\ bf'[g] = EH /\ \A y \in 0 .. n : bf'[y] = bf[y]
  <2>1. bf \in [0 .. n -> Factors] /\ g \notin 0 .. n /\ 0 .. g = (0 .. n) \cup {g} /\ bf' = With(bf, g, EH)
    BY <1>1, <1>5, <1>6, <1>7, StateFacts
  <2>2. EH \in Factors
    BY DEF Factors
  <2>3. Extends(With(bf, g, EH), 0 .. n, Factors, bf, g, EH)
    BY <2>1, <2>2, WithFacts
  <2> QED BY <2>1, <2>3 DEF Extends
<1>11. Adds(n, kid, data, cstack, e, g, kid', data')
  <2>1. data' \in [0 .. g -> Nat]
    BY <1>9, SymbolAssumption DEF SymbolAssumption
  <2>2. p = cstack[Len(cstack)].of /\ t = cstack[Len(cstack)].side
    BY DEF Top
  <2> HIDE DEF p, t
  <2> QED BY <2>1, <2>2, <1>7, <1>8, <1>9 DEF Adds
<1>12. BalancedTree(kid', data', bf', g, Front(cstack), e, "return", TRUE)
  <2>1. bf \in [0 .. n -> Factors] /\ Tip(kid, cstack) = NULL
    BY <1>1, <1>6, StateFacts DEF Tip, At, Top
  <2>2. BalancedTree(kid, data, bf, n, cstack, e, "insert", FALSE)
    BY <1>3, <1>6
  <2> QED BY <2>1, <2>2, <1>2, <1>6, <1>10, <1>11, NewNodeKeeps
<1>13. symCur' = g /\ cstack' = Front(cstack) /\ Address' = 0 .. g
  BY <1>1, <1>7 DEF Popped, Front, Address
<1>14. BalancedTree(kid', data', bf', symCur', cstack', e', pc', Growing')
  BY <1>1, <1>12, <1>13 DEF Growing
<1>15. /\ symTable' \in [0 .. symSize - 1 -> Address' \cup {Junk}]
       /\ \A x \in Address' : symTable'[x] = x
  <2>1. Address' = Address \cup {g} /\ symTable' = [symTable EXCEPT ![g] = g] /\ g \in 0 .. symSize - 1
    BY <1>1, <1>5, <1>7, <1>13, StateFacts
  <2>2. symTable \in [0 .. symSize - 1 -> Address \cup {Junk}] /\ Address \subseteq 0 .. symSize - 1
    BY StateFacts
  <2>3. \A x \in Address : symTable[x] = x
    BY <1>2 DEF NamesKept
  <2> QED BY <2>1, <2>2, <2>3
<1>16. cstack' \in Seq([of : {Root} \cup Address', side : Sides])
  <2>1. Front(cstack) \in Seq([of : Fields(g), side : Sides])
    BY <1>7, <1>12, TreeTypes
  <2> QED BY <2>1, <1>13 DEF Fields
<1>17. TypeOK'
  <2>1. symCur' \in -1 .. symSize' - 1 /\ symSize' \in Nat
    BY <1>1, <1>5, StateFacts
  <2>2. data' \in [Address' -> Names] /\ bf' \in [Address' -> {LH, EH, RH}]
    BY <1>9, <1>10, <1>13 DEF Factors
  <2>3. kid' \in [{Root} \cup Address' -> [Sides -> {NULL} \cup Address']]
    BY <1>8, <1>13 DEF Fields, Pointer
  <2>4. answer' \in {<<>>} \cup (Names \X Address')
    <3>1. Address \subseteq Address'
      BY <1>5, <1>7, <1>13, StateFacts
    <3> QED BY <3>1, <1>1, <1>2 DEF TypeOK
  <2> QED BY <2>1, <2>2, <2>3, <2>4, <1>1, <1>2, <1>15, <1>16 DEF TypeOK
<1>18. NamesKept'
  <2>1. symCur' \in Address' /\ data'[symCur'] = e'
    BY <1>1, <1>5, <1>7, <1>9, <1>13
  <2> QED BY <2>1, <1>1, <1>2, <1>15, StateFacts DEF NamesKept
<1> QED BY <1>14, <1>17, <1>18 DEF IInv

LEMMA FoundKeeps ==
  ASSUME IInv, Found
  PROVE  IInv'
<1>1. /\ pc = "insert" /\ At(Top) # NULL /\ data[At(Top)] = e
      /\ answer' = <<e, At(Top)>> /\ pc' = "idle" /\ cstack' = <<>>
      /\ data' = data /\ bf' = bf /\ kid' = kid /\ symTable' = symTable /\ symSize' = symSize
      /\ symCur' = symCur /\ e' = e /\ taller' = taller
  BY DEF Found, array
<1>2. TypeOK /\ NamesKept /\ e \in Names
  BY <1>1, StateFacts DEF IInv
<1>3. BalancedTree(kid, data, bf, symCur, cstack, e, "insert", FALSE)
  BY <1>1, StateFacts DEF Growing
<1>4. At(Top) \in Address
  <2>1. Tip(kid, cstack) \in Pointer(symCur)
    BY <1>3, StateFacts, TreeTypes
  <2> QED BY <2>1, <1>1, StateFacts DEF Tip, At, Top
<1>5. BalancedTree(kid', data', bf', symCur', <<>>, e', pc', FALSE)
  BY <1>1, <1>3, StateFacts, RestKeeps
<1>6. Address' = Address /\ Growing' = FALSE
  BY <1>1 DEF Address, Growing
<1>7. cstack' \in Seq([of : {Root} \cup Address, side : Sides])
  BY <1>1
<1>8. TypeOK'
  BY <1>1, <1>2, <1>4, <1>6, <1>7 DEF TypeOK
<1>9. NamesKept'
  BY <1>1, <1>2, <1>6 DEF NamesKept
<1> QED BY <1>1, <1>5, <1>6, <1>8, <1>9 DEF IInv

LEMMA RecurseStep ==
  ASSUME IInv, Recurse
  PROVE  IInv'
<1>1. /\ pc = "insert" /\ At(Top) # NULL /\ data[At(Top)] # e
      /\ cstack' = Append(cstack, Field(At(Top), Toward(At(Top))))
      /\ data' = data /\ bf' = bf /\ kid' = kid /\ symTable' = symTable /\ symSize' = symSize
      /\ symCur' = symCur /\ e' = e /\ taller' = taller /\ pc' = pc /\ answer' = answer
  BY DEF Recurse, array
<1>2. TypeOK /\ NamesKept /\ e \in Names /\ e \in Nat
  BY <1>1, StateFacts DEF IInv
<1>3. BalancedTree(kid, data, bf, symCur, cstack, e, "insert", FALSE)
  BY <1>1, StateFacts DEF Growing
<1>4. At(Top) = Tip(kid, cstack) /\ At(Top) \in 0 .. symCur
  <2>1. Tip(kid, cstack) \in Pointer(symCur)
    BY <1>3, StateFacts, TreeTypes
  <2> QED BY <2>1, <1>1, StateFacts DEF Tip, At, Top
<1>5. Toward(At(Top)) = SideOf(e, data[At(Top)])
  BY DEF Toward, SideOf
<1>6. BalancedTree(kid, data, bf, symCur, cstack', e, "insert", FALSE)
  BY <1>1, <1>2, <1>3, <1>4, <1>5, StateFacts, RecurseKeeps
<1>7. Address' = Address /\ Growing' = FALSE
  BY <1>1 DEF Address, Growing
<1>8. cstack' \in Seq([of : {Root} \cup Address, side : Sides])
  BY <1>6, StateFacts, TreeTypes
<1>9. TypeOK'
  BY <1>1, <1>2, <1>7, <1>8 DEF TypeOK
<1>10. NamesKept'
  BY <1>1, <1>2, <1>7 DEF NamesKept
<1> QED BY <1>1, <1>6, <1>7, <1>9, <1>10 DEF IInv

LEMMA InsertedKeeps ==
  ASSUME IInv, Inserted
  PROVE  IInv'
<1>1. /\ pc = "return" /\ cstack = <<>> /\ pc' = "idle" /\ answer' = <<e, symCur>>
      /\ data' = data /\ bf' = bf /\ kid' = kid /\ symTable' = symTable /\ symSize' = symSize
      /\ symCur' = symCur /\ e' = e /\ cstack' = cstack /\ taller' = taller
  BY DEF Inserted, array
<1>2. TypeOK /\ NamesKept /\ e \in Names /\ symCur \in Address
  BY <1>1, StateFacts DEF IInv, NamesKept
<1>3. BalancedTree(kid', data', bf', symCur', <<>>, e', pc', FALSE)
  BY <1>1, StateFacts, RestKeeps
<1>4. Address' = Address /\ Growing' = FALSE
  BY <1>1 DEF Address, Growing
<1>5. TypeOK'
  BY <1>1, <1>2, <1>4 DEF TypeOK
<1>6. NamesKept'
  BY <1>1, <1>2, <1>4 DEF NamesKept
<1> QED BY <1>1, <1>3, <1>4, <1>5, <1>6 DEF IInv

\* What the three returns have in common.
LEMMA ResumeKeeps ==
  ASSUME IInv, Resume, taller' \in BOOLEAN, bf' \in [0 .. symCur -> Factors],
         BalancedTree(kid', data, bf', symCur, Front(cstack), e, "return", taller')
  PROVE  IInv'
<1>1. /\ pc = "return" /\ cstack # <<>> /\ cstack' = Front(cstack)
      /\ data' = data /\ symTable' = symTable /\ symSize' = symSize
      /\ symCur' = symCur /\ e' = e /\ pc' = pc /\ answer' = answer
  BY DEF Resume, array, Popped, Front
<1>2. TypeOK /\ NamesKept
  BY DEF IInv
<1>3. Address' = Address /\ Growing' = taller'
  BY <1>1 DEF Address, Growing
<1>4. /\ kid' \in [Fields(symCur) -> [Sides -> Pointer(symCur)]]
      /\ cstack' \in Seq([of : Fields(symCur), side : Sides])
  BY <1>1, StateFacts, TreeTypes
<1>5. TypeOK'
  <2>1. kid' \in [{Root} \cup Address -> [Sides -> {NULL} \cup Address]]
    BY <1>4, StateFacts
  <2>2. cstack' \in Seq([of : {Root} \cup Address, side : Sides])
    BY <1>4, StateFacts
  <2>3. bf' \in [Address -> {LH, EH, RH}]
    BY StateFacts DEF Factors
  <2> QED BY <2>1, <2>2, <2>3, <1>1, <1>2, <1>3 DEF TypeOK
<1>6. NamesKept'
  BY <1>1, <1>2, <1>3 DEF NamesKept
<1>7. BalancedTree(kid', data', bf', symCur', cstack', e', pc', Growing')
  BY <1>1, <1>3
<1> QED BY <1>5, <1>6, <1>7 DEF IInv

LEMMA AsHighStep ==
  ASSUME IInv, AsHigh
  PROVE  IInv'
<1>1. Resume /\ taller = FALSE /\ bf' = bf /\ kid' = kid /\ taller' = taller
  BY DEF AsHigh, IInv, TypeOK
<1>2. pc = "return" /\ cstack # <<>> /\ Growing = FALSE
  BY <1>1 DEF Resume, Growing
<1>3. BalancedTree(kid, data, bf, symCur, Front(cstack), e, "return", FALSE)
  BY <1>2, StateFacts, AsHighKeeps
<1> QED BY <1>1, <1>3, StateFacts, ResumeKeeps

\* What is known when a subtree has grown.
LEMMA TallerFacts ==
  ASSUME IInv, Resume, taller
  PROVE  /\ BalancedTree(kid, data, bf, symCur, cstack, e, "return", TRUE) /\ e \in Nat /\ cstack # <<>>
         /\ At(Top) = Tip(kid, cstack) /\ At(Top) \in 0 .. symCur
         /\ Toward(At(Top)) = SideOf(e, data[At(Top)]) /\ Toward(At(Top)) \in Sides
<1>1. pc = "return" /\ cstack # <<>> /\ Growing = TRUE
  BY DEF Resume, Growing, IInv, TypeOK
<1>2. BalancedTree(kid, data, bf, symCur, cstack, e, "return", TRUE) /\ e \in Nat
  BY <1>1, StateFacts
<1>3. At(Top) = Tip(kid, cstack)
  BY DEF Tip, At, Top
<1>4. Tip(kid, cstack) \in 0 .. symCur
  BY <1>1, <1>2, StateFacts, TreeTypes
<1>5. Toward(At(Top)) = SideOf(e, data[At(Top)]) /\ Toward(At(Top)) \in Sides
  BY DEF Toward, SideOf, Sides
<1> QED BY <1>1, <1>2, <1>3, <1>4, <1>5

LEMMA LeanStep ==
  ASSUME IInv, Lean
  PROVE  IInv'
<1> DEFINE x == At(Top)
           s == Toward(x)
<1>1. /\ Resume /\ taller /\ bf[x] # s
      /\ bf' = [bf EXCEPT ![x] = @ + s] /\ taller' = (bf[x] = EH) /\ kid' = kid
  BY DEF Lean
<1>2. /\ BalancedTree(kid, data, bf, symCur, cstack, e, "return", TRUE) /\ e \in Nat /\ cstack # <<>>
      /\ x = Tip(kid, cstack) /\ s = SideOf(e, data[x])
  BY <1>1, TallerFacts
<1> HIDE DEF x, s
<1>3. bf' = Leaned(bf, x, s)
  BY <1>1 DEF Leaned
<1>4. symCur \in Int /\ bf \in [0 .. symCur -> Factors]
  BY StateFacts
<1>6. LeanCase(kid, data, bf, cstack, e, x, s, bf', taller')
  BY <1>1, <1>2, <1>3 DEF LeanCase
<1>5. /\ BalancedTree(kid, data, bf', symCur, Front(cstack), e, "return", taller')
      /\ bf' \in [0 .. symCur -> Factors]
  BY <1>2, <1>4, <1>6, LeanKeeps
<1> QED BY <1>1, <1>5, ResumeKeeps

LEMMA RebalanceStep ==
  ASSUME IInv, Rebalance
  PROVE  IInv'
<1> DEFINE x == At(Top)
           s == Toward(x)
           p == Top.of
           t == Top.side
           c == kid[x][s]
<1>1. /\ Resume /\ taller /\ bf[x] = s
      /\ taller' = FALSE /\ kid' = Balance(Top, s).kid /\ bf' = Balance(Top, s).bf
  BY DEF Rebalance
<1>2. /\ BalancedTree(kid, data, bf, symCur, cstack, e, "return", TRUE) /\ e \in Nat /\ cstack # <<>>
      /\ x = Tip(kid, cstack) /\ s = SideOf(e, data[x]) /\ s \in Sides
      /\ p = cstack[Len(cstack)].of /\ t = cstack[Len(cstack)].side
  BY <1>1, TallerFacts DEF Top
<1>3. Balance(Top, s) =
        IF bf[c] = s THEN Balanced(SingleKid(kid, p, t, s), SingleFactors(bf, x, c))
        ELSE IF bf[c] = EH THEN Balanced(kid, bf)
        ELSE Balanced(DoubleKid(kid, p, t, x, s), DoubleFactors(bf, x, s, c, kid[c][-s]))
  <2>1. \A k : Rotate(k, Top, s) = Rotate(k, Field(p, t), s)
    BY DEF Rotate, Field
  <2> HIDE DEF s, p, t
  <2> QED BY <2>1 DEF Balance, SingleKid, SingleFactors, DoubleKid, DoubleFactors
<1>8. symCur \in Int /\ bf \in [0 .. symCur -> Factors] /\ c = kid[x][s]
  BY StateFacts
<1> HIDE DEF x, s, p, t, c
<1>9. RebalanceCase(kid, data, bf, cstack, e, x, s, p, t, c)
  BY <1>1, <1>2, <1>8 DEF RebalanceCase
<1>4. /\ bf[c] \in {s, -s}
      /\ bf[c] = s => Rebalances(kid, data, bf, symCur, cstack, e, SingleKid(kid, p, t, s),
                                 SingleFactors(bf, x, c))
      /\ bf[c] = -s => Rebalances(kid, data, bf, symCur, cstack, e, DoubleKid(kid, p, t, x, s),
                                  DoubleFactors(bf, x, s, c, kid[c][-s]))
  <2>1. RebalancesAll(kid, data, bf, symCur, cstack, e, x, s, p, t, c)
    BY <1>2, <1>8, <1>9, RebalanceKeeps
  <2> QED BY <2>1 DEF RebalancesAll
<1>5. s # EH /\ -s # EH /\ -s # s
  BY <1>2, Numbers, SideFacts
<1>6. Rebalances(kid, data, bf, symCur, cstack, e, kid', bf')
  <2>1. CASE bf[c] = s
    <3>1. kid' = SingleKid(kid, p, t, s) /\ bf' = SingleFactors(bf, x, c)
      BY <1>1, <1>3, <2>1 DEF Balanced
    <3> QED BY <3>1, <2>1, <1>4
  <2>2. CASE bf[c] = -s
    <3>1. kid' = DoubleKid(kid, p, t, x, s) /\ bf' = DoubleFactors(bf, x, s, c, kid[c][-s])
      BY <1>1, <1>3, <1>5, <2>2 DEF Balanced
    <3> QED BY <3>1, <2>2, <1>4
  <2> QED BY <2>1, <2>2, <1>4
<1>7. /\ BalancedTree(kid', data, bf', symCur, Front(cstack), e, "return", FALSE)
      /\ bf' \in [0 .. symCur -> Factors]
  BY <1>6 DEF Rebalances
<1> QED BY <1>1, <1>7, ResumeKeeps

LEMMA StepKeeps ==
  ASSUME IInv, [Next]_vars
  PROVE  IInv'
<1>1. ASSUME NEW name \in Names, GetSymbol(name) PROVE IInv'
  BY <1>1, GetSymbolKeeps
<1>2. CASE NewNode
  BY <1>2, NewNodeStep
<1>3. CASE Found
  BY <1>3, FoundKeeps
<1>4. CASE Recurse
  BY <1>4, RecurseStep
<1>5. CASE AsHigh
  BY <1>5, AsHighStep
<1>6. CASE Lean
  BY <1>6, LeanStep
<1>7. CASE Rebalance
  BY <1>7, RebalanceStep
<1>8. CASE Inserted
  BY <1>8, InsertedKeeps
<1>9. CASE UNCHANGED vars
  <2>1. /\ data' = data /\ bf' = bf /\ kid' = kid /\ symTable' = symTable /\ symSize' = symSize
        /\ symCur' = symCur /\ e' = e /\ cstack' = cstack /\ taller' = taller /\ pc' = pc /\ answer' = answer
    BY <1>9 DEF vars, array
  <2>2. TypeOK /\ NamesKept /\ Address' = Address /\ Growing' = Growing
    BY <2>1 DEF IInv, Address, Growing
  <2>3. TypeOK'
    BY <2>1, <2>2 DEF TypeOK
  <2>4. NamesKept'
    BY <2>1, <2>2 DEF NamesKept
  <2>5. BalancedTree(kid', data', bf', symCur', cstack', e', pc', Growing')
    BY <2>1, <2>2, StateFacts
  <2> QED BY <2>3, <2>4, <2>5 DEF IInv
<1> QED BY <1>1, <1>2, <1>3, <1>4, <1>5, <1>6, <1>7, <1>8, <1>9 DEF Next

----------------------------------------------------------------------------
(* The theorems.                                                           *)

LEMMA Invariant == Spec => []IInv
<1>1. IInv /\ [Next]_vars => IInv'
  BY StepKeeps
<1> QED BY Initially, <1>1, PTL DEF Spec

\* The variables have their types, and the array has room for the next node
\* before insertAVL is called (getSymbol, lines 164 and 165).
THEOREM TypesHold == Spec => []TypeOK
<1>1. IInv => TypeOK
  BY DEF IInv
<1> QED BY Invariant, <1>1, PTL

\* Every node is where its name belongs, and none is lost, in the middle of an
\* insertion too, however many names came before (h_symbol.cc, lines 11-79).
THEOREM SearchTreeHolds == Spec => []SearchTree
<1>1. ASSUME IInv PROVE SearchTree
  <2>1. PICK B, h : /\ TreeInv(kid, data, symCur, cstack, e, pc, B)
                    /\ LevelInv(kid, data, bf, symCur, cstack, e, Growing, h)
    BY <1>1, StateFacts DEF BalancedTree
  <2>2. IsTree(kid, data, symCur, B) /\ HasHeights(symCur, h)
    BY <2>1 DEF TreeInv, LevelInv
  <2>3. symCur \in Int /\ symCur >= -1 /\ Address = 0 .. symCur
    BY <1>1, StateFacts
  <2>4. \A x \in Pointer(symCur) : Nodes(x) = B[x]
    BY <2>2, <2>3, TreeIs
  <2>5. \A x \in Fields(symCur), s \in Sides : Nodes(kid[x][s]) = B[kid[x][s]]
    BY <2>2, <2>3, <2>4, NodeFacts
  <2>6. ASSUME NEW x \in Address
        PROVE  /\ \A y \in Nodes(kid[x][LH]) : data[y] < data[x]
               /\ \A y \in Nodes(kid[x][RH]) : data[y] > data[x]
    <3>1. x \in 0 .. symCur /\ x \in Fields(symCur)
      BY <2>3 DEF Fields
    <3>2. Nodes(kid[x][LH]) = B[kid[x][LH]] /\ Nodes(kid[x][RH]) = B[kid[x][RH]]
      BY <3>1, <2>5, SideFacts
    <3>3. \A s \in Sides : \A y \in B[kid[x][s]] : OnSide(data[y], data[x], s)
      BY <3>1, <2>2 DEF IsTree
    <3> QED BY <3>2, <3>3, SideFacts DEF OnSide
  <2>7. Nodes(kid[Root][LH]) = Address
    <3>1. Root \in Fields(symCur)
      BY DEF Fields
    <3>2. Nodes(kid[Root][LH]) = B[kid[Root][LH]]
      BY <3>1, <2>5, SideFacts
    <3> QED BY <3>2, <2>2, <2>3 DEF IsTree
  <2>8. \A x \in Address : symTable[x] = x
    BY <1>1 DEF IInv, NamesKept
  <2> QED BY <2>6, <2>7, <2>8 DEF SearchTree
<1> QED BY Invariant, <1>1, PTL

\* Between calls the factor of every node is the difference of the heights of its
\* subtrees, and at most one: no insertion leaves a factor wrong for a later one.
THEOREM HeightsBalanced == Spec => []HeightBalanced
<1>1. ASSUME IInv PROVE HeightBalanced
  <2>1. PICK B, h : /\ TreeInv(kid, data, symCur, cstack, e, pc, B)
                    /\ LevelInv(kid, data, bf, symCur, cstack, e, Growing, h)
    BY <1>1, StateFacts DEF BalancedTree
  <2>2. IsTree(kid, data, symCur, B) /\ HasHeights(symCur, h)
    BY <2>1 DEF TreeInv, LevelInv
  <2>3. symCur \in Int /\ symCur >= -1 /\ Address = 0 .. symCur
    BY <1>1, StateFacts
  <2>4. SUFFICES ASSUME pc = "idle", NEW x \in Address
        PROVE  bf[x] = Height(kid[x][LH]) - Height(kid[x][RH]) /\ bf[x] \in {LH, EH, RH}
    BY DEF HeightBalanced
  <2>5. \A y \in Address : LevelAt(kid, bf, h, y)
    BY <2>1, <2>3, <2>4 DEF LevelInv, Growing
  <2>6. \A y \in Address : h[y] = 1 + Higher(h[kid[y][LH]], h[kid[y][RH]])
    BY <2>5 DEF LevelAt, Level
  <2>7. \A y \in Pointer(symCur) : Height(y) = h[y]
    BY <2>2, <2>3, <2>6, TreeIs
  <2>8. kid[x][LH] \in Pointer(symCur) /\ kid[x][RH] \in Pointer(symCur)
    BY <2>2, <2>3, <2>4, NodeFacts, SideFacts
  <2>9. bf[x] = h[kid[x][LH]] - h[kid[x][RH]] /\ bf[x] \in {LH, EH, RH}
    BY <2>4, <2>5 DEF LevelAt, Level
  <2> QED BY <2>7, <2>8, <2>9
<1> QED BY Invariant, <1>1, PTL

----------------------------------------------------------------------------
(* The refinement.                                                         *)

\* f gives every name of the first nodes its index.
IsIds(f, d, r) ==
  /\ f = [n \in DOMAIN f |-> f[n]] /\ DOMAIN f = {d[c] : c \in 0 .. r}
  /\ \A c \in 0 .. r : f[d[c]] = c

LEMMA SameIds ==
  ASSUME NEW d, NEW d2, NEW r, NEW f, NEW f2, IsIds(f, d, r), IsIds(f2, d2, r),
         \A c \in 0 .. r : d2[c] = d[c]
  PROVE  f2 = f
<1>1. DOMAIN f2 = DOMAIN f
  BY DEF IsIds
<1>2. ASSUME NEW n \in DOMAIN f PROVE f2[n] = f[n]
  BY DEF IsIds
<1>3. f = [n \in DOMAIN f |-> f[n]] /\ f2 = [n \in DOMAIN f2 |-> f2[n]]
  BY DEF IsIds
<1> QED BY <1>1, <1>2, <1>3

\* The largest index that was returned.
LastReturned == IF pc = "return" THEN symCur - 1 ELSE symCur

LEMMA IdsAre ==
  ASSUME IInv
  PROVE  /\ IsIds(Ids, data, LastReturned) /\ 0 .. LastReturned \subseteq Address
         /\ \A x, y \in Address : data[x] = data[y] => x = y
<1>1. Returned = 0 .. LastReturned
  BY DEF Returned, LastReturned
<1>2. 0 .. LastReturned \subseteq Address
  BY StateFacts DEF LastReturned
<1>3. \A x, y \in Address : data[x] = data[y] => x = y
  BY StateFacts, TreeTypes
<1>4. ASSUME NEW c \in Returned PROVE NameOf(c) = data[c]
  <2>1. symTable[c] = c /\ c \in Nat
    BY <1>1, <1>2 DEF IInv, NamesKept
  <2>2. c # Junk
    BY <2>1, SymbolAssumption DEF SymbolAssumption
  <2> QED BY <2>1, <2>2 DEF NameOf
<1>5. DOMAIN Ids = {data[c] : c \in Returned}
  BY <1>4 DEF Ids
<1>6. ASSUME NEW c \in Returned PROVE Ids[data[c]] = c
  <2>1. NameOf(c) = data[c] /\ c \in Address
    BY <1>1, <1>2, <1>4
  <2>2. Ids[data[c]] = CHOOSE g \in Returned : NameOf(g) = data[c]
    BY <2>1 DEF Ids
  <2>3. PICK g : g = Ids[data[c]] /\ g \in Returned /\ NameOf(g) = data[c]
    BY <2>1, <2>2
  <2>4. g \in Address /\ data[g] = data[c]
    BY <2>3, <1>1, <1>2, <1>4
  <2> QED BY <2>1, <2>3, <2>4, <1>3
<1>7. Ids = [n \in DOMAIN Ids |-> Ids[n]]
  BY DEF Ids
<1> QED BY <1>1, <1>2, <1>3, <1>5, <1>6, <1>7 DEF IsIds

\* There are as many names as indices.
LEMMA KnownNames ==
  ASSUME NEW r \in Int, r >= -1, NEW d, \A x, y \in 0 .. r : d[x] = d[y] => x = y
  PROVE  Cardinality({d[c] : c \in 0 .. r}) = r + 1
<1> DEFINE f == [c \in 0 .. r |-> d[c]]
           S == {d[c] : c \in 0 .. r}
<1>1. IsFiniteSet(0 .. r) /\ Cardinality(0 .. r) = r + 1
  BY FS_Interval
<1>2. f \in Bijection(0 .. r, S)
  <2>1. f \in [0 .. r -> S] /\ \A c \in 0 .. r : f[c] = d[c]
    OBVIOUS
  <2>2. \A x, y \in 0 .. r : f[x] = f[y] => x = y
    BY <2>1
  <2>3. \A n \in S : \E c \in 0 .. r : f[c] = n
    BY <2>1
  <2> HIDE DEF f, S
  <2> QED BY <2>1, <2>2, <2>3 DEF Bijection, Injection, Surjection, IsInjective
<1>3. Cardinality(S) = Cardinality(0 .. r)
  BY <1>1, <1>2, FS_Bijection DEF ExistsBijection
<1> QED BY <1>1, <1>3

LEMMA IdsAreNext == (IInv => IsIds(Ids, data, LastReturned))'
<1>1. IInv => IsIds(Ids, data, LastReturned)
  BY IdsAre
<1> QED BY <1>1, PTL

\* What an action that returns no index does.
LEMMA NoAnswer ==
  ASSUME IInv, IInv', LastReturned' = LastReturned, \A c \in 0 .. LastReturned : data'[c] = data[c]
  PROVE  Ids' = Ids
<1>1. IsIds(Ids, data, LastReturned)
  BY IdsAre
<1>2. IsIds(Ids', data', LastReturned')
  BY IdsAreNext
<1> QED BY <1>1, <1>2, SameIds

\* It has a name that is known, or gets the next index.
LEMMA FoundInterns ==
  ASSUME IInv, IInv', Found
  PROVE  I!Next
<1> DEFINE x == At(Top)
<1>1. /\ pc = "insert" /\ x # NULL /\ data[x] = e /\ answer' = <<e, x>> /\ pc' = "idle"
      /\ data' = data /\ symCur' = symCur
  BY DEF Found
<1>2. LastReturned = symCur /\ LastReturned' = LastReturned
  BY <1>1 DEF LastReturned
<1>3. Ids' = Ids
  BY <1>1, <1>2, NoAnswer
<1>4. x \in 0 .. symCur
  <2>1. BalancedTree(kid, data, bf, symCur, cstack, e, "insert", Growing)
    BY <1>1, StateFacts
  <2>2. Tip(kid, cstack) \in Pointer(symCur)
    BY <2>1, StateFacts, TreeTypes
  <2> QED BY <2>2, <1>1, StateFacts DEF Tip, At, Top
<1> HIDE DEF x
<1>5. e \in Names /\ IsIds(Ids, data, symCur)
  BY <1>1, <1>2, StateFacts, IdsAre
<1>6. e \in DOMAIN Ids /\ Ids[e] = x /\ Ids = [n \in DOMAIN Ids |-> Ids[n]]
  BY <1>1, <1>4, <1>5 DEF IsIds
<1>7. Ids' = [n \in DOMAIN Ids \cup {e} |->
                IF n \in DOMAIN Ids THEN Ids[n] ELSE Cardinality(DOMAIN Ids)]
  <2>1. DOMAIN Ids \cup {e} = DOMAIN Ids
    BY <1>6
  <2> QED BY <2>1, <1>3, <1>6
<1>8. I!Intern(e)
  BY <1>1, <1>3, <1>6, <1>7 DEF I!Intern, I!Known
<1> QED BY <1>5, <1>8 DEF I!Next

LEMMA InsertedInterns ==
  ASSUME IInv, IInv', Inserted
  PROVE  I!Next
<1>1. /\ pc = "return" /\ answer' = <<e, symCur>> /\ pc' = "idle" /\ data' = data /\ symCur' = symCur
  BY DEF Inserted
<1>2. LastReturned = symCur - 1 /\ LastReturned' = symCur
  BY <1>1 DEF LastReturned
<1>3. /\ symCur \in Int /\ symCur >= 0 /\ data[symCur] = e /\ e \in Names
      /\ \A x, y \in 0 .. symCur : data[x] = data[y] => x = y
  <2>1. symCur \in Address /\ data[symCur] = e /\ e \in Names
    BY <1>1 DEF IInv, NamesKept
  <2> QED BY <2>1, StateFacts, IdsAre
<1>4. PICK r \in Int : r = symCur - 1 /\ symCur = r + 1 /\ r >= -1
  BY <1>3
<1>5. /\ 0 .. symCur = (0 .. r) \cup {symCur} /\ symCur \notin 0 .. r
  BY <1>3, <1>4
<1>6. IsIds(Ids, data, r)
  BY <1>2, <1>4, IdsAre
<1>7. IsIds(Ids', data, symCur)
  BY <1>1, <1>2, IdsAreNext
<1>8. Cardinality(DOMAIN Ids) = symCur
  <2>1. Cardinality({data[c] : c \in 0 .. r}) = r + 1
    BY <1>3, <1>4, <1>5, KnownNames
  <2> QED BY <2>1, <1>4, <1>6 DEF IsIds
<1>9. e \notin DOMAIN Ids
  BY <1>3, <1>5, <1>6 DEF IsIds
<1>10. Ids' = [n \in DOMAIN Ids \cup {e} |->
                IF n \in DOMAIN Ids THEN Ids[n] ELSE Cardinality(DOMAIN Ids)]
  <2>1. DOMAIN Ids' = DOMAIN Ids \cup {e}
    BY <1>3, <1>5, <1>6, <1>7 DEF IsIds
  <2>2. Ids'[e] = symCur
    BY <1>3, <1>5, <1>7 DEF IsIds
  <2>3. ASSUME NEW n \in DOMAIN Ids PROVE Ids'[n] = Ids[n]
    <3>1. PICK c \in 0 .. r : n = data[c]
      BY <2>3, <1>6 DEF IsIds
    <3> QED BY <3>1, <1>5, <1>6, <1>7 DEF IsIds
  <2>4. Ids' = [n \in DOMAIN Ids' |-> Ids'[n]]
    BY <1>7 DEF IsIds
  <2> QED BY <2>1, <2>2, <2>3, <2>4, <1>8, <1>9
<1>11. Ids'[e] = symCur
  BY <1>3, <1>5, <1>7 DEF IsIds
<1>13. \A S : I!Cardinality(S) = Cardinality(S)
  BY DEF I!Cardinality, Cardinality
<1>12. I!Intern(e)
  BY <1>1, <1>10, <1>11, <1>13 DEF I!Intern, I!Known
<1> QED BY <1>3, <1>12 DEF I!Next

LEMMA StepInterns ==
  ASSUME IInv, IInv', [Next]_vars
  PROVE  [I!Next]_I!vars
<1>1. ASSUME Ids' = Ids, answer' = answer PROVE [I!Next]_I!vars
  BY <1>1 DEF I!vars
<1>2. ASSUME data' = data, symCur' = symCur, answer' = answer, LastReturned' = LastReturned
      PROVE  [I!Next]_I!vars
  BY <1>1, <1>2, NoAnswer
<1>3. ASSUME NEW name \in Names, GetSymbol(name) PROVE [I!Next]_I!vars
  <2>1. data' = data /\ symCur' = symCur /\ answer' = answer /\ pc = "idle" /\ pc' = "insert"
    BY <1>3 DEF GetSymbol
  <2>2. LastReturned' = LastReturned
    BY <2>1 DEF LastReturned
  <2> QED BY <2>1, <2>2, <1>2
<1>4. CASE NewNode
  <2>1. /\ data' = With(data, symCur + 1, e) /\ symCur' = symCur + 1
        /\ answer' = answer /\ pc = "insert" /\ pc' = "return"
    BY <1>4 DEF NewNode
  <2>2. LastReturned = symCur /\ LastReturned' = LastReturned
    BY <2>1, StateFacts DEF LastReturned
  <2>3. \A c \in 0 .. symCur : data'[c] = data[c]
    <3>1. \A c \in 0 .. symCur : c # symCur + 1
      BY StateFacts
    <3>2. DOMAIN data = 0 .. symCur
      BY StateFacts
    <3> QED BY <2>1, <3>1, <3>2 DEF With
  <2> QED BY <2>1, <2>2, <2>3, <1>1, NoAnswer
<1>5. CASE Found
  BY <1>5, FoundInterns
<1>6. CASE Recurse
  <2>1. data' = data /\ symCur' = symCur /\ answer' = answer /\ pc' = pc
    BY <1>6 DEF Recurse
  <2> QED BY <2>1, <1>2 DEF LastReturned
<1>7. CASE Resume
  <2>1. data' = data /\ symCur' = symCur /\ answer' = answer /\ pc' = pc
    BY <1>7 DEF Resume
  <2> QED BY <2>1, <1>2 DEF LastReturned
<1>8. CASE Inserted
  BY <1>8, InsertedInterns
<1>9. CASE UNCHANGED vars
  <2>1. data' = data /\ symCur' = symCur /\ answer' = answer /\ pc' = pc
    BY <1>9 DEF vars
  <2> QED BY <2>1, <1>2 DEF LastReturned
<1> QED BY <1>3, <1>4, <1>5, <1>6, <1>7, <1>8, <1>9 DEF Next, AsHigh, Lean, Rebalance

\* getSymbol interns: a name has one index, from its first request on, and the
\* indices are given in turn, whatever the tree does meanwhile.
THEOREM Implements == Spec => ImplementsInterning
<1>1. Init => I!Init
  <2>1. SUFFICES ASSUME Init PROVE I!Init
    OBVIOUS
  <2>2. Returned = {} /\ answer = <<>>
    BY <2>1 DEF Init, Returned
  <2>3. Ids = <<>>
    BY <2>2 DEF Ids
  <2> QED BY <2>2, <2>3 DEF I!Init
<1>2. IInv /\ IInv' /\ [Next]_vars => [I!Next]_I!vars
  BY StepInterns
<1> QED BY Invariant, <1>1, <1>2, PTL DEF Spec, I!Spec, ImplementsInterning
=============================================================================
