--------------------------- MODULE Builtins_proofs ---------------------------
(***************************************************************************)
(* Theorems about the builtins, in the order of the modules they are about.*)
(*                                                                         *)
(* @join_index of two vectors, for every hash function, any number of      *)
(* partitions, every size of cells and nodes, and all operands: the table  *)
(* lists every row once where the probe looks, the second pass fills what  *)
(* the first one asked for, and the pairs returned are those that match.   *)
(*                                                                         *)
(* The searches and the hash heap, for every heap size, every hash         *)
(* function and all operands, whatever calls came before: types, a clear   *)
(* heap beyond the top, chains that end, and the results of @index_of,     *)
(* @unique and @member.                                                    *)
(*                                                                         *)
(* @order and @group among those calls, by the theorems of Ordering_proofs.*)
(***************************************************************************)
EXTENDS Builtins, Ordering_proofs

----------------------------------------------------------------------------
(* The inductive invariant.                                                *)

\* The rows of x that the join pairs with row q of y, and the pairs of the
\* first k rows of y, or of all.
IsLinear == Len(x) < NUM_JOIN_LINEAR
Partners(q) == IF IsLinear THEN Hits(q) ELSE {r \in DOMAIN x : x[r] = y[q]}
PairsUpTo(k) == {p \in (DOMAIN x) \X (1 .. k) : p[1] \in Partners(p[2])}
AllPairs == {p \in (DOMAIN x) \X (DOMAIN y) : p[1] \in Partners(p[2])}

\* A list of rows is a set of rows in increasing order.
Lists(rows, S) ==
  /\ rows \in Seq(Nat) /\ {rows[k] : k \in DOMAIN rows} = S
  /\ \A k, l \in DOMAIN rows : k < l => rows[k] < rows[l]

\* The chain at an address lists the rows 1 .. k that have this address.
NodeType == [key : Keys, rows : Seq(Nat)]
ChainCells(chain) ==
  {a \in (1 .. Len(chain)) \X (1 .. PRE_SIZE_CELL) : a[2] <= Len(chain[a[1]])}
NodeIn(chain, a) == chain[a[1]][a[2]]
IsChain(chain) ==
  chain \in Seq(Seq(NodeType)) /\ \A l \in DOMAIN chain : Len(chain[l]) <= PRE_SIZE_CELL
KeysDiffer(chain) ==
  \A a, b \in ChainCells(chain) : NodeIn(chain, a).key = NodeIn(chain, b).key => a = b
NodesList(at, chain, k) ==
  \A a \in ChainCells(chain) :
    /\ Address(NodeIn(chain, a).key) = at
    /\ Lists(NodeIn(chain, a).rows, {r \in 1 .. k : x[r] = NodeIn(chain, a).key})
RowsHaveNodes(at, chain, k) ==
  \A r \in 1 .. k : Address(x[r]) = at =>
    \E a \in ChainCells(chain) : NodeIn(chain, a).key = x[r]
Holds(at, chain, k) ==
  /\ IsChain(chain) /\ KeysDiffer(chain)
  /\ NodesList(at, chain, k) /\ RowsHaveNodes(at, chain, k)

TableHolds(k) ==
  \E chains \in {table} :
    /\ chains = [at \in Addresses |-> chains[at]]
    /\ \A at \in Addresses : Holds(at, chains[at], k)
TableComplete == \E n \in {Len(x)} : TableHolds(n)

\* What the probe found for row q of y.
FoundType == {None} \cup (Addresses \X (Nat \X Nat))
FoundRows(q) == IF tempHN[q] = None THEN <<>> ELSE RowsAt(tempHN[q][1], tempHN[q][2])
ProbeFinds ==
  tempHN \in Seq(FoundType) /\ \A q \in DOMAIN tempHN : Lists(FoundRows(q), Partners(q))

\* The cells before d hold the pairs of the first k rows.
Written(s, d, k) ==
  /\ s \in [1 .. lenZ -> AllPairs \cup {None}]
  /\ d = Cardinality(PairsUpTo(k)) + 1
  /\ {s[l] : l \in 1 .. d - 1} = PairsUpTo(k)

Turned(S) == {IF Swapped THEN <<p[2], p[1]>> ELSE p : p \in S}

\* The state after k rows, with the result s and its next cell d.
JoinState(k, s, d) ==
  /\ phase = "build" => k \in 0 .. Len(x) /\ TableHolds(k)
  /\ phase \in {"probe", "write", "linear calc", "linear save"} => k \in 0 .. Len(y)
  /\ phase = "probe" => Len(tempHN) = k
  /\ phase \in {"probe", "linear calc"} => d = 1 /\ lenZ = Cardinality(PairsUpTo(k))
  /\ phase \in {"write", "linear save"} => Written(s, d, k)
StateHolds == \E k \in {i - 1}, s \in {z}, d \in {c} : JoinState(k, s, d)

JoinInv ==
  /\ left \in Seq(Keys) /\ right \in Seq(Keys) /\ isEq \in BOOLEAN /\ i \in Nat \ {0}
  /\ phase \in {"dispatch", "linear calc", "linear save", "build", "probe", "write",
                "returned", "TODO", "Not enough slots"}
  /\ phase \in {"build", "probe", "write"} => isEq /\ ~ IsLinear
  /\ phase \in {"linear calc", "linear save"} => IsLinear
  /\ phase = "returned" => isEq \/ IsLinear
  /\ phase = "dispatch" => i = 1
  /\ phase \in {"dispatch", "build"} => tempHN = <<>> /\ lenZ = 0 /\ c = 1
  /\ phase \in {"probe", "write"} => TableComplete /\ ProbeFinds
  /\ phase = "write" => Len(tempHN) = Len(y)
  /\ phase \in {"write", "linear save", "returned"} => lenZ = Cardinality(AllPairs)
  /\ StateHolds
  /\ phase = "returned" =>
       /\ c = lenZ + 1 /\ DOMAIN z = 1 .. lenZ
       /\ {z[k] : k \in DOMAIN z} = Turned(AllPairs)

----------------------------------------------------------------------------
(* The size of a table.                                                    *)

LEMMA MinTableType == MinTable \in Nat /\ MinTable > 0
BY HashTablesAssumption DEF HashTablesAssumption

\* The doublings of MinTable exist ...
LEMMA DoublingsExist ==
  ASSUME NEW n \in Nat
  PROVE  \E h : h = [k \in 0 .. n |-> IF k = 0 THEN MinTable ELSE 2 * h[k - 1]]
<1> DEFINE Works(m) == \E h : h = [k \in 0 .. m |-> IF k = 0 THEN MinTable ELSE 2 * h[k - 1]]
           T == {m \in Nat : ~ Works(m)}
<1>1. SUFFICES ASSUME T # {} PROVE FALSE
  OBVIOUS
<1>2. PICK m \in T : \A l \in T : m <= l
  BY <1>1, LeastNatural, T \subseteq Nat
<1>3. m \in Nat /\ ~ Works(m)
  BY <1>2
<1>4. CASE m = 0
  <2> DEFINE h == [k \in 0 .. 0 |-> MinTable]
  <2>1. h = [k \in 0 .. 0 |-> IF k = 0 THEN MinTable ELSE 2 * h[k - 1]]
    OBVIOUS
  <2>2. Works(0)
    BY <2>1
  <2> QED BY <2>2, <1>3, <1>4
<1>5. CASE m # 0
  <2>1. m - 1 \in Nat /\ m - 1 \notin T
    <3> HIDE DEF T
    <3> QED BY <1>2, <1>3, <1>5
  <2>2. Works(m - 1)
    BY <2>1
  <2>3. PICK h : h = [k \in 0 .. m - 1 |-> IF k = 0 THEN MinTable ELSE 2 * h[k - 1]]
    BY <2>2
  <2> DEFINE g == [k \in 0 .. m |-> IF k = m THEN 2 * h[m - 1] ELSE h[k]]
  <2>4. \A k \in 0 .. m : g[k] = IF k = 0 THEN MinTable ELSE 2 * g[k - 1]
    <3> SUFFICES ASSUME NEW k \in 0 .. m
                 PROVE  g[k] = IF k = 0 THEN MinTable ELSE 2 * g[k - 1]
      OBVIOUS
    <3>1. CASE k = m
      BY <3>1, <2>1, <1>3, <1>5
    <3>2. CASE k # m
      <4>1. k \in 0 .. m - 1 /\ (k # 0 => k - 1 \in 0 .. m - 1 /\ k - 1 # m /\ k - 1 \in 0 .. m)
        BY <3>2, <1>3
      <4>2. h[k] = IF k = 0 THEN MinTable ELSE 2 * h[k - 1]
        BY <4>1, <2>3
      <4> QED BY <4>1, <4>2, <3>2
    <3> QED BY <3>1, <3>2
  <2>5. g = [k \in 0 .. m |-> IF k = 0 THEN MinTable ELSE 2 * g[k - 1]]
    BY <2>4
  <2> HIDE DEF g
  <2>6. Works(m)
    BY <2>5
  <2> QED BY <2>6, <1>3
<1> QED BY <1>4, <1>5

\* ... and grow beyond every bound.
LEMMA DoublingsGrow ==
  ASSUME NEW n \in Nat, NEW h,
         h = [k \in 0 .. n |-> IF k = 0 THEN MinTable ELSE 2 * h[k - 1]]
  PROVE  \A k \in 0 .. n : h[k] \in Nat /\ h[k] > k
<1> DEFINE Wrong(k) == ~ (h[k] \in Nat /\ h[k] > k)
           T == {k \in 0 .. n : Wrong(k)}
<1>1. SUFFICES ASSUME T # {} PROVE FALSE
  OBVIOUS
<1>0. T \subseteq Nat
  <2> HIDE DEF Wrong
  <2> QED OBVIOUS
<1>2. PICK m \in T : \A l \in T : m <= l
  BY <1>1, <1>0, LeastNatural
<1>3. m \in 0 .. n /\ ~ (h[m] \in Nat /\ h[m] > m)
  BY <1>2
<1>4. h[m] = IF m = 0 THEN MinTable ELSE 2 * h[m - 1]
  BY <1>3
<1>5. CASE m = 0
  BY <1>3, <1>4, <1>5, MinTableType
<1>6. CASE m # 0
  <2>1. m - 1 \in 0 .. n /\ m - 1 \notin T
    <3> HIDE DEF T
    <3> QED BY <1>2, <1>3, <1>6
  <2>2. h[m - 1] \in Nat /\ h[m - 1] > m - 1
    BY <2>1
  <2>3. PICK d \in Nat : d = h[m - 1] /\ d > m - 1
    BY <2>2
  <2>4. h[m] = 2 * d
    BY <1>4, <1>6, <2>3
  <2>5. h[m] \in Nat /\ h[m] > m
    <3> HIDE DEF T
    <3> QED BY <2>3, <2>4, <1>3, <1>6
  <2> QED BY <2>5, <1>3
<1> QED BY <1>5, <1>6

\* A table has at least one chain.
LEMMA TableSizePositive ==
  ASSUME NEW n \in Nat
  PROVE  TableSize(n) \in Nat \ {0}
<1> DEFINE h == CHOOSE g : g = [k \in 0 .. n |-> IF k = 0 THEN MinTable ELSE 2 * g[k - 1]]
           P(k) == h[k] > n /\ \A l \in 0 .. k - 1 : h[l] <= n
           T == {k \in 0 .. n : h[k] > n}
<1>1. h = [k \in 0 .. n |-> IF k = 0 THEN MinTable ELSE 2 * h[k - 1]]
  BY DoublingsExist
<1> HIDE DEF h
<1>2. \A k \in 0 .. n : h[k] \in Nat /\ h[k] > k
  BY <1>1, DoublingsGrow
<1>3. n \in T
  BY <1>2
<1>4. PICK k \in T : \A l \in T : k <= l
  BY <1>3, LeastNatural, T \subseteq Nat
<1>5. \A l \in 0 .. k - 1 : h[l] <= n
  <2> TAKE l \in 0 .. k - 1
  <2>1. l \in 0 .. n /\ l \notin T
    <3>1. k \in 0 .. n
      BY <1>4
    <3> HIDE DEF T
    <3> QED BY <3>1, <1>4
  <2> QED BY <2>1, <1>2
<1>6. P(k) /\ k \in 0 .. n
  BY <1>4, <1>5
<1> HIDE DEF P
<1>7. (CHOOSE l \in 0 .. n : P(l)) \in 0 .. n /\ P(CHOOSE l \in 0 .. n : P(l))
  BY <1>6
<1>8. h[CHOOSE l \in 0 .. n : P(l)] \in Nat /\ h[CHOOSE l \in 0 .. n : P(l)] > 0
  BY <1>2, <1>7
<1>9. TableSize(n) = IF n < MinTable THEN MinTable ELSE 2 * h[CHOOSE l \in 0 .. n : P(l)]
  BY DEF TableSize, h, P
<1> DEFINE d == h[CHOOSE l \in 0 .. n : P(l)]
<1> HIDE DEF d
<1>10. d \in Nat /\ d > 0 /\ TableSize(n) = IF n < MinTable THEN MinTable ELSE 2 * d
  BY <1>8, <1>9 DEF d
<1> QED BY <1>10, MinTableType

----------------------------------------------------------------------------
(* The table.                                                              *)

LEMMA JoinConstants ==
  /\ Keys \subseteq Nat /\ Hash \in [Keys -> Nat] /\ setT \in Nat /\ setT > 0
  /\ PRE_SIZE_CELL \in Nat /\ PRE_SIZE_CELL > 0 /\ SLOT_SIZE \in Nat /\ NUM_JOIN_LINEAR \in Nat
BY JoinAssumption DEF JoinAssumption

LEMMA SequenceParts ==
  ASSUME NEW S, NEW s \in Seq(S)
  PROVE  Len(s) \in Nat /\ DOMAIN s = 1 .. Len(s) /\ \A k \in 1 .. Len(s) : s[k] \in S
OBVIOUS

LEMMA AppendedParts ==
  ASSUME NEW S, NEW s \in Seq(S), NEW e \in S, NEW n, n = Len(s) + 1
  PROVE  /\ Append(s, e) \in Seq(S) /\ Len(Append(s, e)) = n
         /\ Append(s, e)[n] = e /\ \A k \in 1 .. Len(s) : Append(s, e)[k] = s[k]
OBVIOUS

Vectorial == left \in Seq(Keys) /\ right \in Seq(Keys)

LEMMA OperandTypes ==
  ASSUME Vectorial
  PROVE  /\ x \in Seq(Keys) /\ Len(x) \in Nat /\ DOMAIN x = 1 .. Len(x)
         /\ y \in Seq(Keys) /\ Len(y) \in Nat /\ DOMAIN y = 1 .. Len(y)
BY DEF Vectorial, x, y, Swapped

\* A partition with rows has chains.
LEMMA ChainsPositive ==
  ASSUME Vectorial, NEW p, RowsOf(p) # {}
  PROVE  Chains(p) \in Nat /\ Chains(p) > 0
<1>1. RowsOf(p) \in SUBSET (1 .. Len(x)) /\ Len(x) \in Nat
  BY OperandTypes DEF RowsOf
<1>2. IsFiniteSet(1 .. Len(x))
  BY <1>1, FS_Interval
<1>3. Cardinality(RowsOf(p)) \in Nat
  BY <1>1, <1>2, FS_Subset, FS_CardinalityType
<1> QED BY <1>3, TableSizePositive DEF Chains

LEMMA ChainsType ==
  ASSUME Vectorial, NEW p
  PROVE  Chains(p) \in Nat
<1>1. CASE RowsOf(p) = {}
  BY <1>1 DEF Chains
<1>2. CASE RowsOf(p) # {}
  BY <1>2, ChainsPositive
<1> QED BY <1>1, <1>2

LEMMA AddressType ==
  ASSUME Vectorial, NEW key \in Keys, Chains(Partition(key)) # 0
  PROVE  Address(key) \in Addresses
<1>1. PICK p : p = Partition(key)
  OBVIOUS
<1>2. key \in Nat /\ setT \in Nat /\ setT > 0
  BY JoinConstants
<1>3. p \in 0 .. setT - 1
  BY <1>1, <1>2 DEF Partition
<1>4. PICK n : n = Chains(p)
  OBVIOUS
<1>5. n \in Nat /\ n > 0
  BY <1>1, <1>4, ChainsType
<1>6. PICK h : h = Hash[key] /\ h \in Nat
  BY JoinConstants
<1>7. h % n \in 0 .. n - 1
  BY <1>5, <1>6
<1>8. Address(key) = <<p, h % n>>
  BY <1>1, <1>4, <1>6 DEF Address
<1>9. Address(key) \in {p} \X (0 .. Chains(p) - 1)
  BY <1>4, <1>7, <1>8
<1> QED BY <1>3, <1>9 DEF Addresses

LEMMA AddressOfRow ==
  ASSUME Vectorial, NEW r \in DOMAIN x
  PROVE  x[r] \in Keys /\ Address(x[r]) \in Addresses /\ Chains(Partition(x[r])) # 0
<1>1. x[r] \in Keys
  BY OperandTypes
<1>2. r \in RowsOf(Partition(x[r]))
  BY DEF RowsOf
<1>3. Chains(Partition(x[r])) > 0
  BY <1>2, ChainsPositive
<1> QED BY <1>1, <1>3, AddressType

LEMMA EmptyChainHolds ==
  ASSUME NEW at
  PROVE  Holds(at, <<>>, 0)
<1>1. ChainCells(<<>>) = {}
  BY DEF ChainCells
<1> QED BY <1>1 DEF Holds, IsChain, KeysDiffer, NodesList, RowsHaveNodes

\* What WithNode does to a chain.
LEMMA NodeAdded ==
  ASSUME NEW chain, IsChain(chain), NEW node \in NodeType, NEW longer, longer = WithNode(chain, node)
  PROVE  /\ IsChain(longer)
         /\ \E p : /\ p \notin ChainCells(chain) /\ ChainCells(longer) = ChainCells(chain) \cup {p}
                   /\ NodeIn(longer, p) = node
                   /\ \A a \in ChainCells(chain) : NodeIn(longer, a) = NodeIn(chain, a)
<1> DEFINE N == Seq(NodeType)
<1>1. chain \in Seq(N) /\ \A l \in DOMAIN chain : Len(chain[l]) <= PRE_SIZE_CELL
  BY DEF IsChain
<1>2. PICK n : n = Len(chain)
  OBVIOUS
<1>3. n \in Nat /\ DOMAIN chain = 1 .. n /\ \A l \in 1 .. n : chain[l] \in N
  BY <1>1, <1>2, SequenceParts
<1>4. PRE_SIZE_CELL \in Nat /\ PRE_SIZE_CELL > 0
  BY JoinConstants
<1>5. CASE chain # <<>> /\ Len(chain[n]) < PRE_SIZE_CELL
  <2>1. n \in 1 .. n
    BY <1>1, <1>2, <1>3, <1>5
  <2>2. PICK cell : cell = chain[n]
    OBVIOUS
  <2>3. PICK m : m = Len(cell)
    OBVIOUS
  <2>4. /\ cell \in N /\ m \in Nat /\ DOMAIN cell = 1 .. m
    BY <1>3, <2>1, <2>2, <2>3
  <2>5. PICK long : long = Append(cell, node)
    OBVIOUS
  <2>6. /\ long \in N /\ Len(long) = m + 1 /\ long[m + 1] = node
        /\ \A k \in 1 .. m : long[k] = cell[k]
    BY <2>3, <2>4, <2>5, AppendedParts
  <2>7. longer = [chain EXCEPT ![n] = long]
    BY <1>2, <1>5, <2>2, <2>5 DEF WithNode
  <2> HIDE DEF N
  <2>8. longer \in Seq(N) /\ Len(longer) = n /\ longer[n] = long
        /\ \A l \in 1 .. n : l # n => longer[l] = chain[l]
    BY <1>1, <1>2, <1>3, <2>1, <2>6, <2>7
  <2>9. \A l \in 1 .. n : Len(longer[l]) <= PRE_SIZE_CELL
    BY <1>1, <1>3, <1>4, <1>5, <2>2, <2>3, <2>4, <2>6, <2>8
  <2>10. IsChain(longer)
    BY <2>8, <2>9 DEF IsChain, N
  <2> DEFINE p == <<n, m + 1>>
  <2>11. /\ p \notin ChainCells(chain) /\ p \in ChainCells(longer)
    BY <1>2, <1>4, <1>5, <2>1, <2>2, <2>3, <2>4, <2>6, <2>8 DEF ChainCells
  <2>12. \A a \in ChainCells(chain) : a \in ChainCells(longer)
    BY <1>2, <1>3, <2>2, <2>3, <2>4, <2>6, <2>8 DEF ChainCells
  <2>13. \A a \in ChainCells(longer) : a \in ChainCells(chain) \/ a = p
    <3> TAKE a \in ChainCells(longer)
    <3>1. PICK l \in 1 .. n, k \in 1 .. PRE_SIZE_CELL : a = <<l, k>> /\ k <= Len(longer[l])
      BY <2>8 DEF ChainCells
    <3>2. CASE l = n
      BY <1>2, <2>2, <2>3, <2>4, <2>6, <2>8, <3>1, <3>2 DEF ChainCells
    <3>3. CASE l # n
      BY <1>2, <2>8, <3>1, <3>3 DEF ChainCells
    <3> QED BY <3>2, <3>3
  <2>14. NodeIn(longer, p) = node
    BY <2>6, <2>8 DEF NodeIn
  <2>15. \A a \in ChainCells(chain) : NodeIn(longer, a) = NodeIn(chain, a)
    <3> TAKE a \in ChainCells(chain)
    <3>1. PICK l \in 1 .. n, k \in 1 .. PRE_SIZE_CELL : a = <<l, k>> /\ k <= Len(chain[l])
      BY <1>2 DEF ChainCells
    <3>2. CASE l = n
      BY <2>2, <2>3, <2>4, <2>6, <2>8, <3>1, <3>2 DEF NodeIn
    <3>3. CASE l # n
      BY <2>8, <3>1, <3>3 DEF NodeIn
    <3> QED BY <3>2, <3>3
  <2> QED BY <2>10, <2>11, <2>12, <2>13, <2>14, <2>15
<1>6. CASE ~ (chain # <<>> /\ Len(chain[n]) < PRE_SIZE_CELL)
  <2>1. PICK cell : cell = <<node>>
    OBVIOUS
  <2>2. cell \in N /\ Len(cell) = 1 /\ cell[1] = node
    BY <2>1
  <2>3. longer = Append(chain, cell)
    BY <1>2, <1>6, <2>1 DEF WithNode
  <2>4. PICK m : m = n + 1
    OBVIOUS
  <2> HIDE DEF N
  <2>5. /\ longer \in Seq(N) /\ Len(longer) = m /\ longer[m] = cell
        /\ \A l \in 1 .. n : longer[l] = chain[l]
    BY <1>1, <1>2, <2>2, <2>3, <2>4, AppendedParts
  <2>6. m \in Nat /\ \A l \in 1 .. m : l = m \/ l \in 1 .. n
    BY <1>3, <2>4
  <2>7. DOMAIN longer = 1 .. m /\ m \in 1 .. m /\ \A l \in 1 .. n : l \in 1 .. m /\ l # m
    BY <1>3, <2>4, <2>5
  <2>0. Len(longer[m]) = 1 /\ 1 <= PRE_SIZE_CELL /\ 1 \in 1 .. PRE_SIZE_CELL
    <3>1. Len(longer[m]) = 1
      BY <2>2, <2>5
    <3>2. 1 <= PRE_SIZE_CELL /\ 1 \in 1 .. PRE_SIZE_CELL
      BY <1>4
    <3> QED BY <3>1, <3>2
  <2>8. IsChain(longer)
    <3>1. \A l \in 1 .. m : Len(longer[l]) <= PRE_SIZE_CELL
      <4> TAKE l \in 1 .. m
      <4>1. CASE l = m
        BY <2>0, <4>1
      <4>2. CASE l \in 1 .. n
        BY <1>1, <1>3, <2>5, <4>2
      <4> QED BY <2>6, <4>1, <4>2
    <3> QED BY <2>5, <2>7, <3>1 DEF IsChain, N
  <2> DEFINE p == <<m, 1>>
  <2>9. p \notin ChainCells(chain) /\ p \in ChainCells(longer)
    <3>1. m \notin 1 .. n /\ 1 <= Len(longer[m])
      BY <2>7, <2>0
    <3> QED BY <1>2, <2>5, <2>7, <2>0, <3>1 DEF ChainCells
  <2>10. \A a \in ChainCells(chain) : a \in ChainCells(longer)
    BY <1>2, <2>5, <2>7 DEF ChainCells
  <2>11. \A a \in ChainCells(longer) : a \in ChainCells(chain) \/ a = p
    <3> TAKE a \in ChainCells(longer)
    <3>1. PICK l \in 1 .. m, k \in 1 .. PRE_SIZE_CELL : a = <<l, k>> /\ k <= Len(longer[l])
      BY <2>5 DEF ChainCells
    <3>2. CASE l = m
      <4>1. k <= 1
        BY <2>2, <2>5, <3>1, <3>2
      <4>2. k = 1
        BY <1>4, <3>1, <4>1
      <4> QED BY <3>1, <3>2, <4>2
    <3>3. CASE l # m
      BY <1>2, <2>5, <2>6, <3>1, <3>3 DEF ChainCells
    <3> QED BY <3>2, <3>3
  <2>12. NodeIn(longer, p) = node
    BY <2>2, <2>5 DEF NodeIn
  <2>13. \A a \in ChainCells(chain) : NodeIn(longer, a) = NodeIn(chain, a)
    BY <1>2, <2>5 DEF ChainCells, NodeIn
  <2> QED BY <2>8, <2>9, <2>10, <2>11, <2>12, <2>13
<1> QED BY <1>5, <1>6

\* What a row more in one node does to a chain.
PutNode(chain, a, node) == [chain EXCEPT ![a[1]] = [chain[a[1]] EXCEPT ![a[2]] = node]]
WithRow(chain, a, r) ==
  PutNode(chain, a, [NodeIn(chain, a) EXCEPT !.rows = Append(NodeIn(chain, a).rows, r)])

LEMMA NodeChanged ==
  ASSUME NEW chain, IsChain(chain), NEW a \in ChainCells(chain), NEW node \in NodeType, NEW changed,
         changed = PutNode(chain, a, node)
  PROVE  /\ IsChain(changed) /\ ChainCells(changed) = ChainCells(chain)
         /\ NodeIn(changed, a) = node
         /\ \A b \in ChainCells(chain) : b # a => NodeIn(changed, b) = NodeIn(chain, b)
<1> DEFINE N == Seq(NodeType)
<1>1. chain \in Seq(N) /\ \A l \in DOMAIN chain : Len(chain[l]) <= PRE_SIZE_CELL
  BY DEF IsChain
<1>2. PICK n : n = Len(chain)
  OBVIOUS
<1>3. n \in Nat /\ DOMAIN chain = 1 .. n /\ \A l \in 1 .. n : chain[l] \in N
  BY <1>1, <1>2, SequenceParts
<1>4. PICK l \in 1 .. n, k \in 1 .. PRE_SIZE_CELL : a = <<l, k>> /\ k <= Len(chain[l])
  BY <1>2 DEF ChainCells
<1>5. PICK cell : cell = chain[l]
  OBVIOUS
<1>6. PICK m : m = Len(cell)
  OBVIOUS
<1>7. cell \in Seq(NodeType) /\ m \in Nat /\ DOMAIN cell = 1 .. m /\ k \in 1 .. m
  BY <1>3, <1>4, <1>5, <1>6, JoinConstants
<1>8. PICK new : new = [cell EXCEPT ![k] = node]
  OBVIOUS
<1>9. /\ new \in Seq(NodeType) /\ Len(new) = m /\ new[k] = node
      /\ \A j \in 1 .. m : j # k => new[j] = cell[j]
  BY <1>6, <1>7, <1>8
<1>10. changed = [chain EXCEPT ![l] = new]
  BY <1>4, <1>5, <1>8 DEF PutNode
<1>11. new \in N
  BY <1>9
<1> HIDE DEF N
<1>12. /\ changed \in Seq(N) /\ Len(changed) = n /\ changed[l] = new
       /\ \A j \in 1 .. n : j # l => changed[j] = chain[j]
  <2>1. chain \in [1 .. n -> N]
    BY <1>1, <1>2
  <2>2. changed \in [1 .. n -> N] /\ changed[l] = new /\ \A j \in 1 .. n : j # l => changed[j] = chain[j]
    BY <1>10, <1>11, <2>1
  <2>3. changed \in Seq(N) /\ Len(changed) = n
    BY <1>3, <2>2
  <2> QED BY <2>2, <2>3
<1>13. \A j \in 1 .. n : Len(changed[j]) = Len(chain[j])
  BY <1>5, <1>6, <1>9, <1>12
<1>14. IsChain(changed)
  BY <1>1, <1>3, <1>12, <1>13 DEF IsChain, N
<1>15. ChainCells(changed) = ChainCells(chain)
  BY <1>2, <1>12, <1>13 DEF ChainCells
<1>16. NodeIn(changed, a) = node
  BY <1>4, <1>9, <1>12 DEF NodeIn
<1>17. \A b \in ChainCells(chain) : b # a => NodeIn(changed, b) = NodeIn(chain, b)
  <2> SUFFICES ASSUME NEW b \in ChainCells(chain), b # a PROVE NodeIn(changed, b) = NodeIn(chain, b)
    OBVIOUS
  <2>1. PICK d \in 1 .. n, e \in 1 .. PRE_SIZE_CELL : b = <<d, e>> /\ e <= Len(chain[d])
    BY <1>2 DEF ChainCells
  <2>2. CASE d = l
    <3>1. e \in 1 .. m /\ e # k
      BY <1>4, <1>5, <1>6, <1>7, <2>1, <2>2
    <3> QED BY <1>5, <1>9, <1>12, <2>1, <2>2, <3>1 DEF NodeIn
  <2>3. CASE d # l
    BY <1>12, <2>1, <2>3 DEF NodeIn
  <2> QED BY <2>2, <2>3
<1> QED BY <1>14, <1>15, <1>16, <1>17

\* The nodes of the other keys list no more rows after row k + 1 than before.
LEMMA RowsOfOthers ==
  ASSUME NEW k \in Nat, NEW key, x[k + 1] # key
  PROVE  {r \in 1 .. k + 1 : x[r] = key} = {r \in 1 .. k : x[r] = key}
OBVIOUS

LEMMA HoldsElsewhere ==
  ASSUME NEW at, NEW chain, NEW k \in Nat, Holds(at, chain, k), Address(x[k + 1]) # at
  PROVE  Holds(at, chain, k + 1)
<1>1. \A a \in ChainCells(chain) : x[k + 1] # NodeIn(chain, a).key
  BY DEF Holds, NodesList
<1>2. NodesList(at, chain, k + 1)
  BY <1>1, RowsOfOthers DEF Holds, NodesList
<1>3. RowsHaveNodes(at, chain, k + 1)
  BY DEF Holds, RowsHaveNodes
<1> QED BY <1>2, <1>3 DEF Holds

LEMMA HoldsNewKey ==
  ASSUME Vectorial, NEW at, NEW chain, NEW k \in Nat, Holds(at, chain, k),
         k + 1 \in DOMAIN x, Address(x[k + 1]) = at, Places(chain, x[k + 1]) = {},
         NEW longer, longer = WithNode(chain, Node(x[k + 1], k + 1))
  PROVE  Holds(at, longer, k + 1)
<1>1. PICK n : n = k + 1
  OBVIOUS
<1>2. PICK key : key = x[n]
  OBVIOUS
<1>3. n \in Nat /\ n \in DOMAIN x /\ key \in Keys /\ n \notin 1 .. k /\ 1 .. n = (1 .. k) \cup {n}
  BY <1>1, <1>2, OperandTypes
<1>4. \A a \in ChainCells(chain) : NodeIn(chain, a).key # key
  BY <1>1, <1>2 DEF Places, ChainCells, NodeIn
<1>5. \A r \in 1 .. k : x[r] # key
  BY <1>1, <1>2, <1>4 DEF Holds, RowsHaveNodes
<1>6. PICK node : node = Node(key, n)
  OBVIOUS
<1>7. node \in NodeType /\ node.key = key /\ node.rows = <<n>>
  BY <1>3, <1>6 DEF Node, NodeType
<1>8. IsChain(chain) /\ longer = WithNode(chain, node)
  BY <1>1, <1>2, <1>6 DEF Holds
<1>9. /\ IsChain(longer)
      /\ \E p : /\ p \notin ChainCells(chain) /\ ChainCells(longer) = ChainCells(chain) \cup {p}
                /\ NodeIn(longer, p) = node
                /\ \A a \in ChainCells(chain) : NodeIn(longer, a) = NodeIn(chain, a)
  BY <1>7, <1>8, NodeAdded
<1>10. PICK p : /\ p \notin ChainCells(chain) /\ ChainCells(longer) = ChainCells(chain) \cup {p}
                /\ NodeIn(longer, p) = node
                /\ \A a \in ChainCells(chain) : NodeIn(longer, a) = NodeIn(chain, a)
  BY <1>9
<1>11. KeysDiffer(longer)
  BY <1>4, <1>7, <1>10 DEF Holds, KeysDiffer
<1>12. Lists(<<n>>, {r \in 1 .. n : x[r] = key})
  <2>1. {r \in 1 .. n : x[r] = key} = {n}
    BY <1>2, <1>3, <1>5
  <2>2. Lists(<<n>>, {n})
    BY <1>3 DEF Lists
  <2> QED BY <2>1, <2>2
<1>13. NodesList(at, longer, n)
  <2> SUFFICES ASSUME NEW a \in ChainCells(longer)
               PROVE  /\ Address(NodeIn(longer, a).key) = at
                      /\ Lists(NodeIn(longer, a).rows, {r \in 1 .. n : x[r] = NodeIn(longer, a).key})
    BY DEF NodesList
  <2>1. CASE a \in ChainCells(chain)
    <3>1. {r \in 1 .. n : x[r] = NodeIn(chain, a).key} = {r \in 1 .. k : x[r] = NodeIn(chain, a).key}
      BY <1>1, <1>2, <1>4, <2>1, RowsOfOthers
    <3> QED BY <1>10, <2>1, <3>1 DEF Holds, NodesList
  <2>2. CASE a = p
    BY <1>1, <1>2, <1>7, <1>10, <1>12, <2>2
  <2> QED BY <1>10, <2>1, <2>2
<1>14. RowsHaveNodes(at, longer, n)
  BY <1>2, <1>3, <1>7, <1>10 DEF Holds, RowsHaveNodes
<1> QED BY <1>1, <1>9, <1>11, <1>13, <1>14 DEF Holds

LEMMA HoldsKnownKey ==
  ASSUME Vectorial, NEW at, NEW chain, NEW k \in Nat, Holds(at, chain, k),
         k + 1 \in DOMAIN x, NEW a \in ChainCells(chain), NodeIn(chain, a).key = x[k + 1],
         NEW changed,
         changed = WithRow(chain, a, k + 1)
  PROVE  Holds(at, changed, k + 1)
<1>1. PICK n : n = k + 1
  OBVIOUS
<1>2. PICK key : key = x[n]
  OBVIOUS
<1>3. n \in Nat /\ n \in DOMAIN x /\ key \in Keys /\ n \notin 1 .. k /\ 1 .. n = (1 .. k) \cup {n}
  BY <1>1, <1>2, OperandTypes
<1>4. PICK old : old = NodeIn(chain, a)
  OBVIOUS
<1>5. /\ old \in NodeType /\ old.key = key /\ Address(key) = at
      /\ Lists(old.rows, {r \in 1 .. k : x[r] = key})
  <2>1. old \in NodeType
    <3> DEFINE N == Seq(NodeType)
    <3>1. chain \in Seq(N)
      BY DEF Holds, IsChain
    <3> HIDE DEF N
    <3>2. a[1] \in 1 .. Len(chain) /\ chain[a[1]] \in N
      BY <3>1, SequenceParts DEF ChainCells
    <3>3. PICK cell : cell = chain[a[1]]
      OBVIOUS
    <3>4. cell \in Seq(NodeType) /\ a[2] \in 1 .. Len(cell)
      BY <3>2, <3>3, JoinConstants DEF ChainCells, N
    <3> QED BY <1>4, <3>3, <3>4, SequenceParts DEF NodeIn
  <2> QED BY <1>1, <1>2, <1>4, <2>1 DEF Holds, NodesList
<1>6. PICK node : node = [old EXCEPT !.rows = Append(old.rows, n)]
  OBVIOUS
<1>7. Lists(Append(old.rows, n), {r \in 1 .. n : x[r] = key})
  <2>1. PICK rows : rows = old.rows
    OBVIOUS
  <2>2. PICK S : S = {r \in 1 .. k : x[r] = key}
    OBVIOUS
  <2>3. /\ rows \in Seq(Nat) /\ {rows[l] : l \in DOMAIN rows} = S
        /\ \A l, m \in DOMAIN rows : l < m => rows[l] < rows[m]
    BY <1>5, <2>1, <2>2 DEF Lists
  <2>4. PICK m : m = Len(rows) + 1
    OBVIOUS
  <2>5. PICK more : more = Append(rows, n)
    OBVIOUS
  <2>6. Len(rows) \in Nat /\ DOMAIN rows = 1 .. Len(rows)
    BY <2>3
  <2>7. /\ more \in Seq(Nat) /\ Len(more) = m /\ more[m] = n
        /\ \A l \in 1 .. Len(rows) : more[l] = rows[l]
    BY <1>3, <2>3, <2>4, <2>5, AppendedParts
  <2>8. DOMAIN more = (1 .. Len(rows)) \cup {m} /\ \A l \in 1 .. Len(rows) : l < m
    BY <2>4, <2>6, <2>7
  <2>9. {r \in 1 .. n : x[r] = key} = S \cup {n}
    BY <1>2, <1>3, <2>2
  <2>10. {more[l] : l \in DOMAIN more} = S \cup {n}
    BY <2>3, <2>6, <2>7, <2>8
  <2>11. \A l \in 1 .. Len(rows) : rows[l] < n
    <3> TAKE l \in 1 .. Len(rows)
    <3>1. rows[l] \in 1 .. k
      BY <2>2, <2>3, <2>6
    <3> QED BY <1>1, <3>1
  <2>12. \A l, j \in DOMAIN more : l < j => more[l] < more[j]
    <3> SUFFICES ASSUME NEW l \in DOMAIN more, NEW j \in DOMAIN more, l < j
                 PROVE  more[l] < more[j]
      OBVIOUS
    <3>1. l \in 1 .. Len(rows)
      BY <2>4, <2>6, <2>8
    <3>2. CASE j = m
      BY <2>7, <2>11, <3>1, <3>2
    <3>3. CASE j \in 1 .. Len(rows)
      BY <2>3, <2>6, <2>7, <3>1, <3>3
    <3> QED BY <2>8, <3>2, <3>3
  <2>13. Lists(more, S \cup {n})
    BY <2>7, <2>10, <2>12 DEF Lists
  <2> QED BY <2>1, <2>5, <2>9, <2>13
<1>8. node \in NodeType /\ node.key = key /\ node.rows = Append(old.rows, n)
  BY <1>5, <1>6, <1>7 DEF NodeType, Lists
<1>9. changed = PutNode(chain, a, node)
  BY <1>1, <1>4, <1>6 DEF WithRow
<1>10. /\ IsChain(changed) /\ ChainCells(changed) = ChainCells(chain) /\ NodeIn(changed, a) = node
       /\ \A b \in ChainCells(chain) : b # a => NodeIn(changed, b) = NodeIn(chain, b)
  <2>1. IsChain(chain)
    BY DEF Holds
  <2> QED BY <1>8, <1>9, <2>1, NodeChanged
<1>11. \A b \in ChainCells(chain) : NodeIn(changed, b).key = NodeIn(chain, b).key
  BY <1>4, <1>5, <1>8, <1>10
<1>12. KeysDiffer(changed)
  BY <1>10, <1>11 DEF Holds, KeysDiffer
<1>13. NodesList(at, changed, n)
  <2> SUFFICES ASSUME NEW b \in ChainCells(chain)
               PROVE  /\ Address(NodeIn(changed, b).key) = at
                      /\ Lists(NodeIn(changed, b).rows,
                               {r \in 1 .. n : x[r] = NodeIn(changed, b).key})
    BY <1>10 DEF NodesList
  <2>1. CASE b = a
    BY <1>5, <1>7, <1>8, <1>10, <2>1
  <2>2. CASE b # a
    <3>1. NodeIn(chain, b).key # x[k + 1]
      BY <2>2 DEF Holds, KeysDiffer
    <3>2. {r \in 1 .. n : x[r] = NodeIn(chain, b).key} = {r \in 1 .. k : x[r] = NodeIn(chain, b).key}
      BY <1>1, <3>1, RowsOfOthers
    <3> QED BY <1>10, <2>2, <3>2 DEF Holds, NodesList
  <2> QED BY <2>1, <2>2
<1>14. RowsHaveNodes(at, changed, n)
  <2>1. \A r \in 1 .. n : Address(x[r]) = at => \E b \in ChainCells(chain) : NodeIn(chain, b).key = x[r]
    BY <1>1, <1>3 DEF Holds, RowsHaveNodes
  <2> QED BY <1>10, <1>11, <2>1 DEF RowsHaveNodes
<1> QED BY <1>1, <1>10, <1>12, <1>13, <1>14 DEF Holds


----------------------------------------------------------------------------
(* The steps that leave the operands or the table alone.                   *)

LEMMA JoinOperandsKept ==
  ASSUME UNCHANGED operands
  PROVE  /\ x' = x /\ y' = y /\ Swapped' = Swapped /\ IsLinear' = IsLinear /\ isEq' = isEq
         /\ Addresses' = Addresses /\ \A key : Address(key)' = Address(key)
         /\ \A key : (Chains(Partition(key)) = 0)' = (Chains(Partition(key)) = 0)
<1>1. x' = x /\ y' = y /\ Swapped' = Swapped
  BY DEF operands, x, y, Swapped
<1>2. \A p : RowsOf(p)' = RowsOf(p)
  BY <1>1 DEF RowsOf
<1>3. \A p : Chains(p)' = Chains(p)
  BY <1>2 DEF Chains
<1>4. Addresses' = Addresses
  BY <1>3 DEF Addresses
<1>5. \A key : Address(key)' = Address(key)
  BY <1>3 DEF Address
<1>6. \A key : (Chains(Partition(key)) = 0)' = (Chains(Partition(key)) = 0)
  BY <1>3
<1>7. IsLinear' = IsLinear
  BY <1>1 DEF IsLinear
<1> QED BY <1>1, <1>4, <1>5, <1>6, <1>7 DEF operands

LEMMA PairsKept ==
  ASSUME UNCHANGED operands
  PROVE  /\ \A q : Hits(q)' = Hits(q) /\ Partners(q)' = Partners(q)
         /\ \A k : PairsUpTo(k)' = PairsUpTo(k)
         /\ AllPairs' = AllPairs
<1>1. x' = x /\ y' = y /\ isEq' = isEq /\ IsLinear' = IsLinear
  BY JoinOperandsKept
<1>2. \A q : Hits(q)' = Hits(q)
  BY <1>1 DEF Hits, Matches
<1>3. \A q : Partners(q)' = Partners(q)
  BY <1>1, <1>2 DEF Partners
<1>4. \A k : PairsUpTo(k)' = PairsUpTo(k)
  BY <1>1, <1>3 DEF PairsUpTo
<1>5. AllPairs' = AllPairs
  BY <1>1, <1>3 DEF AllPairs
<1> QED BY <1>2, <1>3, <1>4, <1>5

LEMMA HoldsKept ==
  ASSUME UNCHANGED operands, NEW at, NEW chain, NEW k, Holds(at, chain, k)
  PROVE  Holds(at, chain, k)'
<1>1. x' = x /\ \A key : Address(key)' = Address(key)
  BY JoinOperandsKept
<1>2. Holds(at, chain, k)
  OBVIOUS
<1> QED BY ONLY <1>1, <1>2
         DEF Holds, IsChain, KeysDiffer, NodesList, RowsHaveNodes, ChainCells, NodeIn, Lists

LEMMA TableHoldsKept ==
  ASSUME UNCHANGED <<operands, table>>, NEW k, TableHolds(k)
  PROVE  TableHolds(k)'
<1>1. UNCHANGED operands /\ table' = table
  OBVIOUS
<1>2. PICK chains : /\ chains = table /\ chains = [at \in Addresses |-> chains[at]]
                    /\ \A at \in Addresses : Holds(at, chains[at], k)
  BY DEF TableHolds
<1>3. Addresses' = Addresses /\ \A at \in Addresses : Holds(at, chains[at], k)'
  BY <1>1, <1>2, JoinOperandsKept, HoldsKept
<1> QED BY <1>1, <1>2, <1>3 DEF TableHolds

\* The chain of the next row is the only one that changes.
LEMMA TableStep ==
  ASSUME Vectorial, UNCHANGED operands, NEW k \in Nat, TableHolds(k), k + 1 \in DOMAIN x,
         NEW at, at = Address(x[k + 1]), NEW chain, Holds(at, chain, k + 1),
         table' = [table EXCEPT ![at] = chain]
  PROVE  TableHolds(k + 1)'
<1>1. PICK chains : /\ chains = table /\ chains = [b \in Addresses |-> chains[b]]
                    /\ \A b \in Addresses : Holds(b, chains[b], k)
  BY DEF TableHolds
<1>2. PICK new : new = table'
  OBVIOUS
<1>3. at \in Addresses
  BY AddressOfRow
<1>4. /\ new = [b \in Addresses |-> new[b]] /\ new[at] = chain
      /\ \A b \in Addresses : b # at => new[b] = chains[b]
  BY <1>1, <1>2, <1>3
<1>5. \A b \in Addresses : Holds(b, new[b], k + 1)
  BY <1>1, <1>4, HoldsElsewhere
<1>6. Addresses' = Addresses /\ \A b \in Addresses : Holds(b, new[b], k + 1)'
  BY <1>5, JoinOperandsKept, HoldsKept
<1> QED BY <1>2, <1>4, <1>6 DEF TableHolds


----------------------------------------------------------------------------
(* The probe.                                                              *)

LEMMA FirstPlaceIs ==
  ASSUME NEW chain, KeysDiffer(chain), NEW key, Places(chain, key) # {}
  PROVE  /\ FirstPlace(chain, key) \in ChainCells(chain)
         /\ NodeIn(chain, FirstPlace(chain, key)).key = key
<1> DEFINE First(b) == \A d \in Places(chain, key) : b[1] < d[1] \/ (b[1] = d[1] /\ b[2] <= d[2])
<1>1. PICK a : a \in Places(chain, key)
  OBVIOUS
<1>2. \A b \in Places(chain, key) : b \in ChainCells(chain) /\ NodeIn(chain, b).key = key
  BY DEF Places, ChainCells, NodeIn
<1>3. \A b \in Places(chain, key) : b = a
  BY <1>1, <1>2 DEF KeysDiffer
<1>4. PICK n : n = a[2]
  OBVIOUS
<1>5. n \in Int
  BY <1>1, <1>4, JoinConstants DEF Places
<1>6. First(a)
  BY <1>3, <1>4, <1>5
<1>7. FirstPlace(chain, key) \in Places(chain, key)
  <2> HIDE DEF First
  <2>1. (CHOOSE b \in Places(chain, key) : First(b)) \in Places(chain, key)
    BY <1>1, <1>6
  <2>2. FirstPlace(chain, key) = CHOOSE b \in Places(chain, key) : First(b)
    BY DEF FirstPlace, First
  <2> QED BY <2>1, <2>2
<1> QED BY <1>2, <1>7

\* With all rows in the table, the probe finds the rows that have the key.
LEMMA FindRight ==
  ASSUME Vectorial, isEq, ~ IsLinear, TableHolds(Len(x)), NEW q \in DOMAIN y,
         NEW found, found = Find(y[q])
  PROVE  /\ found \in FoundType
         /\ Lists(IF found = None THEN <<>> ELSE RowsAt(found[1], found[2]), Partners(q))
<1>1. PICK key : key = y[q]
  OBVIOUS
<1>2. key \in Keys
  BY <1>1, OperandTypes
<1>3. PICK n : n = Len(x)
  OBVIOUS
<1>4. n \in Nat /\ DOMAIN x = 1 .. n
  BY <1>3, OperandTypes
<1>5. Partners(q) = {r \in 1 .. n : x[r] = key}
  BY <1>1, <1>4 DEF Partners
<1>6. PICK chains : /\ chains = table /\ \A at \in Addresses : Holds(at, chains[at], n)
  BY <1>3 DEF TableHolds
<1>7. ASSUME Partners(q) = {}, found = None
      PROVE  /\ found \in FoundType
             /\ Lists(IF found = None THEN <<>> ELSE RowsAt(found[1], found[2]), Partners(q))
  <2>1. Lists(<<>>, {})
    BY DEF Lists
  <2> QED BY <1>7, <2>1 DEF FoundType
<1>8. CASE Chains(Partition(key)) = 0
  <2>1. RowsOf(Partition(key)) = {}
    BY <1>8, ChainsPositive
  <2>2. Partners(q) = {}
    BY <2>1, <1>4, <1>5 DEF RowsOf
  <2>3. found = None
    BY <1>1, <1>8 DEF Find
  <2> QED BY <1>7, <2>2, <2>3
<1>9. CASE Chains(Partition(key)) # 0
  <2>1. PICK at : at = Address(key)
    OBVIOUS
  <2>2. PICK chain : chain = chains[at]
    OBVIOUS
  <2>3. at \in Addresses /\ Holds(at, chain, n)
    BY <1>2, <1>6, <1>9, <2>1, <2>2, AddressType
  <2>4. CASE Places(chain, key) = {}
    <3>1. \A a \in ChainCells(chain) : NodeIn(chain, a).key # key
      BY <2>4 DEF Places, ChainCells, NodeIn
    <3>2. Partners(q) = {}
      BY <1>5, <2>1, <2>3, <3>1 DEF Holds, RowsHaveNodes
    <3>3. found = None
      BY <1>1, <1>6, <2>1, <2>2, <2>4 DEF Find
    <3> QED BY <1>7, <3>2, <3>3
  <2>5. CASE Places(chain, key) # {}
    <3>1. PICK a : a = FirstPlace(chain, key)
      OBVIOUS
    <3>2. a \in ChainCells(chain) /\ NodeIn(chain, a).key = key
      BY <2>3, <2>5, <3>1, FirstPlaceIs DEF Holds
    <3>3. found = <<at, a>>
      BY <1>1, <1>6, <1>9, <2>1, <2>2, <2>5, <3>1 DEF Find
    <3>4. a \in Nat \X Nat
      BY <3>2, JoinConstants DEF ChainCells
    <3>5. found # None /\ found[1] = at /\ found[2] = a
      BY <3>3 DEF None
    <3>6. Lists(NodeIn(chain, a).rows, Partners(q))
      BY <1>5, <2>3, <3>2 DEF Holds, NodesList
    <3>7. RowsAt(at, a) = NodeIn(chain, a).rows
      BY <1>6, <2>2 DEF RowsAt, NodeIn
    <3> QED BY <2>3, <3>3, <3>4, <3>5, <3>6, <3>7 DEF FoundType
  <2> QED BY <2>4, <2>5
<1> QED BY <1>8, <1>9

----------------------------------------------------------------------------
(* The number of pairs.                                                    *)

LEMMA ListCounts ==
  ASSUME NEW rows, NEW S, Lists(rows, S), NEW q
  PROVE  /\ Len(rows) \in Nat /\ IsFiniteSet(S \X {q})
         /\ Cardinality(S \X {q}) = Len(rows)
<1>1. PICK n : n = Len(rows)
  OBVIOUS
<1>2. /\ n \in Nat /\ DOMAIN rows = 1 .. n /\ \A k \in 1 .. n : rows[k] \in Nat
      /\ {rows[k] : k \in 1 .. n} = S
      /\ \A k, l \in 1 .. n : k < l => rows[k] < rows[l]
  BY <1>1 DEF Lists
<1> DEFINE f == [k \in 1 .. n |-> <<rows[k], q>>]
<1>3. f \in [1 .. n -> S \X {q}]
  BY <1>2
<1>4. \A k, l \in 1 .. n : rows[k] = rows[l] => k = l
  <2> SUFFICES ASSUME NEW k \in 1 .. n, NEW l \in 1 .. n, rows[k] = rows[l], k # l
               PROVE  FALSE
    OBVIOUS
  <2>1. PICK u \in Nat, v \in Nat : u = rows[k] /\ v = rows[l]
    BY <1>2
  <2>2. k < l \/ l < k
    BY <1>2
  <2> QED BY <1>2, <2>1, <2>2
<1>5. f \in Injection(1 .. n, S \X {q})
  <2>1. \A k, l \in 1 .. n : f[k] = f[l] => k = l
    BY <1>4
  <2> QED BY <1>3, <2>1 DEF Injection, IsInjective
<1>6. f \in Surjection(1 .. n, S \X {q})
  <2>1. \A p \in S \X {q} : \E k \in 1 .. n : f[k] = p
    BY <1>2
  <2> QED BY <1>3, <2>1 DEF Surjection
<1>7. ExistsBijection(1 .. n, S \X {q})
  BY <1>5, <1>6 DEF ExistsBijection, Bijection
<1>8. Cardinality(S \X {q}) = n /\ IsFiniteSet(S \X {q})
  BY <1>2, <1>7, FS_CountingElements, FS_NatBijection
<1> QED BY <1>1, <1>2, <1>8

LEMMA PairsFinite ==
  ASSUME Vectorial, NEW k \in Nat
  PROVE  IsFiniteSet(PairsUpTo(k)) /\ Cardinality(PairsUpTo(k)) \in Nat
<1>1. PICK n \in Nat : DOMAIN x = 1 .. n
  BY OperandTypes, Zenon
<1>2. IsFiniteSet(1 .. n) /\ IsFiniteSet(1 .. k)
  BY FS_Interval
<1>3. IsFiniteSet((1 .. n) \X (1 .. k))
  BY <1>2, FS_Product
<1>4. PairsUpTo(k) \in SUBSET ((1 .. n) \X (1 .. k))
  BY <1>1 DEF PairsUpTo
<1>5. IsFiniteSet(PairsUpTo(k))
  BY ONLY <1>3, <1>4, FS_Subset
<1> QED BY ONLY <1>5, FS_CardinalityType

LEMMA AllPairsAre ==
  ASSUME Vectorial
  PROVE  AllPairs = PairsUpTo(Len(y))
BY OperandTypes DEF AllPairs, PairsUpTo

LEMMA NoPairs == PairsUpTo(0) = {} /\ Cardinality(PairsUpTo(0)) = 0
<1>1. PairsUpTo(0) = {}
  BY DEF PairsUpTo
<1> QED BY <1>1, FS_EmptySet

LEMMA PartnersAreRows ==
  ASSUME NEW q
  PROVE  Partners(q) \subseteq DOMAIN x
BY DEF Partners, Hits

\* The pairs of one row more.
LEMMA PairsGrow ==
  ASSUME Vectorial, NEW k \in Nat, NEW q, q = k + 1, NEW rows, Lists(rows, Partners(q))
  PROVE  /\ PairsUpTo(q) = PairsUpTo(k) \cup (Partners(q) \X {q})
         /\ Cardinality(PairsUpTo(q)) = Cardinality(PairsUpTo(k)) + Len(rows)
<1>1. 1 .. q = (1 .. k) \cup {q} /\ q \notin 1 .. k
  OBVIOUS
<1>2. PairsUpTo(q) = PairsUpTo(k) \cup (Partners(q) \X {q})
  BY <1>1, PartnersAreRows DEF PairsUpTo
<1>3. PairsUpTo(k) \cap (Partners(q) \X {q}) = {}
  BY <1>1 DEF PairsUpTo
<1> DEFINE S == PairsUpTo(k)
           R == Partners(q) \X {q}
<1>4. IsFiniteSet(S) /\ Cardinality(S) \in Nat
  BY PairsFinite
<1>5. IsFiniteSet(R) /\ Cardinality(R) = Len(rows) /\ Len(rows) \in Nat
  BY ListCounts
<1> HIDE DEF S, R
<1>6. Cardinality(S \cup R) = Cardinality(S) + Cardinality(R) - Cardinality(S \cap R)
  BY <1>4, <1>5, FS_Union
<1>7. Cardinality(S \cap R) = 0
  BY <1>3, FS_EmptySet DEF S, R
<1>8. Cardinality(S \cup R) = Cardinality(S) + Len(rows)
  BY <1>4, <1>5, <1>6, <1>7
<1> QED BY <1>2, <1>8 DEF S, R

LEMMA PairsMonotonic ==
  ASSUME Vectorial, NEW k \in Nat, NEW n \in Nat, k <= n
  PROVE  /\ PairsUpTo(k) \subseteq PairsUpTo(n)
         /\ Cardinality(PairsUpTo(k)) <= Cardinality(PairsUpTo(n))
<1>1. 1 .. k \subseteq 1 .. n
  OBVIOUS
<1>2. PairsUpTo(k) \in SUBSET PairsUpTo(n)
  BY <1>1 DEF PairsUpTo
<1> QED BY <1>2, PairsFinite, FS_Subset

\* A scan stops at one row at most.
LEMMA HitsList ==
  ASSUME Vectorial, NEW q, IsLinear
  PROVE  /\ Hits(q) = {} => Lists(<<>>, Partners(q))
         /\ \A j \in Hits(q) : Lists(<<j>>, Partners(q))
<1>1. Partners(q) = Hits(q)
  BY DEF Partners
<1>2. Hits(q) = {} => Lists(<<>>, Partners(q))
  BY <1>1 DEF Lists
<1>3. \A j \in Hits(q) : Lists(<<j>>, Partners(q))
  <2> TAKE j \in Hits(q)
  <2>1. \A l \in Hits(q) : l = j
    <3> TAKE l \in Hits(q)
    <3>1. l \in Nat /\ j \in Nat /\ l >= 1 /\ j >= 1
      BY OperandTypes DEF Hits
    <3>2. ~ (l < j) /\ ~ (j < l)
      BY <3>1 DEF Hits
    <3> QED BY <3>1, <3>2
  <2>2. Partners(q) = {j} /\ j \in Nat
    BY <1>1, <2>1, OperandTypes DEF Hits
  <2> QED BY <2>2 DEF Lists
<1> QED BY <1>2, <1>3


----------------------------------------------------------------------------
(* The result.                                                             *)

IsArray(s, n) == s = [l \in 1 .. n |-> s[l]]

LEMMA NothingWritten ==
  ASSUME NEW s, s = [l \in 1 .. lenZ |-> None]
  PROVE  Written(s, 1, 0)
<1>1. PairsUpTo(0) = {} /\ Cardinality(PairsUpTo(0)) = 0
  BY NoPairs
<1>2. s \in [1 .. lenZ -> AllPairs \cup {None}]
  OBVIOUS
<1>3. {s[l] : l \in 1 .. 1 - 1} = {}
  OBVIOUS
<1> QED BY <1>1, <1>2, <1>3 DEF Written

\* The places 1 .. u before a new piece of length r, which starts at d and ends before
\* n, and the places 1 .. v with it.
LEMMA PlacesGrow ==
  ASSUME NEW u \in Nat, NEW r \in Nat, NEW v, v = u + r, NEW w \in Nat, v <= w,
         NEW d, d = u + 1, NEW n, n = d + r
  PROVE  /\ d \in Nat /\ n \in Nat /\ n = v + 1 /\ n - 1 = v /\ d - 1 = u
         /\ \A l \in 1 .. u : l \in 1 .. w /\ l \in 1 .. v /\ l \notin d .. n - 1
         /\ \A j \in 1 .. r : /\ u + j \in 1 .. w /\ u + j \in 1 .. v
                              /\ u + j \in d .. n - 1 /\ (u + j) - d + 1 = j
         /\ \A l \in 1 .. v : l \in 1 .. u \/ (l - u \in 1 .. r /\ l = u + (l - u))
         /\ \A l \in d .. n - 1 : l \in 1 .. v
<1>1. d \in Nat /\ n \in Nat /\ n = v + 1 /\ n - 1 = v /\ d - 1 = u
  OBVIOUS
<1>2. \A l \in 1 .. u : l \in 1 .. w /\ l \in 1 .. v /\ l \notin d .. n - 1
  OBVIOUS
<1>3. \A j \in 1 .. r : /\ u + j \in 1 .. w /\ u + j \in 1 .. v
                       /\ u + j \in d .. n - 1 /\ (u + j) - d + 1 = j
  OBVIOUS
<1>4. \A l \in 1 .. v : l \in 1 .. u \/ (l - u \in 1 .. r /\ l = u + (l - u))
  OBVIOUS
<1>5. \A l \in d .. n - 1 : l \in 1 .. v
  OBVIOUS
<1> QED BY ONLY <1>1, <1>2, <1>3, <1>4, <1>5

\* The pairs of one row more fit behind those of the rows before it.
LEMMA WrittenGrows ==
  ASSUME Vectorial, NEW s, NEW d, NEW k \in Nat, Written(s, d, k),
         lenZ = Cardinality(AllPairs),
         NEW q, q = k + 1, q \in DOMAIN y,
         NEW rows, Lists(rows, Partners(q)), NEW n, n = d + Len(rows),
         NEW new, IsArray(new, lenZ),
         \A l \in DOMAIN s : new[l] = IF l \in d .. n - 1 THEN <<rows[l - d + 1], q>> ELSE s[l]
  PROVE  Written(new, n, q)
<1>1. PICK m \in Nat : m = Len(y) /\ q \in 1 .. m
  BY OperandTypes, Zenon
<1>2. PICK r \in Nat : /\ r = Len(rows) /\ DOMAIN rows = 1 .. r
                       /\ {rows[l] : l \in 1 .. r} = Partners(q)
  BY DEF Lists
<1>3. PICK u \in Nat : u = Cardinality(PairsUpTo(k)) /\ d = u + 1
  BY PairsFinite DEF Written
<1>4. PICK v \in Nat : v = Cardinality(PairsUpTo(q)) /\ v = u + r
  BY <1>2, <1>3, PairsGrow
<1>5. PICK w \in Nat : w = lenZ /\ v <= w
  <2>1. q \in Nat /\ q <= m
    BY <1>1
  <2>2. Cardinality(PairsUpTo(q)) <= Cardinality(PairsUpTo(m))
    BY <2>1, PairsMonotonic
  <2> QED BY <1>1, <1>4, <2>2, PairsFinite, AllPairsAre
<1>6. /\ d \in Nat /\ n \in Nat /\ n = v + 1 /\ n - 1 = v /\ d - 1 = u
      /\ \A l \in 1 .. u : l \in 1 .. w /\ l \in 1 .. v /\ l \notin d .. n - 1
      /\ \A j \in 1 .. r : /\ u + j \in 1 .. w /\ u + j \in 1 .. v
                           /\ u + j \in d .. n - 1 /\ (u + j) - d + 1 = j
      /\ \A l \in 1 .. v : l \in 1 .. u \/ (l - u \in 1 .. r /\ l = u + (l - u))
      /\ \A l \in d .. n - 1 : l \in 1 .. v
  <2>1. d = u + 1 /\ v = u + r /\ v <= w
    BY <1>3, <1>4, <1>5
  <2>2. n = d + r
    BY <1>2
  <2>3. u \in Nat /\ r \in Nat /\ w \in Nat
    OBVIOUS
  <2> QED BY ONLY <2>1, <2>2, <2>3, PlacesGrow
<1>7. PairsUpTo(q) = PairsUpTo(k) \cup (Partners(q) \X {q})
  BY PairsGrow
<1>8. DOMAIN s = 1 .. w /\ s \in [1 .. w -> PairsUpTo(m) \cup {None}]
  BY <1>1, <1>5, AllPairsAre DEF Written
<1>9. \A l \in 1 .. u : l \in 1 .. w /\ new[l] = s[l]
  <2> TAKE l \in 1 .. u
  <2>1. l \in 1 .. w /\ l \notin d .. n - 1
    BY <1>6
  <2> QED BY <2>1, <1>8
<1>10. \A j \in 1 .. r : u + j \in 1 .. w /\ u + j \in 1 .. v /\ new[u + j] = <<rows[j], q>>
  <2> TAKE j \in 1 .. r
  <2>1. PICK l : l = u + j
    OBVIOUS
  <2>2. l \in 1 .. w /\ l \in 1 .. v /\ l \in d .. n - 1 /\ l - d + 1 = j
    <3>1. j \in 1 .. r
      OBVIOUS
    <3> QED BY ONLY <1>6, <2>1, <3>1
  <2> QED BY <2>1, <2>2, <1>8
<1>11. \A l \in 1 .. v : l \in 1 .. u \/ \E j \in 1 .. r : l = u + j
  <2> TAKE l \in 1 .. v
  <2>1. l \in 1 .. u \/ (l - u \in 1 .. r /\ l = u + (l - u))
    BY <1>6
  <2> QED BY ONLY <2>1
<1>12. {s[l] : l \in 1 .. u} = PairsUpTo(k)
  BY <1>6 DEF Written
<1>13. {new[l] : l \in 1 .. v} = PairsUpTo(q)
  <2>1. \A l \in 1 .. v : new[l] \in PairsUpTo(q)
    <3> TAKE l \in 1 .. v
    <3>1. CASE l \in 1 .. u
      BY <3>1, <1>7, <1>9, <1>12
    <3>2. CASE \E j \in 1 .. r : l = u + j
      <4>1. PICK j \in 1 .. r : new[l] = <<rows[j], q>>
        BY <3>2, <1>10
      <4>2. rows[j] \in Partners(q)
        BY <1>2
      <4> QED BY <4>1, <4>2, <1>7
    <3> QED BY <3>1, <3>2, <1>11
  <2>2. \A p \in PairsUpTo(q) : \E l \in 1 .. v : new[l] = p
    <3> TAKE p \in PairsUpTo(q)
    <3>1. CASE p \in PairsUpTo(k)
      <4>1. PICK l \in 1 .. u : s[l] = p
        BY <3>1, <1>12
      <4>2. l \in 1 .. v
        BY <1>6
      <4> QED BY <4>1, <4>2, <1>9
    <3>2. CASE p \in Partners(q) \X {q}
      <4>1. PICK j \in 1 .. r : p = <<rows[j], q>>
        BY <3>2, <1>2
      <4> QED BY <4>1, <1>10
    <3> QED BY <3>1, <3>2, <1>7
  <2>3. \A p : p \in {new[l] : l \in 1 .. v} <=> p \in PairsUpTo(q)
    BY <2>1, <2>2
  <2> QED BY <2>3
<1>14. new \in [1 .. w -> PairsUpTo(m) \cup {None}]
  <2>1. \A l \in 1 .. w : new[l] \in PairsUpTo(m) \cup {None}
    <3> TAKE l \in 1 .. w
    <3>1. CASE l \in d .. n - 1
      <4>1. l \in 1 .. v
        BY <3>1, <1>6
      <4>2. PairsUpTo(q) \subseteq PairsUpTo(m)
        BY <1>1, PairsMonotonic
      <4> QED BY <4>1, <4>2, <1>13
    <3>2. CASE l \notin d .. n - 1
      BY <3>2, <1>8
    <3> QED BY <3>1, <3>2
  <2>2. new = [l \in 1 .. w |-> new[l]]
    BY <1>5 DEF IsArray
  <2> QED BY <2>1, <2>2
<1> QED BY <1>1, <1>4, <1>5, <1>6, <1>8, <1>13, <1>14, AllPairsAre DEF Written

LEMMA WrittenKept ==
  ASSUME UNCHANGED <<operands, lenZ>>, NEW s, NEW d, NEW k, Written(s, d, k)
  PROVE  Written(s, d, k)'
BY JoinOperandsKept, PairsKept DEF Written


----------------------------------------------------------------------------
(* The steps.                                                              *)

\* The control facts of the invariant that need the operands only.
LEMMA StateParts ==
  ASSUME JoinInv
  PROVE  /\ Vectorial /\ i \in Nat /\ i > 0
         /\ \E k \in Int : i = k + 1 /\ k = i - 1 /\ JoinState(k, z, c)
<1>1. PICK k : k = i - 1 /\ JoinState(k, z, c)
  <2>1. StateHolds
    BY DEF JoinInv
  <2> QED BY <2>1 DEF StateHolds
<1>2. i \in Nat /\ i > 0 /\ Vectorial
  <2>1. i \in Nat \ {0} /\ Vectorial
    BY DEF JoinInv, Vectorial
  <2> QED BY <2>1
<1>3. k \in Int /\ i = k + 1
  BY <1>1, <1>2
<1> QED BY <1>1, <1>2, <1>3

LEMMA StateAfter ==
  ASSUME NEW k, NEW s, NEW d, k = i' - 1, s = z', d = c', JoinState(k, s, d)'
  PROVE  StateHolds'
BY DEF StateHolds

LEMMA InitHolds ==
  ASSUME Init
  PROVE  JoinInv
<1>1. left \in Seq(Keys) /\ right \in Seq(Keys)
  <2>1. \A v \in UNION {[1 .. n -> Keys] : n \in 0 .. MaxRows} : v \in Seq(Keys)
    BY JoinAssumption DEF JoinAssumption
  <2> QED BY <2>1 DEF Init
<1>2. StateHolds
  BY DEF Init, StateHolds, JoinState
<1> QED BY <1>1, <1>2 DEF Init, JoinInv

LEMMA DispatchKeeps ==
  ASSUME JoinInv, Dispatch
  PROVE  JoinInv'
<1>1. /\ UNCHANGED operands /\ Vectorial /\ i = 1 /\ tempHN = <<>> /\ lenZ = 0 /\ c = 1
      /\ left \in Seq(Keys) /\ right \in Seq(Keys) /\ isEq \in BOOLEAN
  BY DEF Dispatch, JoinInv, Vectorial
<1>2. /\ x' = x /\ y' = y /\ IsLinear' = IsLinear /\ Addresses' = Addresses
      /\ Len(x) \in Nat /\ Len(y) \in Nat
  BY <1>1, JoinOperandsKept, OperandTypes
<1>3. PICK new : new = table'
  OBVIOUS
<1>4. TableHolds(0)'
  <2>1. new = [at \in Addresses |-> <<>>]
    BY <1>3 DEF Dispatch
  <2>2. \A at \in Addresses : new[at] = <<>> /\ Holds(at, <<>>, 0)'
    BY <1>1, <2>1, EmptyChainHolds, HoldsKept
  <2> QED BY <1>2, <1>3, <2>1, <2>2 DEF TableHolds
<1>5. (PairsUpTo(0) = {} /\ Cardinality(PairsUpTo(0)) = 0)'
  BY <1>1, NoPairs, PairsKept
<1>6. /\ phase' = IF IsLinear THEN "linear calc" ELSE IF isEq THEN "build" ELSE "TODO"
      /\ i' = i /\ tempHN' = tempHN /\ c' = c /\ lenZ' = lenZ /\ z' = z
  BY DEF Dispatch, IsLinear
<1>7. ASSUME NEW s, NEW d, d = 1 PROVE JoinState(0, s, d)'
  <2>1. phase' \in {"linear calc", "build", "TODO"}
    BY <1>6
  <2>2. (0 \in 0 .. Len(x))' /\ (0 \in 0 .. Len(y))'
    BY <1>2
  <2>3. (lenZ = Cardinality(PairsUpTo(0)))'
    BY <1>1, <1>5, <1>6
  <2> QED BY <1>4, <1>7, <2>1, <2>2, <2>3 DEF JoinState
<1>8. StateHolds'
  <2>1. i' = 1 /\ c' = 1
    BY <1>1, <1>6
  <2>2. 0 = i' - 1
    BY <2>1
  <2> QED BY <1>7, <2>1, <2>2, StateAfter
<1> QED BY <1>1, <1>2, <1>6, <1>8 DEF JoinInv, operands

LEMMA InsertKeeps ==
  ASSUME JoinInv, Insert
  PROVE  JoinInv'
<1>1. PICK k \in Int : i = k + 1 /\ JoinState(k, z, c)
  BY StateParts, Zenon
<1>2. /\ UNCHANGED operands /\ Vectorial /\ phase = "build" /\ i <= Len(x)
      /\ tempHN = <<>> /\ lenZ = 0 /\ c = 1 /\ isEq /\ ~ IsLinear
      /\ left \in Seq(Keys) /\ right \in Seq(Keys) /\ isEq \in BOOLEAN /\ i \in Nat
      /\ UNCHANGED <<tempHN, c, lenZ, z>>
  BY Zenon DEF Insert, JoinInv, Vectorial
<1>3. x' = x /\ y' = y /\ IsLinear' = IsLinear /\ Len(x) \in Nat /\ DOMAIN x = 1 .. Len(x)
  BY <1>2, JoinOperandsKept, OperandTypes
<1>4. k \in Nat /\ TableHolds(k) /\ k + 1 \in DOMAIN x /\ k + 1 \in 0 .. Len(x)
  BY <1>1, <1>2, <1>3 DEF JoinState
<1>5. PICK at : at = Address(x[k + 1])
  OBVIOUS
<1>6. PICK chain : chain = table[at]
  OBVIOUS
<1>7. Holds(at, chain, k) /\ at \in Addresses
  BY <1>2, <1>4, <1>5, <1>6, AddressOfRow DEF TableHolds
<1>8. ASSUME i' = i + 1, phase' = phase,
             NEW new, Holds(at, new, k + 1), table' = [table EXCEPT ![at] = new]
      PROVE  JoinInv'
  <2>1. TableHolds(k + 1)'
    BY <1>2, <1>4, <1>5, <1>8, TableStep
  <2>2. i' - 1 = k + 1 /\ i' \in Nat \ {0}
    BY <1>1, <1>2, <1>8
  <2>3. PICK n : n = k + 1
    OBVIOUS
  <2>4. ASSUME NEW s, NEW d PROVE JoinState(n, s, d)'
    BY <1>2, <1>3, <1>4, <1>8, <2>1, <2>3 DEF JoinState
  <2>5. StateHolds'
    BY <2>2, <2>3, <2>4, StateAfter
  <2> QED BY <1>2, <1>3, <1>8, <2>2, <2>5 DEF JoinInv, operands
<1>9. CASE Places(chain, x[k + 1]) = {}
  <2>1. PICK new : new = WithNode(chain, Node(x[k + 1], k + 1))
    OBVIOUS
  <2>2. table' = [table EXCEPT ![at] = new] /\ i' = i + 1 /\ phase' = phase
    BY <1>1, <1>5, <1>6, <1>9, <2>1 DEF Insert
  <2>3. Holds(at, new, k + 1)
    BY <1>2, <1>4, <1>5, <1>7, <1>9, <2>1, HoldsNewKey
  <2> QED BY <1>8, <2>2, <2>3
<1>10. CASE Places(chain, x[k + 1]) # {}
  <2>1. PICK a : a = FirstPlace(chain, x[k + 1])
    OBVIOUS
  <2>2. a \in ChainCells(chain) /\ NodeIn(chain, a).key = x[k + 1]
    <3>1. KeysDiffer(chain)
      BY <1>7 DEF Holds
    <3>2. Places(chain, x[k + 1]) # {}
      BY <1>10
    <3> QED BY ONLY <2>1, <3>1, <3>2, FirstPlaceIs
  <2>3. CASE Len(RowsAt(at, a)) < SLOT_SIZE
    <3>1. PICK new : new = WithRow(chain, a, k + 1)
      OBVIOUS
    <3>2. Holds(at, new, k + 1)
      <4>1. /\ Vectorial /\ k \in Nat /\ Holds(at, chain, k) /\ k + 1 \in DOMAIN x
            /\ a \in ChainCells(chain) /\ NodeIn(chain, a).key = x[k + 1]
        BY <1>2, <1>4, <1>7, <2>2
      <4> QED BY ONLY <3>1, <4>1, HoldsKnownKey
    <3>3. /\ i' = i + 1 /\ phase' = phase
          /\ table' = [table EXCEPT ![at][a[1]][a[2]].rows = Append(@, k + 1)]
      <4>1. i = k + 1 /\ ~ (Len(RowsAt(at, a)) >= SLOT_SIZE)
        BY <1>1, <2>3, JoinConstants
      <4> QED BY <4>1, <1>5, <1>6, <1>10, <2>1, Zenon DEF Insert
    <3>4. table' = [table EXCEPT ![at] = new]
      BY <1>6, <3>1, <3>3, Zenon DEF WithRow, PutNode, NodeIn
    <3> QED BY <1>8, <3>2, <3>3, <3>4, Zenon
  <2>4. CASE ~ (Len(RowsAt(at, a)) < SLOT_SIZE)
    <3>1. phase' = "Not enough slots" /\ table' = table /\ i' = i
      BY <1>1, <1>5, <1>6, <1>10, <2>1, <2>4, Zenon DEF Insert
    <3>2. ASSUME NEW s, NEW d PROVE JoinState(k, s, d)'
      BY <3>1 DEF JoinState
    <3>3. StateHolds'
      <4>1. i' = k + 1
        BY <1>1, <3>1
      <4>2. k = i' - 1
        BY <4>1
      <4> QED BY <3>2, <4>2, StateAfter
    <3> QED BY <1>2, <1>3, <3>1, <3>3, ZenonT(30) DEF JoinInv, operands
  <2> QED BY <2>3, <2>4
<1> QED BY <1>9, <1>10


LEMMA CompleteKept ==
  ASSUME UNCHANGED <<operands, table, tempHN>>, TableComplete, ProbeFinds
  PROVE  TableComplete' /\ ProbeFinds'
<1>1. UNCHANGED operands /\ table' = table /\ tempHN' = tempHN /\ x' = x
  BY JoinOperandsKept
<1>2. TableComplete'
  <2>1. PICK n : n = Len(x) /\ TableHolds(n)
    BY DEF TableComplete
  <2>2. TableHolds(n)'
    BY <1>1, <2>1, TableHoldsKept
  <2> QED BY <1>1, <2>1, <2>2 DEF TableComplete
<1>3. FoundType' = FoundType
  BY <1>1, JoinOperandsKept DEF FoundType, None
<1>4. \A q : FoundRows(q)' = FoundRows(q)
  BY <1>1 DEF FoundRows, RowsAt, None
<1>5. \A q : Partners(q)' = Partners(q)
  BY <1>1, PairsKept
<1>6. ProbeFinds'
  BY <1>1, <1>3, <1>4, <1>5 DEF ProbeFinds, Lists
<1> QED BY <1>2, <1>6

LEMMA BuiltKeeps ==
  ASSUME JoinInv, Built
  PROVE  JoinInv'
<1>1. PICK k \in Int : i = k + 1 /\ JoinState(k, z, c)
  BY StateParts
<1>2. /\ UNCHANGED operands /\ Vectorial /\ phase = "build" /\ i > Len(x)
      /\ tempHN = <<>> /\ lenZ = 0 /\ c = 1 /\ isEq /\ ~ IsLinear
      /\ left \in Seq(Keys) /\ right \in Seq(Keys) /\ isEq \in BOOLEAN
      /\ phase' = "probe" /\ i' = 1
      /\ table' = table /\ tempHN' = tempHN /\ c' = c /\ lenZ' = lenZ /\ z' = z
  BY DEF Built, JoinInv, Vectorial
<1>3. /\ x' = x /\ y' = y /\ IsLinear' = IsLinear /\ Len(x) \in Nat /\ Len(y) \in Nat
  BY <1>2, JoinOperandsKept, OperandTypes
<1>4. k = Len(x) /\ TableHolds(k)
  <2>1. k \in 0 .. Len(x) /\ TableHolds(k)
    BY <1>1, <1>2 DEF JoinState
  <2>2. k + 1 > Len(x)
    BY <1>1, <1>2
  <2> QED BY <1>3, <2>1, <2>2
<1>5. TableComplete'
  <2>1. TableHolds(k)'
    BY <1>2, <1>4, TableHoldsKept
  <2> QED BY <1>3, <1>4, <2>1 DEF TableComplete
<1>6. ProbeFinds'
  <2>1. tempHN' = <<>>
    BY <1>2
  <2>2. DOMAIN tempHN' = {} /\ tempHN' \in Seq(FoundType')
    BY <2>1
  <2> QED BY <2>2 DEF ProbeFinds
<1>7. (Cardinality(PairsUpTo(0)) = 0)'
  BY <1>2, NoPairs, PairsKept
<1>8. ASSUME NEW s, NEW d, d = 1 PROVE JoinState(0, s, d)'
  BY <1>2, <1>3, <1>7, <1>8 DEF JoinState
<1>9. StateHolds'
  <2>1. 0 = i' - 1
    BY <1>2
  <2> QED BY <1>2, <1>8, <2>1, StateAfter
<1> QED BY <1>2, <1>3, <1>5, <1>6, <1>9 DEF JoinInv, operands

LEMMA ProbeKeeps ==
  ASSUME JoinInv, Probe
  PROVE  JoinInv'
<1>1. PICK k \in Int : i = k + 1 /\ JoinState(k, z, c)
  BY StateParts
<1>2. /\ UNCHANGED operands /\ Vectorial /\ phase = "probe" /\ i <= Len(y) /\ i \in Nat
      /\ isEq /\ ~ IsLinear /\ TableComplete /\ ProbeFinds
      /\ left \in Seq(Keys) /\ right \in Seq(Keys) /\ isEq \in BOOLEAN
      /\ phase' = "probe" /\ i' = i + 1 /\ table' = table /\ c' = c /\ z' = z
  BY DEF Probe, JoinInv, Vectorial
<1>3. /\ x' = x /\ y' = y /\ IsLinear' = IsLinear /\ Len(y) \in Nat /\ DOMAIN y = 1 .. Len(y)
  BY <1>2, JoinOperandsKept, OperandTypes
<1>4. /\ k \in 0 .. Len(y) /\ Len(tempHN) = k /\ c = 1 /\ lenZ = Cardinality(PairsUpTo(k))
  BY <1>1, <1>2 DEF JoinState
<1>5. PICK q : q = k + 1
  OBVIOUS
<1>6. q = i /\ q \in DOMAIN y /\ k \in Nat /\ q \in 0 .. Len(y)
  BY <1>1, <1>2, <1>3, <1>4, <1>5
<1>7. PICK found : found = Find(y[q])
  OBVIOUS
<1>8. PICK rows : rows = IF found = None THEN <<>> ELSE RowsAt(found[1], found[2])
  OBVIOUS
<1>9. TableHolds(Len(x))
  BY <1>2 DEF TableComplete
<1>10. found \in FoundType /\ Lists(rows, Partners(q))
  BY <1>2, <1>6, <1>7, <1>8, <1>9, FindRight
<1>11. tempHN' = Append(tempHN, found) /\ lenZ' = lenZ + Len(rows)
  <2>1. Len(<<>>) = 0
    OBVIOUS
  <2> QED BY <1>6, <1>7, <1>8, <2>1 DEF Probe
<1>12. PICK new : new = tempHN'
  OBVIOUS
<1>13. /\ new \in Seq(FoundType) /\ Len(new) = q /\ DOMAIN new = 1 .. q /\ new[q] = found
       /\ DOMAIN tempHN = 1 .. k /\ \A r \in 1 .. k : new[r] = tempHN[r]
  <2>1. tempHN \in Seq(FoundType)
    BY <1>2 DEF ProbeFinds
  <2>2. DOMAIN tempHN = 1 .. k
    BY <1>4, <2>1
  <2>3. new = Append(tempHN, found) /\ q = Len(tempHN) + 1
    BY <1>4, <1>5, <1>11, <1>12
  <2>4. /\ new \in Seq(FoundType) /\ Len(new) = q /\ new[q] = found
        /\ \A r \in 1 .. Len(tempHN) : new[r] = tempHN[r]
    BY <1>10, <2>1, <2>3, AppendedParts
  <2> QED BY <1>4, <2>2, <2>4
<1>14. ProbeFinds'
  <2>1. FoundType' = FoundType
    BY <1>2, JoinOperandsKept DEF FoundType, None
  <2>2. ASSUME NEW r \in 1 .. q PROVE Lists(FoundRows(r), Partners(r))'
    <3>1. Partners(r)' = Partners(r)
      BY <1>2, PairsKept
    <3>2. CASE r = q
      <4>1. FoundRows(r)' = rows
        BY <1>2, <1>8, <1>12, <1>13, <3>2 DEF FoundRows, RowsAt, None
      <4> QED BY <1>10, <3>1, <3>2, <4>1 DEF Lists
    <3>3. CASE r # q
      <4>1. r \in 1 .. k
        <5>1. k \in Nat /\ q = k + 1 /\ r \in 1 .. q
          BY <1>4, <1>5
        <5> QED BY ONLY <3>3, <5>1
      <4>2. FoundRows(r)' = FoundRows(r)
        BY <1>2, <1>12, <1>13, <4>1 DEF FoundRows, RowsAt, None
      <4>3. Lists(FoundRows(r), Partners(r))
        BY <1>2, <1>13, <4>1 DEF ProbeFinds
      <4> QED BY <3>1, <4>2, <4>3 DEF Lists
    <3> QED BY <3>2, <3>3
  <2> QED BY <1>12, <1>13, <2>1, <2>2 DEF ProbeFinds
<1>15. TableComplete'
  <2>1. PICK n : n = Len(x) /\ TableHolds(n)
    BY <1>9
  <2>2. TableHolds(n)'
    BY <1>2, <2>1, TableHoldsKept
  <2> QED BY <1>3, <2>1, <2>2 DEF TableComplete
<1>16. (lenZ = Cardinality(PairsUpTo(q)))'
  <2>1. Cardinality(PairsUpTo(q)) = Cardinality(PairsUpTo(k)) + Len(rows)
    BY <1>2, <1>5, <1>6, <1>10, PairsGrow
  <2> QED BY <1>2, <1>4, <1>11, <2>1, PairsKept
<1>17. ASSUME NEW s, NEW d, d = 1 PROVE JoinState(q, s, d)'
  BY <1>2, <1>3, <1>6, <1>12, <1>13, <1>16, <1>17 DEF JoinState
<1>18. StateHolds'
  <2>1. i' = q + 1 /\ c' = 1
    BY <1>2, <1>4, <1>6
  <2>2. q = i' - 1
    BY <1>6, <2>1
  <2> QED BY <1>17, <2>1, <2>2, StateAfter
<1> QED BY <1>2, <1>3, <1>14, <1>15, <1>18 DEF JoinInv, operands

LEMMA ProbedKeeps ==
  ASSUME JoinInv, Probed
  PROVE  JoinInv'
<1>1. PICK k \in Int : i = k + 1 /\ JoinState(k, z, c)
  BY StateParts
<1>2. /\ UNCHANGED operands /\ Vectorial /\ phase = "probe" /\ i > Len(y)
      /\ isEq /\ ~ IsLinear /\ TableComplete /\ ProbeFinds
      /\ left \in Seq(Keys) /\ right \in Seq(Keys) /\ isEq \in BOOLEAN
      /\ phase' = "write" /\ i' = 1 /\ table' = table /\ tempHN' = tempHN
      /\ c' = c /\ lenZ' = lenZ /\ z' = [l \in 1 .. lenZ |-> None]
  BY DEF Probed, JoinInv, Vectorial
<1>3. /\ x' = x /\ y' = y /\ IsLinear' = IsLinear /\ Len(y) \in Nat
  BY <1>2, JoinOperandsKept, OperandTypes
<1>4. /\ k = Len(y) /\ Len(tempHN) = k /\ c = 1 /\ lenZ = Cardinality(PairsUpTo(k))
  <2>1. /\ k \in 0 .. Len(y) /\ Len(tempHN) = k /\ c = 1 /\ lenZ = Cardinality(PairsUpTo(k))
    BY <1>1, <1>2 DEF JoinState
  <2>2. k + 1 > Len(y)
    BY <1>1, <1>2
  <2> QED BY <1>3, <2>1, <2>2
<1>5. (lenZ = Cardinality(AllPairs))'
  BY <1>2, <1>4, AllPairsAre, PairsKept
<1>6. ProbeFinds' /\ TableComplete'
  BY <1>2, CompleteKept
<1>7. ASSUME NEW s, NEW d, d = 1, s = z' PROVE JoinState(0, s, d)'
  <2>1. Written(s, 1, 0)
    BY <1>2, <1>7, NothingWritten
  <2>2. Written(s, d, 0)'
    BY <1>2, <1>7, <2>1, WrittenKept
  <2> QED BY <1>2, <1>3, <2>2 DEF JoinState
<1>8. StateHolds'
  <2>1. i' = 1 /\ c' = 1
    BY <1>2, <1>4
  <2>2. 0 = i' - 1
    BY <2>1
  <2> QED BY <1>7, <2>1, <2>2, StateAfter
<1> QED BY <1>2, <1>3, <1>4, <1>5, <1>6, <1>8 DEF JoinInv, operands


LEMMA WriteKeeps ==
  ASSUME JoinInv, Write
  PROVE  JoinInv'
<1>1. PICK k \in Int : i = k + 1 /\ JoinState(k, z, c)
  BY StateParts
<1>2. /\ UNCHANGED operands /\ Vectorial /\ phase = "write" /\ i <= Len(y)
      /\ isEq /\ ~ IsLinear /\ TableComplete /\ ProbeFinds
      /\ Len(tempHN) = Len(y) /\ lenZ = Cardinality(AllPairs)
      /\ left \in Seq(Keys) /\ right \in Seq(Keys) /\ isEq \in BOOLEAN
      /\ phase' = "write" /\ i' = i + 1 /\ table' = table /\ tempHN' = tempHN /\ lenZ' = lenZ
  BY DEF Write, JoinInv, Vectorial
<1>3. /\ x' = x /\ y' = y /\ IsLinear' = IsLinear /\ Len(y) \in Nat /\ DOMAIN y = 1 .. Len(y)
  BY <1>2, JoinOperandsKept, OperandTypes
<1>4. k \in 0 .. Len(y) /\ Written(z, c, k)
  BY <1>1, <1>2 DEF JoinState
<1>5. PICK q : q = k + 1
  OBVIOUS
<1>6. q = i /\ q \in DOMAIN y /\ k \in Nat /\ q \in 0 .. Len(y)
  BY <1>1, <1>2, <1>3, <1>4, <1>5
<1>7. PICK rows : rows = FoundRows(q)
  OBVIOUS
<1>8. Lists(rows, Partners(q))
  <2>1. DOMAIN tempHN = 1 .. Len(y)
    BY <1>2 DEF ProbeFinds
  <2> QED BY <1>2, <1>3, <1>6, <1>7, <2>1 DEF ProbeFinds
<1>9. PICK s, d, n, new : s = z /\ d = c /\ n = d + Len(rows) /\ new = z'
  OBVIOUS
<1>10. DOMAIN s = 1 .. lenZ
  BY <1>4, <1>9 DEF Written
<1>11. /\ new = [l \in DOMAIN s |-> IF l \in d .. n - 1 THEN <<rows[l - d + 1], q>> ELSE s[l]]
       /\ c' = n
  <2>1. rows = IF tempHN[i] = None THEN <<>> ELSE RowsAt(tempHN[i][1], tempHN[i][2])
    BY <1>6, <1>7 DEF FoundRows
  <2>2. /\ c' = c + Len(rows)
        /\ z' = [l \in DOMAIN z |-> IF l \in c .. c + Len(rows) - 1
                                  THEN <<rows[l - c + 1], i>> ELSE z[l]]
    BY <2>1, Zenon DEF Write
  <2>3. c = d /\ z = s /\ z' = new /\ i = q /\ n = d + Len(rows)
    BY <1>6, <1>9
  <2>4. c' = n
    BY <2>2, <2>3
  <2>5. z' = [l \in DOMAIN s |-> IF l \in d .. n - 1 THEN <<rows[l - d + 1], q>> ELSE s[l]]
    <3>1. z' = [l \in DOMAIN s |-> IF l \in d .. d + Len(rows) - 1
                                  THEN <<rows[l - d + 1], q>> ELSE s[l]]
      BY <2>2, <2>3
    <3>2. PICK e \in Nat : e = Len(rows)
      BY <1>8 DEF Lists
    <3>3. PICK u \in Nat : u = Cardinality(PairsUpTo(k))
      BY <1>2, <1>6, PairsFinite
    <3>4. d = u + 1
      BY <1>4, <1>9, <3>3 DEF Written
    <3>5. d + e - 1 = n - 1
      BY <2>3, <3>2, <3>4
    <3>6. z' = [l \in DOMAIN s |-> IF l \in d .. d + e - 1 THEN <<rows[l - d + 1], q>> ELSE s[l]]
      BY <3>1, <3>2
    <3> QED BY <3>5, <3>6
  <2> QED BY <2>3, <2>4, <2>5
<1>12. IsArray(new, lenZ)
  BY <1>10, <1>11 DEF IsArray
<1>13. \A l \in DOMAIN s : new[l] = IF l \in d .. n - 1 THEN <<rows[l - d + 1], q>> ELSE s[l]
  BY <1>11
<1>14. Written(new, n, q)
  BY <1>2, <1>4, <1>5, <1>6, <1>8, <1>9, <1>12, <1>13, WrittenGrows
<1>15. Written(new, n, q)'
  BY <1>2, <1>14, WrittenKept
<1>16. JoinState(q, new, n)'
  BY <1>2, <1>3, <1>6, <1>15 DEF JoinState
<1>17. StateHolds'
  <2>1. i' = q + 1 /\ c' = n
    BY <1>2, <1>6, <1>11
  <2>2. q = i' - 1
    BY <1>6, <2>1
  <2> QED BY <1>9, <1>16, <2>1, <2>2, StateAfter
<1>18. TableComplete' /\ ProbeFinds'
  BY <1>2, CompleteKept
<1>19. AllPairs' = AllPairs /\ i' \in Nat \ {0}
  BY <1>2, <1>6, PairsKept
<1> QED BY <1>2, <1>3, <1>17, <1>18, <1>19 DEF JoinInv, operands

LEMMA LinearCalcKeeps ==
  ASSUME JoinInv, LinearCalc
  PROVE  JoinInv'
<1>1. PICK k \in Int : i = k + 1 /\ JoinState(k, z, c)
  BY StateParts
<1>2. /\ UNCHANGED operands /\ Vectorial /\ phase = "linear calc" /\ i <= Len(y) /\ i \in Nat /\ IsLinear
      /\ left \in Seq(Keys) /\ right \in Seq(Keys) /\ isEq \in BOOLEAN
      /\ phase' = phase /\ i' = i + 1 /\ c' = c /\ z' = z
      /\ lenZ' = lenZ + Cardinality(Hits(i))
  BY DEF LinearCalc, JoinInv, Vectorial
<1>3. /\ x' = x /\ y' = y /\ IsLinear' = IsLinear /\ Len(y) \in Nat /\ DOMAIN y = 1 .. Len(y)
  BY <1>2, JoinOperandsKept, OperandTypes
<1>4. k \in 0 .. Len(y) /\ c = 1 /\ lenZ = Cardinality(PairsUpTo(k))
  BY <1>1, <1>2 DEF JoinState
<1>5. PICK q : q = k + 1
  OBVIOUS
<1>6. q = i /\ q \in DOMAIN y /\ k \in Nat /\ q \in 0 .. Len(y) /\ q \in Nat
  <2>1. i = k + 1 /\ i <= Len(y) /\ i \in Nat
    BY <1>1, <1>2
  <2> QED BY <1>3, <1>4, <1>5, <2>1
<1>7. \E rows : Lists(rows, Partners(q)) /\ Len(rows) = Cardinality(Hits(q))
  <2>1. CASE Hits(q) = {}
    <3>1. Len(<<>>) = 0 /\ Cardinality(Hits(q)) = 0
      BY <2>1, FS_EmptySet
    <3> QED BY <1>2, <2>1, <3>1, HitsList
  <2>2. CASE Hits(q) # {}
    <3>1. PICK j : j \in Hits(q)
      BY <2>2
    <3>2. Lists(<<j>>, Partners(q)) /\ Len(<<j>>) = 1
      BY <1>2, <3>1, HitsList
    <3>3. Hits(q) = {j}
      <4>1. {(<<j>>)[l] : l \in DOMAIN <<j>>} = {j}
        OBVIOUS
      <4> QED BY <1>2, <3>2, <4>1 DEF Lists, Partners
    <3>4. Cardinality(Hits(q)) = 1
      BY <3>3, FS_Singleton
    <3> QED BY <3>2, <3>4
  <2> QED BY <2>1, <2>2
<1>8. (lenZ = Cardinality(PairsUpTo(q)))'
  <2>1. Cardinality(PairsUpTo(q)) = Cardinality(PairsUpTo(k)) + Cardinality(Hits(q))
    <3>1. PICK rows : Lists(rows, Partners(q)) /\ Len(rows) = Cardinality(Hits(q))
      BY <1>7
    <3>2. Cardinality(PairsUpTo(q)) = Cardinality(PairsUpTo(k)) + Len(rows)
      BY <1>2, <1>5, <1>6, <3>1, PairsGrow
    <3> QED BY <3>1, <3>2
  <2> QED BY <1>2, <1>4, <1>6, <2>1, PairsKept
<1>9. ASSUME NEW s, NEW d, d = 1 PROVE JoinState(q, s, d)'
  BY <1>2, <1>3, <1>6, <1>8, <1>9 DEF JoinState
<1>10. StateHolds'
  <2>1. i' = q + 1 /\ c' = 1
    BY <1>2, <1>4, <1>6
  <2>2. q = i' - 1
    BY <1>6, <2>1
  <2> QED BY <1>9, <2>1, <2>2, StateAfter
<1>11. i' \in Nat \ {0}
  <2>1. i' = q + 1
    BY <1>2, <1>6
  <2> QED BY <1>6, <2>1
<1> QED BY <1>2, <1>3, <1>10, <1>11 DEF JoinInv, operands

LEMMA LinearAllocateKeeps ==
  ASSUME JoinInv, LinearAllocate
  PROVE  JoinInv'
<1>1. PICK k \in Int : i = k + 1 /\ JoinState(k, z, c)
  BY StateParts
<1>2. /\ UNCHANGED operands /\ Vectorial /\ phase = "linear calc" /\ i > Len(y) /\ IsLinear
      /\ left \in Seq(Keys) /\ right \in Seq(Keys) /\ isEq \in BOOLEAN
      /\ phase' = "linear save" /\ i' = 1 /\ c' = c /\ lenZ' = lenZ
      /\ z' = [l \in 1 .. lenZ |-> None]
  BY DEF LinearAllocate, JoinInv, Vectorial
<1>3. x' = x /\ y' = y /\ IsLinear' /\ Len(y) \in Nat
  BY <1>2, JoinOperandsKept, OperandTypes
<1>4. k = Len(y) /\ c = 1 /\ lenZ = Cardinality(PairsUpTo(k))
  <2>1. k \in 0 .. Len(y) /\ c = 1 /\ lenZ = Cardinality(PairsUpTo(k))
    BY <1>1, <1>2 DEF JoinState
  <2>2. k + 1 > Len(y)
    BY <1>1, <1>2
  <2> QED BY <1>3, <2>1, <2>2
<1>5. (lenZ = Cardinality(AllPairs))'
  BY <1>2, <1>4, AllPairsAre, PairsKept
<1>6. ASSUME NEW s, NEW d, d = 1, s = z' PROVE JoinState(0, s, d)'
  <2>1. Written(s, 1, 0)
    BY <1>2, <1>6, NothingWritten
  <2>2. Written(s, d, 0)'
    BY <1>2, <1>6, <2>1, WrittenKept
  <2>3. (0 \in 0 .. Len(y))'
    BY <1>3
  <2> QED BY <1>2, <2>2, <2>3 DEF JoinState
<1>7. StateHolds'
  <2>1. i' = 1 /\ c' = 1
    BY <1>2, <1>4
  <2>2. 0 = i' - 1
    BY <2>1
  <2> QED BY <1>6, <2>1, <2>2, StateAfter
<1>8. left' = left /\ right' = right /\ isEq' = isEq
  BY <1>2 DEF operands
<1>9. phase' = "linear save"
  BY <1>2
<1>10. i' \in Nat \ {0}
  <2>1. i' = 1
    BY <1>2
  <2> QED BY <2>1
<1> QED BY <1>2, <1>3, <1>5, <1>7, <1>8, <1>9, <1>10 DEF JoinInv

LEMMA LinearSaveKeeps ==
  ASSUME JoinInv, LinearSave
  PROVE  JoinInv'
<1>1. PICK k \in Int : i = k + 1 /\ JoinState(k, z, c)
  BY StateParts
<1>2. /\ UNCHANGED operands /\ Vectorial /\ phase = "linear save" /\ i <= Len(y) /\ i \in Nat /\ IsLinear
      /\ lenZ = Cardinality(AllPairs)
      /\ left \in Seq(Keys) /\ right \in Seq(Keys) /\ isEq \in BOOLEAN
      /\ phase' = phase /\ i' = i + 1 /\ lenZ' = lenZ
  BY DEF LinearSave, JoinInv, Vectorial
<1>3. /\ x' = x /\ y' = y /\ IsLinear' = IsLinear /\ Len(y) \in Nat /\ DOMAIN y = 1 .. Len(y)
  BY <1>2, JoinOperandsKept, OperandTypes
<1>4. k \in 0 .. Len(y) /\ Written(z, c, k)
  BY <1>1, <1>2 DEF JoinState
<1>5. PICK q : q = k + 1
  OBVIOUS
<1>6. q = i /\ q \in DOMAIN y /\ k \in Nat /\ q \in 0 .. Len(y) /\ q \in Nat
  <2>1. i = k + 1 /\ i <= Len(y) /\ i \in Nat
    BY <1>1, <1>2
  <2> QED BY <1>3, <1>4, <1>5, <2>1
<1>7. PICK s, d, new : s = z /\ d = c /\ new = z'
  OBVIOUS
<1>8. DOMAIN s = 1 .. lenZ /\ IsArray(s, lenZ) /\ d \in Nat
  <2>1. DOMAIN s = 1 .. lenZ /\ s = [l \in 1 .. lenZ |-> s[l]]
    BY <1>4, <1>7 DEF Written
  <2>2. PICK u \in Nat : u = Cardinality(PairsUpTo(k))
    BY <1>2, <1>6, PairsFinite
  <2>3. d = u + 1
    BY <1>4, <1>7, <2>2 DEF Written
  <2> QED BY <2>1, <2>2, <2>3 DEF IsArray
<1>9. ASSUME NEW rows, Lists(rows, Partners(q)), NEW n, n = d + Len(rows), c' = n,
             IsArray(new, lenZ),
             \A l \in DOMAIN s : new[l] = IF l \in d .. n - 1 THEN <<rows[l - d + 1], q>> ELSE s[l]
      PROVE  JoinInv'
  <2>1. Written(new, n, q)
    <3>1. Written(s, d, k)
      BY <1>4, <1>7
    <3> QED BY <1>2, <1>5, <1>6, <1>9, <3>1, WrittenGrows
  <2>2. Written(new, n, q)'
    BY <1>2, <2>1, WrittenKept
  <2>3. JoinState(q, new, n)'
    BY <1>2, <1>3, <1>6, <2>2 DEF JoinState
  <2>4. i' = q + 1 /\ c' = n
    BY <1>2, <1>6, <1>9
  <2>5. q = i' - 1
    BY <1>6, <2>4
  <2>6. StateHolds'
    BY <1>7, <2>3, <2>4, <2>5, StateAfter
  <2>7. AllPairs' = AllPairs
    BY <1>2, PairsKept
  <2>8. i' \in Nat \ {0}
    BY <1>6, <2>4
  <2> QED BY <1>2, <1>3, <2>6, <2>7, <2>8 DEF JoinInv, operands
<1>10. CASE Hits(q) = {}
  <2>1. new = s /\ c' = d
    BY <1>6, <1>7, <1>10 DEF LinearSave
  <2>2. PICK rows, n : rows = <<>> /\ n = d + Len(rows)
    OBVIOUS
  <2>3. Len(rows) = 0 /\ n = d
    BY <1>8, <2>2
  <2>4. \A l \in DOMAIN s : new[l] = IF l \in d .. n - 1 THEN <<rows[l - d + 1], q>> ELSE s[l]
    BY <1>8, <2>1, <2>3
  <2>5. Lists(rows, Partners(q))
    BY <1>2, <1>10, <2>2, HitsList
  <2> QED BY <1>8, <1>9, <2>1, <2>2, <2>3, <2>4, <2>5
<1>11. CASE Hits(q) # {}
  <2>1. PICK j \in Hits(q) : new = [s EXCEPT ![d] = <<j, q>>] /\ c' = d + 1
    BY <1>6, <1>7, <1>11 DEF LinearSave
  <2>2. PICK rows, n : rows = <<j>> /\ n = d + Len(rows)
    OBVIOUS
  <2>3. Len(rows) = 1 /\ n = d + 1 /\ rows[1] = j
    BY <1>8, <2>2
  <2>4. \A l \in DOMAIN s : new[l] = IF l \in d .. n - 1 THEN <<rows[l - d + 1], q>> ELSE s[l]
    <3> TAKE l \in DOMAIN s
    <3>1. l \in d .. n - 1 <=> l = d
      BY <1>8, <2>3
    <3>2. CASE l = d
      <4>1. l - d + 1 = 1 /\ l \in d .. n - 1
        BY <1>8, <3>1, <3>2
      <4>2. new[l] = <<j, q>>
        BY <2>1, <3>2
      <4> QED BY <2>3, <4>1, <4>2
    <3>3. CASE l # d
      BY <2>1, <3>1, <3>3
    <3> QED BY <3>2, <3>3
  <2>5. Lists(rows, Partners(q))
    BY <1>2, <2>1, <2>2, HitsList
  <2>6. IsArray(new, lenZ)
    BY <1>8, <2>1 DEF IsArray
  <2> QED BY <1>9, <2>1, <2>2, <2>3, <2>4, <2>5, <2>6
<1> QED BY <1>10, <1>11

LEMMA ReturnKeeps ==
  ASSUME JoinInv, Return
  PROVE  JoinInv'
<1>1. PICK k \in Int : i = k + 1 /\ JoinState(k, z, c)
  BY StateParts
<1>2. /\ UNCHANGED operands /\ Vectorial /\ phase \in {"write", "linear save"} /\ i > Len(y)
      /\ (isEq \/ IsLinear) /\ lenZ = Cardinality(AllPairs) /\ i \in Nat \ {0}
      /\ left \in Seq(Keys) /\ right \in Seq(Keys) /\ isEq \in BOOLEAN
      /\ phase' = "returned" /\ i' = i /\ c' = c /\ lenZ' = lenZ
  BY DEF Return, JoinInv, Vectorial
<1>3. /\ x' = x /\ y' = y /\ (isEq \/ IsLinear)' /\ Swapped' = Swapped /\ isEq' = isEq
      /\ Len(y) \in Nat
  BY <1>2, JoinOperandsKept, OperandTypes
<1>4. k = Len(y) /\ Written(z, c, k)
  <2>1. k \in 0 .. Len(y) /\ Written(z, c, k)
    BY <1>1, <1>2 DEF JoinState
  <2>2. k + 1 > Len(y)
    BY <1>1, <1>2
  <2> QED BY <1>3, <2>1, <2>2
<1>5. PICK n \in Nat : n = lenZ
  BY <1>2, <1>3, AllPairsAre, PairsFinite
<1>6. c = n + 1 /\ DOMAIN z = 1 .. n /\ {z[l] : l \in 1 .. n} = AllPairs
  <2>1. c = n + 1
    BY <1>2, <1>4, <1>5, AllPairsAre DEF Written
  <2>2. {z[l] : l \in 1 .. c - 1} = AllPairs
    BY <1>2, <1>4, AllPairsAre DEF Written
  <2>3. c - 1 = n
    BY <2>1
  <2> QED BY <1>4, <1>5, <2>1, <2>2, <2>3 DEF Written
<1>7. DOMAIN z' = 1 .. n /\ {z'[l] : l \in 1 .. n} = Turned(AllPairs)
  <2>1. CASE Swapped
    <3>1. z' = [l \in 1 .. n |-> <<z[l][2], z[l][1]>>]
      BY <1>6, <2>1 DEF Return
    <3>2. Turned(AllPairs) = {<<p[2], p[1]>> : p \in AllPairs}
      BY <2>1 DEF Turned
    <3>3. DOMAIN z' = 1 .. n /\ {z'[l] : l \in 1 .. n} = {<<z[l][2], z[l][1]>> : l \in 1 .. n}
      BY ONLY <3>1
    <3>4. {<<z[l][2], z[l][1]>> : l \in 1 .. n} = {<<p[2], p[1]>> : p \in {z[l] : l \in 1 .. n}}
      OBVIOUS
    <3>5. {z[l] : l \in 1 .. n} = AllPairs
      BY ONLY <1>6
    <3> QED BY ONLY <3>2, <3>3, <3>4, <3>5
  <2>2. CASE ~ Swapped
    <3>1. z' = z
      BY <2>2 DEF Return
    <3>2. Turned(AllPairs) = AllPairs
      BY <2>2 DEF Turned
    <3> QED BY <1>6, <3>1, <3>2
  <2> QED BY <2>1, <2>2
<1>8. AllPairs' = AllPairs
  BY <1>2, PairsKept
<1>9. Turned(AllPairs)' = Turned(AllPairs)
  BY <1>3, <1>8 DEF Turned
<1>10. (c = lenZ + 1 /\ DOMAIN z = 1 .. lenZ /\ {z[l] : l \in DOMAIN z} = Turned(AllPairs))'
  BY <1>2, <1>5, <1>6, <1>7, <1>9
<1>11. StateHolds'
  <2>1. ASSUME NEW s, NEW d PROVE JoinState(k, s, d)'
    BY <1>2 DEF JoinState
  <2>2. i' = k + 1
    BY <1>1, <1>2
  <2>3. k = i' - 1
    BY <2>2
  <2> QED BY <2>1, <2>3, StateAfter
<1> QED BY <1>2, <1>3, <1>8, <1>10, <1>11 DEF JoinInv, operands


LEMMA JoinStutterKeeps ==
  ASSUME JoinInv, UNCHANGED vars
  PROVE  JoinInv'
<1>1. /\ UNCHANGED operands /\ UNCHANGED <<operands, table>> /\ UNCHANGED <<operands, lenZ>>
      /\ UNCHANGED <<operands, table, tempHN>> /\ Vectorial
      /\ left' = left /\ right' = right /\ isEq' = isEq
      /\ phase' = phase /\ i' = i /\ table' = table /\ tempHN' = tempHN
      /\ c' = c /\ lenZ' = lenZ /\ z' = z
  BY DEF vars, operands, JoinInv, Vectorial
<1>2. /\ x' = x /\ y' = y /\ IsLinear' = IsLinear /\ Swapped' = Swapped /\ AllPairs' = AllPairs
  BY <1>1, JoinOperandsKept, PairsKept
<1>3. Turned(AllPairs)' = Turned(AllPairs)
  BY <1>2 DEF Turned
<1>4. TableComplete /\ ProbeFinds => TableComplete' /\ ProbeFinds'
  BY <1>1, CompleteKept
<1>5. ASSUME NEW k, NEW s, NEW d, JoinState(k, s, d) PROVE JoinState(k, s, d)'
  <2>1. TableHolds(k) => TableHolds(k)'
    BY <1>1, TableHoldsKept
  <2>2. Written(s, d, k) => Written(s, d, k)'
    BY <1>1, WrittenKept
  <2>3. PairsUpTo(k)' = PairsUpTo(k)
    BY <1>1, PairsKept
  <2> QED BY <1>1, <1>2, <1>5, <2>1, <2>2, <2>3 DEF JoinState
<1>6. StateHolds'
  <2>1. PICK k, s, d : k = i - 1 /\ s = z /\ d = c /\ JoinState(k, s, d)
    BY DEF JoinInv, StateHolds
  <2>2. JoinState(k, s, d)'
    BY <1>5, <2>1
  <2> QED BY <1>1, <2>1, <2>2, StateAfter
<1> QED BY <1>1, <1>2, <1>3, <1>4, <1>6 DEF JoinInv

----------------------------------------------------------------------------
(* The theorems.                                                           *)

LEMMA JoinStepKeeps ==
  ASSUME JoinInv, [Next]_vars
  PROVE  JoinInv'
<1>1. CASE Dispatch
  BY <1>1, DispatchKeeps
<1>2. CASE Insert
  BY <1>2, InsertKeeps
<1>3. CASE Built
  BY <1>3, BuiltKeeps
<1>4. CASE Probe
  BY <1>4, ProbeKeeps
<1>5. CASE Probed
  BY <1>5, ProbedKeeps
<1>6. CASE Write
  BY <1>6, WriteKeeps
<1>7. CASE LinearCalc
  BY <1>7, LinearCalcKeeps
<1>8. CASE LinearAllocate
  BY <1>8, LinearAllocateKeeps
<1>9. CASE LinearSave
  BY <1>9, LinearSaveKeeps
<1>10. CASE Return
  BY <1>10, ReturnKeeps
<1>11. CASE UNCHANGED vars
  BY <1>11, JoinStutterKeeps
<1> QED BY <1>1, <1>2, <1>3, <1>4, <1>5, <1>6, <1>7, <1>8, <1>9, <1>10, <1>11 DEF Next

\* The invariant holds in every state of pfnJoinIndex: the hash table, the
\* nodes that the probe found and the result are what the rows handled so far
\* make of them.
THEOREM JoinsKeepInvariant == Spec => []JoinInv
<1>1. Init => JoinInv
  BY InitHolds
<1>2. JoinInv /\ [Next]_vars => JoinInv'
  BY JoinStepKeeps
<1> QED BY <1>1, <1>2, PTL DEF Spec

LEMMA TableListsRowsHolds ==
  ASSUME JoinInv
  PROVE  TableListsRows
<1> SUFFICES ASSUME phase = "build" PROVE TableListsRows
  BY DEF TableListsRows
<1>1. PICK k \in Int : i = k + 1 /\ k = i - 1 /\ JoinState(k, z, c)
  BY StateParts
<1>2. PICK chains : /\ chains = table /\ chains = [at \in Addresses |-> chains[at]]
                    /\ \A at \in Addresses : Holds(at, chains[at], k)
  BY <1>1 DEF JoinState, TableHolds
<1>3. k \in 0 .. Len(x) /\ Vectorial /\ Len(x) \in Nat /\ DOMAIN x = 1 .. Len(x)
  BY <1>1, StateParts, OperandTypes DEF JoinState
<1>4. DOMAIN table = Addresses
  BY <1>2
<1>5. ASSUME NEW nd \in Nodes
      PROVE  /\ nd[1] \in Addresses /\ nd[2] \in ChainCells(chains[nd[1]])
             /\ nd = <<nd[1], nd[2]>>
             /\ KeyOf(nd) = NodeIn(chains[nd[1]], nd[2]).key
             /\ RowsAt(nd[1], nd[2]) = NodeIn(chains[nd[1]], nd[2]).rows
  BY <1>2, <1>4, <1>5 DEF Nodes, ChainCells, NodeIn, KeyOf, RowsAt
<1>6. \A nd \in Nodes : nd[1] = Address(KeyOf(nd))
  BY <1>2, <1>5 DEF Holds, NodesList
<1>7. \A nd, md \in Nodes : KeyOf(nd) = KeyOf(md) => nd = md
  <2> SUFFICES ASSUME NEW nd \in Nodes, NEW md \in Nodes, KeyOf(nd) = KeyOf(md)
               PROVE  nd = md
    OBVIOUS
  <2>1. nd[1] = md[1]
    BY <1>6
  <2>2. nd[2] = md[2]
    BY <1>2, <1>5, <2>1 DEF Holds, KeysDiffer
  <2> QED BY <1>5, <2>1, <2>2
<1>8. \A nd \in Nodes :
        LET rows == RowsAt(nd[1], nd[2])
            expected == {r \in 1 .. i - 1 : x[r] = KeyOf(nd)}
        IN  /\ {rows[l] : l \in DOMAIN rows} = expected
            /\ \A l, m \in DOMAIN rows : l < m => rows[l] < rows[m]
  <2> TAKE nd \in Nodes
  <2>1. Lists(NodeIn(chains[nd[1]], nd[2]).rows,
              {r \in 1 .. k : x[r] = NodeIn(chains[nd[1]], nd[2]).key})
    BY <1>2, <1>5 DEF Holds, NodesList
  <2>2. Lists(RowsAt(nd[1], nd[2]), {r \in 1 .. i - 1 : x[r] = KeyOf(nd)})
    BY <1>1, <1>5, <2>1
  <2> QED BY <2>2 DEF Lists
<1>9. \A r \in 1 .. i - 1 : \E nd \in Nodes : KeyOf(nd) = x[r]
  <2> TAKE r \in 1 .. i - 1
  <2>1. r \in 1 .. k /\ r \in DOMAIN x
    BY <1>1, <1>3
  <2>2. PICK at \in Addresses : at = Address(x[r])
    BY <1>3, <2>1, AddressOfRow
  <2>3. PICK a \in ChainCells(chains[at]) : NodeIn(chains[at], a).key = x[r]
    BY <1>2, <2>1, <2>2 DEF Holds, RowsHaveNodes
  <2>4. <<at, a>> \in Nodes
    BY <1>2, <1>4, <2>3 DEF Nodes, ChainCells
  <2>5. KeyOf(<<at, a>>) = x[r]
    BY <1>2, <2>3 DEF KeyOf, NodeIn
  <2> QED BY <2>4, <2>5
<1> QED BY <1>6, <1>7, <1>8, <1>9 DEF TableListsRows

\* While the table of lib_join_index_hash is built, the rows inserted so far
\* are listed once each and in order, by the only node of their key, where the
\* probe looks.
THEOREM TablesListRows == Spec => []TableListsRows
<1>1. JoinInv => TableListsRows
  BY TableListsRowsHolds
<1> QED BY <1>1, JoinsKeepInvariant, PTL


LEMMA PassesAgreeHolds ==
  ASSUME JoinInv
  PROVE  PassesAgree
<1>1. PICK k \in Int : i = k + 1 /\ JoinState(k, z, c)
  BY StateParts
<1>2. Vectorial /\ Len(y) \in Nat
  BY StateParts, OperandTypes
<1>3. phase \in {"write", "linear save", "returned"} =>
        \E n \in Nat : n = lenZ /\ n = Cardinality(PairsUpTo(Len(y)))
  BY <1>2, AllPairsAre, PairsFinite DEF JoinInv
<1>4. ASSUME phase \in {"write", "linear save"} PROVE c <= lenZ + 1
  <2>1. k \in 0 .. Len(y) /\ Written(z, c, k)
    BY <1>1, <1>4 DEF JoinState
  <2>2. k \in Nat /\ k <= Len(y)
    BY <1>2, <2>1
  <2>3. Cardinality(PairsUpTo(k)) <= Cardinality(PairsUpTo(Len(y)))
    BY <1>2, <2>2, PairsMonotonic
  <2>4. PICK u \in Nat : u = Cardinality(PairsUpTo(k)) /\ c = u + 1
    BY <1>2, <2>1, <2>2, PairsFinite DEF Written
  <2>5. PICK n \in Nat : n = lenZ /\ u <= n
    BY <1>3, <1>4, <2>3, <2>4
  <2> QED BY <2>4, <2>5
<1>5. ASSUME phase = "returned"
      PROVE  c <= lenZ + 1 /\ c = lenZ + 1 /\ \A l \in DOMAIN z : z[l] # None
  <2>1. c = lenZ + 1 /\ {z[l] : l \in DOMAIN z} = Turned(AllPairs)
    BY <1>5 DEF JoinInv
  <2>2. PICK n \in Nat : n = lenZ
    BY <1>3, <1>5
  <2>3. c <= lenZ + 1
    BY <2>1, <2>2
  <2>4. \A p \in Turned(AllPairs) : p # <<>>
    BY DEF Turned, AllPairs
  <2> QED BY <2>1, <2>3, <2>4 DEF None
<1> QED BY <1>4, <1>5 DEF PassesAgree

\* The second pass of a join fills the cells that the first one asked for, and
\* no others.
THEOREM JoinPassesAgree == Spec => []PassesAgree
<1>1. JoinInv => PassesAgree
  BY PassesAgreeHolds
<1> QED BY <1>1, JoinsKeepInvariant, PTL

\* The pairs of x and y, exchanged for exchanged operands, are those of left
\* and right.
LEMMA ExchangedPairs ==
  ASSUME Vectorial
  PROVE  Joined = Turned({p \in (DOMAIN x) \X (DOMAIN y) : Matches(p[1], p[2])})
<1>1. CASE Swapped
  <2> DEFINE M == {p \in (DOMAIN x) \X (DOMAIN y) : Matches(p[1], p[2])}
  <2>1. x = right /\ y = left
    BY <1>1 DEF x, y
  <2>2. Turned(M) = {<<p[2], p[1]>> : p \in M}
    BY <1>1 DEF Turned
  <2>3. ASSUME NEW a \in DOMAIN left, NEW b \in DOMAIN right
        PROVE  <<a, b>> \in Joined <=> <<b, a>> \in M
    BY <2>1 DEF Joined, Matches
  <2>4. \A p \in Joined : p \in Turned(M)
    <3> TAKE p \in Joined
    <3>1. PICK a \in DOMAIN left, b \in DOMAIN right : p = <<a, b>>
      BY DEF Joined
    <3>2. <<b, a>> \in M
      BY <2>3, <3>1
    <3>3. p = <<(<<b, a>>)[2], (<<b, a>>)[1]>>
      BY <3>1
    <3> HIDE DEF M
    <3> QED BY <2>2, <3>2, <3>3
  <2>5. \A p \in Turned(M) : p \in Joined
    <3> TAKE p \in Turned(M)
    <3>1. PICK e \in M : p = <<e[2], e[1]>>
      BY <2>2
    <3>2. PICK b \in DOMAIN right, a \in DOMAIN left : e = <<b, a>>
      BY <2>1
    <3> QED BY <2>3, <3>1, <3>2
  <2> QED BY <2>4, <2>5
<1>2. CASE ~ Swapped
  BY <1>2 DEF Joined, Turned, Matches, x, y
<1> QED BY <1>1, <1>2

\* A row of y has a partner exactly if it has a match.
LEMMA PartnersMatch ==
  ASSUME Vectorial, isEq \/ IsLinear, NEW q
  PROVE  /\ \A r \in Partners(q) : Matches(r, q)
         /\ \A r \in DOMAIN x : Matches(r, q) => Partners(q) # {}
         /\ ~ IsLinear => Partners(q) = {r \in DOMAIN x : Matches(r, q)}
<1>1. CASE ~ IsLinear
  BY <1>1 DEF Partners, Matches
<1>2. CASE IsLinear
  <2>1. Partners(q) = Hits(q)
    BY <1>2 DEF Partners
  <2>2. ASSUME NEW r \in DOMAIN x, Matches(r, q) PROVE Hits(q) # {}
    <3> DEFINE T == {j \in DOMAIN x : Matches(j, q)}
    <3>1. DOMAIN x \subseteq Nat /\ DOMAIN x = 1 .. Len(x) /\ Len(x) \in Nat
      BY OperandTypes
    <3>2. r \in T /\ T \subseteq Nat
      BY <2>2, <3>1
    <3>3. PICK j \in T : \A l \in T : j <= l
      BY <3>2, LeastNatural
    <3>4. \A l \in 1 .. j - 1 : ~ Matches(l, q)
      <4> TAKE l \in 1 .. j - 1
      <4>1. j \in 1 .. Len(x)
        BY <3>1, <3>3
      <4>2. l \in DOMAIN x /\ ~ (j <= l)
        BY <3>1, <4>1
      <4> QED BY <3>3, <4>2
    <3>5. j \in Hits(q)
      BY <3>3, <3>4 DEF Hits
    <3> QED BY <3>5
  <2> QED BY <1>2, <2>1, <2>2 DEF Hits
<1> QED BY <1>1, <1>2

\* An exchange changes the number of no set of pairs.
LEMMA ExchangeCounts ==
  ASSUME NEW S, NEW A, NEW B, S \subseteq A \X B, IsFiniteSet(S)
  PROVE  Cardinality(Turned(S)) = Cardinality(S)
<1>1. CASE ~ Swapped
  BY <1>1 DEF Turned
<1>2. CASE Swapped
  <2> DEFINE f == [p \in S |-> <<p[2], p[1]>>]
             T == {<<p[2], p[1]>> : p \in S}
  <2>1. f \in [S -> T] /\ \A q \in T : \E p \in S : f[p] = q
    OBVIOUS
  <2>2. \A p, q \in S : f[p] = f[q] => p = q
    <3> SUFFICES ASSUME NEW p \in S, NEW q \in S, f[p] = f[q] PROVE p = q
      OBVIOUS
    <3>1. p[1] = q[1] /\ p[2] = q[2]
      OBVIOUS
    <3> QED BY <3>1
  <2>3. f \in Injection(S, T) /\ f \in Surjection(S, T)
    BY <2>1, <2>2 DEF Injection, IsInjective, Surjection
  <2>4. ExistsBijection(S, T)
    BY <2>3 DEF ExistsBijection, Bijection
  <2>5. Cardinality(T) = Cardinality(S)
    BY <2>4, FS_Bijection
  <2> QED BY <1>2, <2>5 DEF Turned
<1> QED BY <1>1, <1>2

LEMMA HashJoinIsCompleteHolds ==
  ASSUME JoinInv
  PROVE  HashJoinIsComplete
<1> SUFFICES ASSUME phase = "returned", Len(x) >= NUM_JOIN_LINEAR
             PROVE  {z[k] : k \in DOMAIN z} = Joined /\ Len(z) = Cardinality(Joined)
  BY DEF HashJoinIsComplete
<1>1. Vectorial /\ Len(x) \in Nat /\ Len(y) \in Nat /\ NUM_JOIN_LINEAR \in Nat
  BY StateParts, OperandTypes, JoinConstants
<1>2. ~ IsLinear
  BY <1>1 DEF IsLinear
<1>3. isEq \/ IsLinear
  BY DEF JoinInv
<1>4. AllPairs = {p \in (DOMAIN x) \X (DOMAIN y) : Matches(p[1], p[2])}
  <2>1. \A q : Partners(q) = {r \in DOMAIN x : Matches(r, q)}
    BY <1>1, <1>2, <1>3, PartnersMatch
  <2> QED BY <2>1 DEF AllPairs
<1>5. Turned(AllPairs) = Joined
  BY <1>1, <1>4, ExchangedPairs
<1>6. {z[k] : k \in DOMAIN z} = Joined
  BY <1>5 DEF JoinInv
<1>7. IsFiniteSet(AllPairs) /\ Cardinality(AllPairs) \in Nat
  BY <1>1, AllPairsAre, PairsFinite
<1>8. AllPairs \subseteq (DOMAIN x) \X (DOMAIN y)
  BY DEF AllPairs
<1>9. Cardinality(Joined) = Cardinality(AllPairs)
  BY <1>5, <1>7, <1>8, ExchangeCounts
<1>10. PICK n \in Nat : n = Cardinality(AllPairs) /\ DOMAIN z = 1 .. n
  BY <1>7 DEF JoinInv
<1>11. Len(z) = n
  BY <1>10
<1> QED BY <1>6, <1>9, <1>10, <1>11

\* A hash join returns every matching pair, and each once.
THEOREM HashJoinsAreComplete == Spec => []HashJoinIsComplete
<1>1. JoinInv => HashJoinIsComplete
  BY HashJoinIsCompleteHolds
<1> QED BY <1>1, JoinsKeepInvariant, PTL

LEMMA JoinIsSoundHolds ==
  ASSUME JoinInv
  PROVE  JoinIsSound
<1> SUFFICES ASSUME phase = "returned"
             PROVE  /\ {z[k] : k \in DOMAIN z} \subseteq Joined
                    /\ \A p \in Joined :
                         \E k \in DOMAIN z : IF Swapped THEN z[k][1] = p[1] ELSE z[k][2] = p[2]
  BY DEF JoinIsSound
<1>1. Vectorial /\ (isEq \/ IsLinear) /\ {z[k] : k \in DOMAIN z} = Turned(AllPairs)
  BY StateParts DEF JoinInv
<1> DEFINE M == {p \in (DOMAIN x) \X (DOMAIN y) : Matches(p[1], p[2])}
<1>2. Joined = Turned(M)
  BY <1>1, ExchangedPairs
<1>3. AllPairs \subseteq M
  BY <1>1, PartnersMatch DEF AllPairs
<1>4. Turned(AllPairs) \subseteq Joined
  BY <1>2, <1>3 DEF Turned
<1>5. ASSUME NEW r \in DOMAIN x, NEW q \in DOMAIN y, Matches(r, q)
      PROVE  \E k \in DOMAIN z : IF Swapped THEN z[k][1] = q ELSE z[k][2] = q
  <2>1. Partners(q) # {}
    BY <1>1, <1>5, PartnersMatch
  <2>2. PICK s : s \in Partners(q)
    BY <2>1
  <2>3. <<s, q>> \in AllPairs
    BY <2>2, PartnersAreRows DEF AllPairs
  <2>4. (IF Swapped THEN <<q, s>> ELSE <<s, q>>) \in Turned(AllPairs)
    BY <2>3 DEF Turned
  <2>5. PICK k \in DOMAIN z : z[k] = IF Swapped THEN <<q, s>> ELSE <<s, q>>
    BY <1>1, <2>4
  <2> QED BY <2>5
<1>6. ASSUME NEW p \in Joined
      PROVE  \E k \in DOMAIN z : IF Swapped THEN z[k][1] = p[1] ELSE z[k][2] = p[2]
  <2>1. PICK e \in M : p = IF Swapped THEN <<e[2], e[1]>> ELSE e
    BY <1>2 DEF Turned
  <2>2. PICK r \in DOMAIN x, q \in DOMAIN y : e = <<r, q>> /\ Matches(r, q)
    OBVIOUS
  <2>3. p = IF Swapped THEN <<q, r>> ELSE <<r, q>>
    BY <2>1, <2>2
  <2> QED BY <1>5, <2>2, <2>3
<1> QED BY <1>1, <1>4, <1>6

\* Every pair that a join returns matches, whether it hashed or scanned, and
\* every row of the longer vector that has a match appears in one.
THEOREM JoinsAreSound == Spec => []JoinIsSound
<1>1. JoinInv => JoinIsSound
  BY JoinIsSoundHolds
<1> QED BY <1>1, JoinsKeepInvariant, PTL

----------------------------------------------------------------------------
(* The inductive invariant.                                                *)

Node1(n) == [h_index : 0 .. n, next : Words \cup {NULL}]

\* The operands are what Call chooses.
Operands ==
  /\ op \in {"none", "index_of", "unique", "member"}
  /\ typ \in {"bool", "int", "other"}
  /\ src \in Seq(Int) /\ Len(src) <= MaxSrc /\ val \in Seq(Int)
  /\ typ # "bool" => \A r \in DOMAIN src : src[r] \in Values
  /\ typ # "bool" => \A r \in DOMAIN val : val[r] \in Values
  /\ typ = "bool" => \A r \in DOMAIN src : src[r] \in Booleans
  /\ typ = "bool" => \A r \in DOMAIN val : val[r] \in Booleans
  /\ IsUnique => val = src
  /\ op = "none" <=> pc = "idle"

\* Where the builtin is, and what it holds of the heap there.
Hashing == pc \in {"insert", "find"}
Position ==
  /\ pc \in {"idle", "index_of", "bisect", "scan", "create", "insert", "find", "found", "copy",
             "returned", "Hash heap full"}
  /\ pc \in {"index_of", "bisect", "copy"} => Probes
  /\ pc = "copy" => IsUnique
  /\ pc = "scan" => ~ Probes
  /\ pc \in {"create", "insert", "find"} => typ # "bool" /\ (Probes => ~ isOrdered)
  /\ pc = "bisect" => isOrdered
  /\ pc \in {"idle", "index_of", "scan"} => targ = <<>>
  /\ pc \in {"idle", "index_of", "bisect", "scan", "found"} => row = 0
  /\ pc = "insert" => row \in 1 .. Len(src) + 1
  /\ pc = "find" => row \in 1 .. Len(val) + 1
  /\ pc = "copy" => row \in 1 .. Len(src) + 1
  /\ pc = "Hash heap full" => row \in 0 .. Len(src) + 1
  /\ pc = "returned" => row = 0
  /\ pc = "create" => row = 0
  /\ pc \notin {"insert", "find", "Hash heap full"} => t = NULL
  /\ t \in Words \cup {NULL}

HeapTypes ==
  /\ hashCur \in Nat /\ hHeapCur \in Nat /\ hHeapCur < INIT_HASH_SIZE
  /\ hashCur <= hHeapCur
  /\ hHeap \in [Words -> {Clear} \cup Node1(MaxSrc)]
  /\ pc \in {"index_of", "bisect", "scan", "create", "found", "copy", "returned"} =>
       hHeapCur = hashCur
  /\ Hashing => hashCur + hashLen <= hHeapCur

\* What was there before the builtin began does not lead into its table.
OldLinks ==
  \A a \in 0 .. hashCur - 1 : hN(a) # NULL => hN(a) \in a + 1 .. hashCur - 1

BucketWords == hashCur .. hashCur + hashLen - 1
NodeWords == hashCur + hashLen .. hHeapCur - 1
ValueAt(a) == src[hD(a)]
ChainOf(a) == IF a \in BucketWords THEN a ELSE Bucket(ValueAt(a))

\* The rows inserted so far.
Known == 1 .. (IF pc = "insert" THEN row - 1 ELSE Len(src))

\* The nodes are the first rows of the values inserted so far.
NodesAreFirstRows ==
  /\ \A a \in NodeWords :
       /\ hHeap[a] # Clear /\ hD(a) \in Known
       /\ \A q \in 1 .. hD(a) - 1 : src[q] # ValueAt(a)
  /\ \A r \in Known : \E a \in NodeWords : ValueAt(a) = src[r]

\* Every word of the table links to the next node of its chain.
LinkedInOrder ==
  \A a \in hashCur .. hHeapCur - 1 :
    /\ hN(a) # NULL => /\ hN(a) \in NodeWords /\ a < hN(a)
                       /\ ChainOf(hN(a)) = ChainOf(a)
    /\ \A b \in NodeWords :
         a < b /\ (hN(a) = NULL \/ b < hN(a)) => ChainOf(b) # ChainOf(a)

\* The cursor is in the chain of the value and beyond all nodes that have it not.
Sought == IF pc = "insert" THEN src[row] ELSE val[row]
CursorPasses ==
  t # NULL =>
    /\ row <= (IF pc = "insert" THEN Len(src) ELSE Len(val))
    /\ t \in NodeWords /\ ChainOf(t) = Bucket(Sought)
    /\ \A b \in NodeWords : b <= t => ValueAt(b) # Sought

Found(r) == \E q \in DOMAIN src : src[q] = val[r]

\* The bounds of the bisection enclose the rows with the value, if the source
\* ascends; equal values have equal bounds.
BoundsEnclose ==
  /\ targ \in [DOMAIN val -> 0 .. NotFound]
  /\ low \in [DOMAIN val -> 0 .. Len(src)] /\ high \in [DOMAIN val -> 0 .. Len(src)]
  /\ \A r \in DOMAIN val : IF src = <<>> THEN low[r] = high[r] ELSE low[r] < high[r]
  /\ \A r, q \in DOMAIN val : val[r] = val[q] => /\ targ[r] = targ[q]
                                                /\ low[r] = low[q] /\ high[r] = high[q]
  /\ ~ Misread => \A r \in DOMAIN val :
       /\ targ[r] \in DOMAIN src => src[targ[r]] = val[r]
       /\ targ[r] = NotFound => ~ Found(r)
       /\ targ[r] = 0 => \A q \in DOMAIN src : src[q] = val[r] => q \in low[r] + 1 .. high[r]

\* The rows of val looked up so far.
Answer(r) == IF Probes THEN FirstRow(val[r]) ELSE Found(r)
TargetsSoFar ==
  /\ targ \in Seq(IF Probes THEN 1 .. NotFound ELSE BOOLEAN) /\ Len(targ) = row - 1
  /\ \A r \in DOMAIN targ : targ[r] = Answer(r)

\* All rows of val.
TargetsFound ==
  /\ targ \in [DOMAIN val -> IF Probes THEN 1 .. NotFound ELSE BOOLEAN]
  /\ ~ Probes /\ (src # <<>> \/ typ = "bool") => \A r \in DOMAIN val : targ[r] = Found(r)
  /\ Probes /\ ~ Misread =>
       /\ \A r, q \in DOMAIN val : val[r] = val[q] => targ[r] = targ[q]
       /\ \A r \in DOMAIN val :
            IF Found(r) THEN /\ targ[r] \in DOMAIN src /\ src[targ[r]] = val[r]
                             /\ isOrdered \/ targ[r] = FirstRow(val[r])
            ELSE targ[r] = NotFound

\* The rows copied so far.
RowsCopied(n) ==
  /\ rtn \in Seq(1 .. n)
  /\ \A k \in DOMAIN rtn : rtn[k] \in DOMAIN targ /\ targ[rtn[k]] = rtn[k]
  /\ \A k, l \in DOMAIN rtn : k # l => rtn[k] # rtn[l]
  /\ \A r \in 1 .. n : targ[r] = r => \E k \in DOMAIN rtn : rtn[k] = r

Searching ==
  /\ Hashing => NodesAreFirstRows /\ LinkedInOrder /\ CursorPasses
  /\ pc = "bisect" => BoundsEnclose
  /\ pc \in {"create", "insert", "Hash heap full"} => targ = <<>>
  /\ pc = "find" => TargetsSoFar
  /\ pc \in {"found", "copy", "returned"} => TargetsFound
  /\ pc = "copy" => RowsCopied(row - 1)
  /\ pc = "returned" => IF IsUnique THEN RowsCopied(Len(src)) ELSE rtn = targ
  /\ pc \notin {"copy", "returned"} => rtn = <<>>

SearchInv ==
  Operands /\ Position /\ HeapTypes /\ FreeMemoryIsClear /\ OldLinks /\ ChainsEnd /\ Searching

----------------------------------------------------------------------------
(* Operands.                                                               *)

LEMMA ConstantTypes ==
  /\ INIT_HASH_SIZE \in Nat \ {0} /\ Words = 0 .. INIT_HASH_SIZE - 1
  /\ Values \subseteq Int /\ HashOf \in [Values -> Nat]
  /\ NULL \notin Int /\ NULL \notin Words /\ MaxSrc \in Nat /\ MaxVal \in Nat
  /\ Clear \notin [h_index : Nat, next : Words \cup {NULL}]
  /\ ListTables \subseteq Nat
BY HashHeapAssumption, SearchAssumption, ListTablesAssumption
   DEF HashHeapAssumption, SearchAssumption, ListTablesAssumption, Words

LEMMA VectorsAreSequences ==
  ASSUME NEW S, NEW n \in Nat, NEW s \in Vectors(S, n)
  PROVE  s \in Seq(S) /\ Len(s) \in 0 .. n /\ DOMAIN s = 1 .. Len(s)
BY DEF Vectors

LEMMA SeqMonotone ==
  ASSUME NEW S, NEW T, S \subseteq T, NEW s \in Seq(S)
  PROVE  s \in Seq(T)
<1>1. s \in [1 .. Len(s) -> S] /\ Len(s) \in Nat
  OBVIOUS
<1>2. s \in [1 .. Len(s) -> T]
  BY <1>1
<1> QED BY <1>1, <1>2

LEMMA SequenceItems ==
  ASSUME NEW S, NEW s \in Seq(S)
  PROVE  Len(s) \in Nat /\ DOMAIN s = 1 .. Len(s) /\ \A k \in 1 .. Len(s) : s[k] \in S
OBVIOUS

LEMMA AppendedItems ==
  ASSUME NEW S, NEW s \in Seq(S), NEW e \in S
  PROVE  /\ Append(s, e) \in Seq(S) /\ Len(Append(s, e)) = Len(s) + 1
         /\ Append(s, e)[Len(s) + 1] = e /\ \A k \in 1 .. Len(s) : Append(s, e)[k] = s[k]
OBVIOUS

LEMMA HashLenType ==
  ASSUME Operands
  PROVE  hashLen \in Nat /\ hashLen > 0
BY TableSizePositive DEF Operands, hashLen

\* Every value has its bucket in the table.
LEMMA BucketInTable ==
  ASSUME Operands, hashCur \in Nat, NEW v \in Values
  PROVE  Bucket(v) \in BucketWords
<1>1. HashOf[v] \in Nat /\ hashLen \in Nat /\ hashLen > 0
  BY ConstantTypes, HashLenType
<1>2. HashOf[v] % hashLen \in Nat /\ HashOf[v] % hashLen < hashLen
  BY <1>1
<1> QED BY <1>1, <1>2 DEF Bucket, BucketWords

----------------------------------------------------------------------------
(* The steps without a table.                                              *)

LEMMA InitInv ==
  ASSUME SearchInit, initHashHeap
  PROVE  SearchInv
<1> USE ConstantTypes DEF SearchInit, initHashHeap
<1>1. Operands
  BY DEF Operands, IsUnique
<1>2. Position
  BY DEF Position, Probes, IsUnique, Hashing
<1>3. HeapTypes
  BY DEF HeapTypes, Hashing
<1>4. FreeMemoryIsClear
  BY DEF FreeMemoryIsClear
<1>5. OldLinks /\ ChainsEnd
  BY DEF OldLinks, ChainsEnd
<1>6. Searching
  BY DEF Searching, Hashing
<1> QED BY <1>1, <1>2, <1>3, <1>4, <1>5, <1>6 DEF SearchInv

LEMMA OperandsKept ==
  ASSUME Operands, UNCHANGED searched, pc # "idle", pc' # "idle"
  PROVE  Operands'
BY DEF Operands, searched, IsUnique

LEMMA HeapKept ==
  ASSUME FreeMemoryIsClear, OldLinks, ChainsEnd, UNCHANGED <<heap, hashCur>>
  PROVE  FreeMemoryIsClear' /\ OldLinks' /\ ChainsEnd'
BY DEF FreeMemoryIsClear, OldLinks, ChainsEnd, heap, hN

LEMMA CallInv ==
  ASSUME SearchInv, NEW o \in {"index_of", "unique", "member"},
         NEW ty \in {"bool", "int", "other"}, Call(o, ty)
  PROVE  SearchInv'
<1>1. /\ pc = "idle" /\ op' = o /\ typ' = ty /\ pc' = Algorithm(o, ty, src')
      /\ hashCur' = hHeapCur /\ targ' = <<>> /\ rtn' = <<>>
      /\ UNCHANGED <<row, t, low, high, hHeap, hHeapCur>>
  BY DEF Call, Idle, bounds, heap
<1>2. row = 0 /\ t = NULL /\ rtn = <<>>
  BY <1>1 DEF SearchInv, Position, Searching, Hashing
<1>3. pc' \in {"index_of", "scan", "create"}
  BY <1>1 DEF Algorithm
<1>4. Operands'
  <2> DEFINE S == IF ty = "bool" THEN Booleans ELSE Values
  <2>1. src' \in Vectors(S, MaxSrc) /\ (val' = src' \/ val' \in Vectors(S, MaxVal))
        /\ (o = "unique" => val' = src')
    BY DEF Call
  <2>2. src' \in Seq(S) /\ Len(src') <= MaxSrc /\ val' \in Seq(S)
    BY <2>1, VectorsAreSequences, ConstantTypes
  <2>3. S \subseteq Int /\ (ty # "bool" => S = Values) /\ (ty = "bool" => S = Booleans)
    BY ConstantTypes DEF Booleans
  <2> HIDE DEF S
  <2>4. src' \in Seq(Int) /\ val' \in Seq(Int)
    BY <2>2, <2>3, SeqMonotone
  <2>5. \A r \in DOMAIN src' : src'[r] \in S
    BY <2>2
  <2>6. \A r \in DOMAIN val' : val'[r] \in S
    BY <2>2
  <2> QED BY <1>1, <1>3, <2>1, <2>2, <2>3, <2>4, <2>5, <2>6 DEF Operands, IsUnique
<1>5. Position'
  BY <1>1, <1>2, <1>3, ConstantTypes
     DEF Position, Algorithm, Probes, IsUnique, Hashing, isOrdered
<1>6. HeapTypes'
  BY <1>1, <1>3 DEF SearchInv, HeapTypes, Hashing
<1>7. FreeMemoryIsClear' /\ OldLinks' /\ ChainsEnd'
  BY <1>1 DEF SearchInv, FreeMemoryIsClear, OldLinks, ChainsEnd, hN
<1>8. Searching'
  BY <1>1, <1>3 DEF Searching, Hashing
<1> QED BY <1>4, <1>5, <1>6, <1>7, <1>8 DEF SearchInv

LEMMA ScanInv ==
  ASSUME SearchInv, Scan
  PROVE  SearchInv'
<1>1. /\ pc = "scan" /\ pc' = "found"
      /\ UNCHANGED <<op, typ, src, val, row, t, low, high, hashCur, rtn, hHeap, hHeapCur>>
  BY DEF Scan, searched, bounds, heap
<1>2. PICK first \in (IF src = <<>> /\ typ # "bool" THEN Values ELSE {NULL}) :
        targ' = [r \in DOMAIN val |-> val[r] = first \/ \E q \in DOMAIN src : src[q] = val[r]]
  BY DEF Scan
<1>3. ~ Probes /\ row = 0 /\ t = NULL /\ rtn = <<>>
  BY <1>1 DEF SearchInv, Position, Searching, Hashing
<1>4. Operands'
  BY <1>1, OperandsKept DEF SearchInv, searched
<1>5. Position'
  BY <1>1, <1>3 DEF SearchInv, Position, Probes, IsUnique, Hashing
<1>6. HeapTypes'
  BY <1>1 DEF SearchInv, HeapTypes, Hashing
<1>7. FreeMemoryIsClear' /\ OldLinks' /\ ChainsEnd'
  BY <1>1, HeapKept DEF SearchInv, heap
<1>8. Searching'
  <2>1. targ' \in [DOMAIN val -> BOOLEAN]
    BY <1>2
  <2>2. ASSUME src # <<>> \/ typ = "bool", NEW r \in DOMAIN val
        PROVE  targ'[r] = Found(r)
    <3>1. first = NULL
      BY <2>2
    <3>2. val[r] # NULL
      BY ConstantTypes DEF SearchInv, Operands
    <3> QED BY <3>1, <3>2, <1>2 DEF Found
  <2>3. TargetsFound'
    BY <1>1, <1>3, <2>1, <2>2 DEF TargetsFound, Probes, Found
  <2> QED BY <1>1, <1>3, <2>3 DEF Searching, Hashing
<1> QED BY <1>4, <1>5, <1>6, <1>7, <1>8 DEF SearchInv

\* What FirstRow finds.
LEMMA FirstRowFinds ==
  ASSUME Operands, NEW v
  PROVE  /\ FirstRow(v) \in 1 .. NotFound
         /\ IF \E q \in DOMAIN src : src[q] = v
            THEN /\ FirstRow(v) \in DOMAIN src /\ src[FirstRow(v)] = v
                 /\ \A q \in 1 .. FirstRow(v) - 1 : src[q] # v
            ELSE FirstRow(v) = NotFound
<1> DEFINE First(r) == src[r] = v /\ \A q \in 1 .. r - 1 : src[q] # v
           T == {r \in DOMAIN src : src[r] = v}
<1>0. Len(src) \in Nat /\ DOMAIN src = 1 .. Len(src)
  BY DEF Operands
<1>1. CASE \E q \in DOMAIN src : src[q] = v
  <2>1. T # {} /\ T \subseteq Nat
    BY <1>0, <1>1
  <2>2. PICK r \in T : \A q \in T : r <= q
    BY <2>1, LeastNatural
  <2>3. r \in DOMAIN src /\ r \in 1 .. Len(src) /\ src[r] = v
    BY <1>0, <2>2
  <2>4. \A q \in 1 .. r - 1 : src[q] # v
    <3> TAKE q \in 1 .. r - 1
    <3>1. q \in DOMAIN src /\ q < r
      BY <1>0, <2>3
    <3> QED BY <3>1, <2>2, <2>3
  <2>5. r \in DOMAIN src /\ First(r)
    BY <2>3, <2>4
  <2> HIDE DEF First
  <2>6. (CHOOSE k \in DOMAIN src : First(k)) \in DOMAIN src /\ First(CHOOSE k \in DOMAIN src : First(k))
    BY <2>5
  <2>7. FirstRow(v) \in DOMAIN src /\ First(FirstRow(v))
    BY <1>1, <2>6 DEF FirstRow, First
  <2> QED BY <1>0, <1>1, <2>7 DEF First, NotFound
<1>2. CASE ~ \E q \in DOMAIN src : src[q] = v
  BY <1>0, <1>2 DEF FirstRow, NotFound
<1> QED BY <1>1, <1>2

\* A source that is ordered and does not descend ascends.
LEMMA SourceAscends ==
  ASSUME Operands, isOrdered, ~ Misread
  PROVE  \A p, q \in DOMAIN src : p <= q => src[p] <= src[q]
<1>0. Len(src) \in Nat /\ DOMAIN src = 1 .. Len(src) /\ \A r \in 1 .. Len(src) : src[r] \in Int
  BY DEF Operands
<1>1. \A r \in 2 .. Len(src) : src[r - 1] <= src[r]
  <2> TAKE r \in 2 .. Len(src)
  <2>1. src[r - 1] \in Int /\ src[r] \in Int
    BY <1>0
  <2>2. ~ (src[r - 1] > src[r])
    BY DEF Misread
  <2> QED BY <2>1, <2>2
<1> SUFFICES ASSUME NEW p \in DOMAIN src PROVE \A q \in DOMAIN src : p <= q => src[p] <= src[q]
  OBVIOUS
<1> DEFINE T == {q \in DOMAIN src : p <= q /\ ~ (src[p] <= src[q])}
<1>2. SUFFICES ASSUME T # {} PROVE FALSE
  OBVIOUS
<1>3. PICK m \in T : \A q \in T : m <= q
  BY <1>0, <1>2, LeastNatural, T \subseteq Nat
<1>4. m \in 1 .. Len(src) /\ p <= m /\ ~ (src[p] <= src[m]) /\ p \in 1 .. Len(src)
  BY <1>0, <1>3
<1>5. m # p
  BY <1>0, <1>4
<1>6. m - 1 \in 1 .. Len(src) /\ p <= m - 1 /\ m \in 2 .. Len(src)
  BY <1>4, <1>5
<1>7. m - 1 \notin T
  <2> HIDE DEF T
  <2> QED BY <1>3, <1>4
<1>8. src[p] <= src[m - 1]
  BY <1>0, <1>6, <1>7
<1>9. src[m - 1] <= src[m] /\ src[m - 1] \in Int /\ src[m] \in Int /\ src[p] \in Int
  BY <1>0, <1>1, <1>4, <1>6
<1> QED BY <1>4, <1>8, <1>9

LEMMA IndexOfInv ==
  ASSUME SearchInv, IndexOf
  PROVE  SearchInv'
<1>1. /\ pc = "index_of" /\ pc' \in {"found", "bisect", "create"}
      /\ UNCHANGED <<op, typ, src, val, row, t, hashCur, rtn, hHeap, hHeapCur>>
  BY DEF IndexOf, searched, heap
<1>2. Probes /\ row = 0 /\ t = NULL /\ rtn = <<>> /\ targ = <<>>
  BY <1>1 DEF SearchInv, Position, Searching, Hashing
<1>3. Operands'
  BY <1>1, OperandsKept DEF SearchInv, searched
<1>4. Position'
  <2>1. CASE typ = "bool" /\ pc' = "found"
    BY <1>1, <1>2, <2>1 DEF SearchInv, Position, Probes, IsUnique, Hashing, isOrdered
  <2>2. CASE isOrdered /\ pc' = "bisect"
    BY <1>1, <1>2, <2>2 DEF SearchInv, Position, Probes, IsUnique, Hashing, isOrdered
  <2>3. CASE typ # "bool" /\ ~ isOrdered /\ pc' = "create"
    BY <1>1, <1>2, <2>3 DEF SearchInv, Position, Probes, IsUnique, Hashing, isOrdered
  <2> QED BY <2>1, <2>2, <2>3 DEF IndexOf
<1>5. HeapTypes'
  BY <1>1 DEF SearchInv, HeapTypes, Hashing
<1>6. FreeMemoryIsClear' /\ OldLinks' /\ ChainsEnd'
  BY <1>1, HeapKept DEF SearchInv, heap
<1>7. Searching'
  <2>1. CASE typ = "bool" /\ pc' = "found" /\ targ' = [r \in DOMAIN val |-> FlagOf(val[r])]
    <3>1. \A r \in DOMAIN val : FlagOf(val[r]) \in 1 .. NotFound
      <4>1. 1 \in 1 .. NotFound
        BY DEF SearchInv, Operands, NotFound
      <4> QED BY <4>1, FirstRowFinds DEF SearchInv, FlagOf
    <3>2. ASSUME ~ Misread, NEW r \in DOMAIN val
          PROVE  targ'[r] = FirstRow(val[r])
      BY <2>1, <3>2 DEF Misread, FlagOf
    <3>3. targ' \in [DOMAIN val -> 1 .. NotFound]
      BY <2>1, <3>1
    <3>4. ASSUME ~ Misread, NEW r \in DOMAIN val
          PROVE  IF Found(r) THEN /\ targ'[r] \in DOMAIN src /\ src[targ'[r]] = val[r]
                                  /\ targ'[r] = FirstRow(val[r])
                 ELSE targ'[r] = NotFound
      BY <3>2, <3>4, FirstRowFinds DEF SearchInv, Found
    <3>5. ASSUME ~ Misread, NEW r \in DOMAIN val, NEW q \in DOMAIN val, val[r] = val[q]
          PROVE  targ'[r] = targ'[q]
      BY <3>2, <3>5
    <3>6. TargetsFound'
      <4>1. /\ Probes' = Probes /\ NotFound' = NotFound /\ Misread' = Misread /\ src' = src /\ val' = val
            /\ \A r : Found(r)' = Found(r) /\ FirstRow(val[r])' = FirstRow(val[r])
        BY <1>1 DEF Probes, Found, NotFound, Misread, isOrdered, FirstRow
      <4>2. Probes /\ targ' \in [DOMAIN val -> 1 .. NotFound]
        BY <1>2, <3>3
      <4> QED BY ONLY <3>4, <3>5, <4>1, <4>2 DEF TargetsFound
    <3> QED BY <1>1, <1>2, <2>1, <3>6 DEF Searching, Hashing
  <2>2. CASE /\ isOrdered /\ pc' = "bisect" /\ targ' = [r \in DOMAIN val |-> 0]
             /\ low' = [r \in DOMAIN val |-> 0] /\ high' = [r \in DOMAIN val |-> Len(src)]
    <3>0. Len(src) \in Nat /\ DOMAIN src = 1 .. Len(src) /\ (src # <<>> => Len(src) > 0)
      BY DEF SearchInv, Operands
    <3>1. BoundsEnclose'
      BY <1>1, <2>2, <3>0 DEF BoundsEnclose, NotFound, Found
    <3> QED BY <1>1, <1>2, <2>2, <3>1 DEF Searching, Hashing
  <2>3. CASE typ # "bool" /\ ~ isOrdered /\ pc' = "create" /\ targ' = targ
    BY <1>1, <1>2, <2>3 DEF Searching, Hashing
  <2> QED BY <2>1, <2>2, <2>3 DEF IndexOf
<1> QED BY <1>3, <1>4, <1>5, <1>6, <1>7 DEF SearchInv

\* The middle of the bounds is a row between them.
LEMMA MidBetween ==
  ASSUME NEW l \in Nat, NEW h \in Nat, l < h
  PROVE  /\ (l + h) \div 2 \in Nat /\ l <= (l + h) \div 2 /\ (l + h) \div 2 < h
         /\ (l + h) \div 2 = l => h = l + 1
OBVIOUS

LEMMA HalveInv ==
  ASSUME SearchInv, Halve
  PROVE  SearchInv'
<1>1. /\ pc = "bisect" /\ pc' = "bisect"
      /\ UNCHANGED <<op, typ, src, val, row, t, hashCur, rtn, hHeap, hHeapCur>>
  BY DEF Halve, searched, heap
<1>2. /\ Probes /\ isOrdered /\ row = 0 /\ t = NULL /\ rtn = <<>> /\ BoundsEnclose
      /\ Operands
  BY <1>1 DEF SearchInv, Position, Searching, Hashing
<1>3. Operands'
  BY <1>1, OperandsKept DEF SearchInv, searched
<1>4. Position'
  BY <1>1, <1>2 DEF SearchInv, Position, Probes, IsUnique, Hashing, isOrdered
<1>5. HeapTypes'
  BY <1>1 DEF SearchInv, HeapTypes, Hashing
<1>6. FreeMemoryIsClear' /\ OldLinks' /\ ChainsEnd'
  BY <1>1, HeapKept DEF SearchInv, heap
<1>7. BoundsEnclose'
  <2>0. /\ Len(src) \in Nat /\ DOMAIN src = 1 .. Len(src) /\ (src # <<>> => Len(src) > 0)
        /\ (src = <<>> => Len(src) = 0)
        /\ \A q \in 1 .. Len(src) : src[q] \in Int
        /\ \A r \in DOMAIN val : val[r] \in Int
    BY <1>2 DEF Operands
  <2>1. /\ targ' = [r \in DOMAIN val |-> IF r \in Undecided THEN Decided(r) ELSE targ[r]]
        /\ low' = [r \in DOMAIN val |-> IF Halves(r) /\ src[Mid(r) + 1] <= val[r]
                                        THEN Mid(r) ELSE low[r]]
        /\ high' = [r \in DOMAIN val |-> IF Halves(r) /\ src[Mid(r) + 1] > val[r]
                                         THEN Mid(r) ELSE high[r]]
    BY DEF Halve
  <2>2. ASSUME NEW r \in DOMAIN val
        PROVE  /\ targ[r] \in 0 .. NotFound /\ low[r] \in 0 .. Len(src) /\ high[r] \in 0 .. Len(src)
               /\ IF src = <<>> THEN low[r] = high[r] ELSE low[r] < high[r]
               /\ targ'[r] = IF r \in Undecided THEN Decided(r) ELSE targ[r]
               /\ low'[r] = IF Halves(r) /\ src[Mid(r) + 1] <= val[r] THEN Mid(r) ELSE low[r]
               /\ high'[r] = IF Halves(r) /\ src[Mid(r) + 1] > val[r] THEN Mid(r) ELSE high[r]
    BY <1>2, <2>1 DEF BoundsEnclose
  <2>3. ASSUME NEW r \in DOMAIN val
        PROVE  IF src = <<>> THEN Mid(r) = low[r] /\ ~ IsAt(r)
               ELSE /\ Mid(r) \in Nat /\ low[r] <= Mid(r) /\ Mid(r) < high[r]
                    /\ Mid(r) + 1 \in DOMAIN src
                    /\ Mid(r) = low[r] => high[r] = low[r] + 1
    <3>1. CASE src = <<>>
      BY <2>0, <2>2, <3>1 DEF Mid, IsAt
    <3>2. CASE src # <<>>
      <4>1. low[r] \in Nat /\ high[r] \in Nat /\ low[r] < high[r] /\ high[r] <= Len(src)
        BY <2>0, <2>2, <3>2
      <4>2. /\ Mid(r) \in Nat /\ low[r] <= Mid(r) /\ Mid(r) < high[r]
            /\ Mid(r) = low[r] => high[r] = low[r] + 1
        <5> DEFINE l == low[r]
                   h == high[r]
        <5>1. l \in Nat /\ h \in Nat /\ l < h
          BY <4>1
        <5> HIDE DEF l, h
        <5>2. /\ (l + h) \div 2 \in Nat /\ l <= (l + h) \div 2 /\ (l + h) \div 2 < h
              /\ (l + h) \div 2 = l => h = l + 1
          BY <5>1, MidBetween
        <5> QED BY <5>2 DEF Mid, l, h
      <4>3. Mid(r) + 1 \in DOMAIN src
        BY <2>0, <4>1, <4>2
      <4> QED BY <3>2, <4>2, <4>3
    <3> QED BY <3>1, <3>2
  <2>4. ASSUME NEW r \in DOMAIN val
        PROVE  /\ targ'[r] \in 0 .. NotFound
               /\ low'[r] \in 0 .. Len(src) /\ high'[r] \in 0 .. Len(src)
               /\ IF src = <<>> THEN low'[r] = high'[r] ELSE low'[r] < high'[r]
    <3>1. CASE src = <<>>
      BY <2>0, <2>2, <2>3, <3>1 DEF Decided, Halves, NotFound
    <3>2. CASE src # <<>>
      <4>1. Decided(r) \in 0 .. NotFound
        BY <2>0, <2>3, <3>2 DEF Decided, NotFound
      <4>2. CASE Halves(r) /\ src[Mid(r) + 1] <= val[r]
        <5>1. ~ (src[Mid(r) + 1] > val[r])
          BY <2>0, <2>3, <3>2, <4>2
        <5> QED BY <2>0, <2>2, <2>3, <3>2, <4>1, <4>2, <5>1
      <4>3. CASE Halves(r) /\ src[Mid(r) + 1] > val[r]
        <5>1. ~ (src[Mid(r) + 1] <= val[r]) /\ Mid(r) # low[r]
          BY <2>0, <2>3, <3>2, <4>3 DEF Halves
        <5> QED BY <2>0, <2>2, <2>3, <3>2, <4>1, <4>3, <5>1
      <4>4. CASE low'[r] = low[r] /\ high'[r] = high[r]
        BY <2>2, <3>2, <4>1, <4>4
      <4> QED BY <2>2, <4>2, <4>3, <4>4
    <3> QED BY <3>1, <3>2
  <2>5. ASSUME NEW r \in DOMAIN val, NEW q \in DOMAIN val, val[r] = val[q]
        PROVE  targ'[r] = targ'[q] /\ low'[r] = low'[q] /\ high'[r] = high'[q]
    <3>1. targ[r] = targ[q] /\ low[r] = low[q] /\ high[r] = high[q]
      BY <1>2, <2>5 DEF BoundsEnclose
    <3>2. /\ Mid(r) = Mid(q) /\ (r \in Undecided <=> q \in Undecided)
          /\ (Halves(r) <=> Halves(q)) /\ Decided(r) = Decided(q)
      BY <2>5, <3>1 DEF Mid, Undecided, Halves, IsAt, Decided
    <3> QED BY <2>2, <2>5, <3>1, <3>2
  <2>6. ASSUME ~ Misread, NEW r \in DOMAIN val
        PROVE  /\ targ'[r] \in DOMAIN src => src[targ'[r]] = val[r]
               /\ targ'[r] = NotFound => ~ Found(r)
               /\ targ'[r] = 0 =>
                    \A q \in DOMAIN src : src[q] = val[r] => q \in low'[r] + 1 .. high'[r]
    <3>1. /\ targ[r] \in DOMAIN src => src[targ[r]] = val[r]
          /\ targ[r] = NotFound => ~ Found(r)
          /\ targ[r] = 0 => \A q \in DOMAIN src : src[q] = val[r] => q \in low[r] + 1 .. high[r]
      BY <1>2, <2>6 DEF BoundsEnclose
    <3>2. CASE r \notin Undecided
      BY <2>2, <3>1, <3>2 DEF Undecided, Halves
    <3>3. CASE r \in Undecided /\ IsAt(r)
      <4>1. targ'[r] = Mid(r) + 1 /\ src[Mid(r) + 1] = val[r] /\ src # <<>>
        BY <2>2, <3>3 DEF Decided, IsAt
      <4> QED BY <2>0, <2>3, <4>1 DEF NotFound
    <3>4. CASE r \in Undecided /\ ~ IsAt(r) /\ low[r] = Mid(r)
      <4>1. targ'[r] = NotFound
        BY <2>2, <3>4 DEF Decided
      <4>2. ~ Found(r)
        <5>1. targ[r] = 0
          BY <3>4 DEF Undecided
        <5>2. SUFFICES ASSUME NEW q \in DOMAIN src, src[q] = val[r] PROVE FALSE
          BY DEF Found
        <5>3. q \in low[r] + 1 .. high[r] /\ src # <<>>
          BY <2>0, <3>1, <5>1, <5>2
        <5>4. q = Mid(r) + 1
          BY <2>0, <2>2, <2>3, <3>4, <5>3
        <5> QED BY <3>4, <5>2, <5>3, <5>4 DEF IsAt
      <4> QED BY <2>0, <4>1, <4>2 DEF NotFound
    <3>5. CASE Halves(r)
      <4>1. targ[r] = 0 /\ targ'[r] = 0 /\ src # <<>>
        BY <2>2, <2>3, <3>5 DEF Halves, Undecided, Decided
      <4>2. SUFFICES ASSUME NEW q \in DOMAIN src, src[q] = val[r]
                     PROVE  q \in low'[r] + 1 .. high'[r]
        BY <2>0, <4>1 DEF NotFound
      <4>3. q \in low[r] + 1 .. high[r]
        BY <3>1, <4>1, <4>2
      <4>4. \A a, b \in DOMAIN src : a <= b => src[a] <= src[b]
        BY <1>2, <2>6, SourceAscends
      <4>5. /\ Mid(r) \in Nat /\ Mid(r) + 1 \in DOMAIN src /\ src[Mid(r) + 1] \in Int
            /\ src[q] \in Int /\ src[Mid(r) + 1] # val[r] /\ q \in Nat
            /\ low[r] \in Nat /\ high[r] \in Nat
        BY <2>0, <2>2, <2>3, <3>5, <4>1 DEF Halves, IsAt
      <4>6. CASE src[Mid(r) + 1] <= val[r]
        <5>1. low'[r] = Mid(r) /\ high'[r] = high[r]
          BY <2>2, <3>5, <4>2, <4>5, <4>6
        <5>2. ~ (q <= Mid(r) + 1)
          BY <4>2, <4>4, <4>5, <4>6
        <5> QED BY <4>3, <4>5, <5>1, <5>2
      <4>7. CASE src[Mid(r) + 1] > val[r]
        <5>1. low'[r] = low[r] /\ high'[r] = Mid(r)
          BY <2>2, <3>5, <4>2, <4>5, <4>7
        <5>2. ~ (Mid(r) + 1 <= q)
          BY <4>2, <4>4, <4>5, <4>7
        <5> QED BY <4>3, <4>5, <5>1, <5>2
      <4> QED BY <4>2, <4>5, <4>6, <4>7
    <3> QED BY <3>2, <3>3, <3>4, <3>5 DEF Halves
  <2>7. /\ targ' \in [DOMAIN val -> 0 .. NotFound]
        /\ low' \in [DOMAIN val -> 0 .. Len(src)] /\ high' \in [DOMAIN val -> 0 .. Len(src)]
    BY <2>1, <2>4
  <2>8. (Misread' <=> Misread) /\ \A r \in DOMAIN val : Found(r)' <=> Found(r)
    BY <1>1 DEF Misread, isOrdered, Found
  <2> QED BY <1>1, <2>4, <2>5, <2>6, <2>7, <2>8 DEF BoundsEnclose, NotFound
<1>8. Searching'
  BY <1>1, <1>2, <1>7 DEF Searching, Hashing
<1> QED BY <1>3, <1>4, <1>5, <1>6, <1>8 DEF SearchInv

LEMMA BisectedInv ==
  ASSUME SearchInv, Bisected
  PROVE  SearchInv'
<1>1. /\ pc = "bisect" /\ pc' = "found" /\ Undecided = {}
      /\ UNCHANGED <<op, typ, src, val, row, t, hashCur, targ, rtn, hHeap, hHeapCur>>
  BY DEF Bisected, searched, heap
<1>2. /\ Probes /\ isOrdered /\ row = 0 /\ t = NULL /\ rtn = <<>> /\ BoundsEnclose
      /\ Operands
  BY <1>1 DEF SearchInv, Position, Searching, Hashing
<1>3. Operands'
  BY <1>1, OperandsKept DEF SearchInv, searched
<1>4. Position'
  BY <1>1, <1>2 DEF SearchInv, Position, Probes, IsUnique, Hashing, isOrdered
<1>5. HeapTypes'
  BY <1>1 DEF SearchInv, HeapTypes, Hashing
<1>6. FreeMemoryIsClear' /\ OldLinks' /\ ChainsEnd'
  BY <1>1, HeapKept DEF SearchInv, heap
<1>7. TargetsFound'
  <2>0. Len(src) \in Nat /\ DOMAIN src = 1 .. Len(src)
    BY <1>2 DEF Operands
  <2>1. \A r \in DOMAIN val : targ[r] \in 0 .. NotFound /\ targ[r] # 0
    BY <1>1, <1>2 DEF BoundsEnclose, Undecided
  <2>2. \A r \in DOMAIN val : targ[r] \in 1 .. NotFound
    BY <2>0, <2>1 DEF NotFound
  <2>3. targ \in [DOMAIN val -> 1 .. NotFound]
    BY <1>2, <2>2 DEF BoundsEnclose
  <2>4. ASSUME ~ Misread, NEW r \in DOMAIN val
        PROVE  IF Found(r) THEN targ[r] \in DOMAIN src /\ src[targ[r]] = val[r]
               ELSE targ[r] = NotFound
    <3>1. /\ targ[r] \in DOMAIN src => src[targ[r]] = val[r]
          /\ targ[r] = NotFound => ~ Found(r)
      BY <1>2, <2>4 DEF BoundsEnclose
    <3>2. targ[r] \in DOMAIN src \/ targ[r] = NotFound
      BY <2>0, <2>2 DEF NotFound
    <3> QED BY <3>1, <3>2 DEF Found
  <2>5. ASSUME NEW r \in DOMAIN val, NEW q \in DOMAIN val, val[r] = val[q]
        PROVE  targ[r] = targ[q]
    BY <1>2, <2>5 DEF BoundsEnclose
  <2>6. (Misread' <=> Misread) /\ isOrdered' /\ \A r \in DOMAIN val : Found(r)' <=> Found(r)
    BY <1>1, <1>2 DEF Misread, isOrdered, Found
  <2> QED BY <1>1, <1>2, <2>3, <2>4, <2>5, <2>6 DEF TargetsFound, NotFound, Probes
<1>8. Searching'
  BY <1>1, <1>2, <1>7 DEF Searching, Hashing
<1> QED BY <1>3, <1>4, <1>5, <1>6, <1>8 DEF SearchInv

LEMMA TargetsKept ==
  ASSUME TargetsFound, UNCHANGED <<op, typ, src, val, targ>>
  PROVE  TargetsFound'
<1>1. (Misread' <=> Misread) /\ (isOrdered' <=> isOrdered)
  BY DEF Misread, isOrdered
<1>2. \A r : (Found(r)' <=> Found(r)) /\ FirstRow(val[r])' = FirstRow(val[r])
  BY DEF Found, FirstRow, NotFound
<1>3. NotFound' = NotFound /\ (Probes' <=> Probes)
  BY DEF NotFound, Probes
<1> QED BY <1>1, <1>2, <1>3 DEF TargetsFound

LEMMA ReturnRowsInv ==
  ASSUME SearchInv, ReturnRows
  PROVE  SearchInv'
<1>1. /\ pc = "found" /\ pc' \in {"copy", "returned"}
      /\ IF IsUnique THEN pc' = "copy" /\ row' = 1 /\ rtn' = rtn
         ELSE pc' = "returned" /\ row' = 0 /\ rtn' = targ
      /\ UNCHANGED <<op, typ, src, val, t, hashCur, targ, hHeap, hHeapCur>>
  BY DEF ReturnRows, searched, heap
<1>2. row = 0 /\ t = NULL /\ rtn = <<>> /\ TargetsFound /\ Operands
  BY <1>1 DEF SearchInv, Position, Searching, Hashing
<1>3. Operands'
  BY <1>1, OperandsKept DEF SearchInv, searched
<1>4. Position'
  <2>1. IsUnique => Probes
    BY DEF IsUnique, Probes
  <2>2. 1 \in 1 .. Len(src) + 1
    BY <1>2 DEF Operands
  <2> QED BY <1>1, <1>2, <2>1, <2>2 DEF SearchInv, Position, Probes, IsUnique, Hashing
<1>5. HeapTypes'
  BY <1>1 DEF SearchInv, HeapTypes, Hashing
<1>6. FreeMemoryIsClear' /\ OldLinks' /\ ChainsEnd'
  BY <1>1, HeapKept DEF SearchInv, heap
<1>7. Searching'
  <2>1. TargetsFound'
    BY <1>1, <1>2, TargetsKept
  <2>2. CASE IsUnique
    <3>1. RowsCopied(0)'
      BY <1>1, <1>2, <2>2 DEF RowsCopied
    <3> QED BY <1>1, <2>1, <2>2, <3>1 DEF Searching, Hashing
  <2>3. CASE ~ IsUnique
    BY <1>1, <2>1, <2>3 DEF Searching, Hashing, IsUnique
  <2> QED BY <2>2, <2>3
<1> QED BY <1>3, <1>4, <1>5, <1>6, <1>7 DEF SearchInv

LEMMA CopyRowInv ==
  ASSUME SearchInv, CopyRow
  PROVE  SearchInv'
<1>1. /\ pc = "copy" /\ pc' = "copy" /\ row <= Len(src) /\ row' = row + 1
      /\ rtn' = IF targ[row] = row THEN Append(rtn, row) ELSE rtn
      /\ UNCHANGED <<op, typ, src, val, t, hashCur, targ, hHeap, hHeapCur>>
  BY DEF CopyRow, searched, heap
<1>2. /\ Probes /\ IsUnique /\ row \in 1 .. Len(src) + 1 /\ t = NULL /\ TargetsFound
      /\ RowsCopied(row - 1) /\ Operands
  BY <1>1 DEF SearchInv, Position, Searching, Hashing
<1>3. Len(src) \in Nat /\ DOMAIN targ = 1 .. Len(src) /\ row \in 1 .. Len(src)
  BY <1>1, <1>2 DEF Operands, TargetsFound
<1>4. Operands'
  BY <1>1, OperandsKept DEF SearchInv, searched
<1>5. Position'
  BY <1>1, <1>2, <1>3 DEF SearchInv, Position, Probes, IsUnique, Hashing
<1>6. HeapTypes'
  BY <1>1 DEF SearchInv, HeapTypes, Hashing
<1>7. FreeMemoryIsClear' /\ OldLinks' /\ ChainsEnd'
  BY <1>1, HeapKept DEF SearchInv, heap
<1>8. RowsCopied(row - 1)'
  <2> DEFINE n == row - 1
             R == 1 .. n
             N == Len(rtn)
  <2>0. n \in Nat /\ row = n + 1 /\ row \notin R /\ 1 .. row = R \cup {row} /\ row \in DOMAIN targ
    BY <1>3
  <2>1. /\ rtn \in Seq(R)
        /\ \A k \in DOMAIN rtn : rtn[k] \in DOMAIN targ /\ targ[rtn[k]] = rtn[k]
        /\ \A k, l \in DOMAIN rtn : k # l => rtn[k] # rtn[l]
        /\ \A r \in R : targ[r] = r => \E k \in DOMAIN rtn : rtn[k] = r
    BY <1>2 DEF RowsCopied
  <2> HIDE DEF n, R
  <2>2. N \in Nat /\ DOMAIN rtn = 1 .. N /\ \A k \in 1 .. N : rtn[k] \in R
    BY <2>1, SequenceItems
  <2>3. rtn \in Seq(1 .. row)
    BY <2>0, <2>1, SeqMonotone
  <2> DEFINE Q == 1 .. row
             Copies(s) == /\ s \in Seq(Q)
                          /\ \A k \in DOMAIN s : s[k] \in DOMAIN targ /\ targ[s[k]] = s[k]
                          /\ \A k, l \in DOMAIN s : k # l => s[k] # s[l]
                          /\ \A r \in Q : targ[r] = r => \E k \in DOMAIN s : s[k] = r
  <2>4. ASSUME targ[row] = row PROVE Copies(rtn')
    <3> DEFINE s == Append(rtn, row)
    <3>0. row \in Q
      BY <1>3
    <3>1. /\ s \in Seq(Q) /\ Len(s) = N + 1
          /\ s[N + 1] = row /\ \A k \in 1 .. N : s[k] = rtn[k]
      BY <2>3, <3>0, AppendedItems
    <3> HIDE DEF s, N
    <3>2. DOMAIN s = (1 .. N) \cup {N + 1}
      BY <2>2, <3>1, SequenceItems
    <3> DEFINE M == N + 1
    <3>3. s[M] = row /\ DOMAIN s = (1 .. N) \cup {M} /\ M \notin 1 .. N
      BY <2>2, <3>1, <3>2
    <3> HIDE DEF M
    <3>4. \A k \in DOMAIN s : s[k] \in DOMAIN targ /\ targ[s[k]] = s[k]
      BY <2>0, <2>1, <2>2, <2>4, <3>1, <3>3
    <3>5. \A k, l \in DOMAIN s : k # l => s[k] # s[l]
      BY <2>0, <2>1, <2>2, <3>1, <3>3
    <3>6. \A r \in Q : targ[r] = r => \E k \in DOMAIN s : s[k] = r
      BY <2>0, <2>1, <2>2, <3>1, <3>3
    <3>7. Copies(s)
      BY <3>1, <3>4, <3>5, <3>6
    <3>8. rtn' = s
      BY <1>1, <2>4 DEF s
    <3> QED BY <3>7, <3>8
  <2>5. ASSUME targ[row] # row PROVE Copies(rtn')
    <3>1. \A r \in Q : targ[r] = r => \E k \in DOMAIN rtn : rtn[k] = r
      BY <2>0, <2>1, <2>5
    <3> QED BY <1>1, <2>1, <2>3, <2>5, <3>1
  <2>6. Copies(rtn')
    BY <2>4, <2>5
  <2>7. row' - 1 = row
    BY <1>1, <1>3
  <2> QED BY <1>1, <2>6, <2>7 DEF RowsCopied
<1>9. Searching'
  BY <1>1, <1>2, <1>8, TargetsKept DEF Searching, Hashing
<1> QED BY <1>4, <1>5, <1>6, <1>7, <1>9 DEF SearchInv

LEMMA CopiedInv ==
  ASSUME SearchInv, Copied
  PROVE  SearchInv'
<1>1. /\ pc = "copy" /\ pc' = "returned" /\ row > Len(src) /\ row' = 0
      /\ UNCHANGED <<op, typ, src, val, t, hashCur, targ, rtn, hHeap, hHeapCur>>
  BY DEF Copied, searched, heap
<1>2. /\ Probes /\ IsUnique /\ row \in 1 .. Len(src) + 1 /\ t = NULL /\ TargetsFound
      /\ RowsCopied(row - 1) /\ Operands
  BY <1>1 DEF SearchInv, Position, Searching, Hashing
<1>3. Operands'
  BY <1>1, OperandsKept DEF SearchInv, searched
<1>4. Position'
  BY <1>1, <1>2 DEF SearchInv, Position, Probes, IsUnique, Hashing
<1>5. HeapTypes'
  BY <1>1 DEF SearchInv, HeapTypes, Hashing
<1>6. FreeMemoryIsClear' /\ OldLinks' /\ ChainsEnd'
  BY <1>1, HeapKept DEF SearchInv, heap
<1>7. RowsCopied(Len(src))'
  <2>1. row - 1 = Len(src)
    BY <1>1, <1>2 DEF Operands
  <2> QED BY <1>1, <1>2, <2>1 DEF RowsCopied
<1>8. Searching'
  BY <1>1, <1>2, <1>7, TargetsKept DEF Searching, Hashing, IsUnique
<1> QED BY <1>3, <1>4, <1>5, <1>6, <1>8 DEF SearchInv

LEMMA DoneInv ==
  ASSUME SearchInv, Done
  PROVE  SearchInv'
<1>1. /\ pc = "returned" /\ pc' = "idle" /\ op' = "none" /\ typ' = "other"
      /\ src' = <<>> /\ val' = <<>> /\ row' = 0 /\ t' = NULL /\ hashCur' = 0
      /\ targ' = <<>> /\ rtn' = <<>>
      /\ UNCHANGED <<hHeap, hHeapCur>>
  BY DEF Done, heap
<1>2. HeapTypes /\ FreeMemoryIsClear /\ ChainsEnd
  BY DEF SearchInv
<1>3. Operands'
  BY <1>1, ConstantTypes DEF Operands, IsUnique
<1>4. Position'
  BY <1>1, ConstantTypes DEF Position, Probes, IsUnique, Hashing
<1>5. HeapTypes'
  BY <1>1, <1>2 DEF HeapTypes, Hashing
<1>6. FreeMemoryIsClear' /\ OldLinks' /\ ChainsEnd'
  BY <1>1, <1>2 DEF FreeMemoryIsClear, OldLinks, ChainsEnd, hN
<1>7. Searching'
  BY <1>1 DEF Searching, Hashing
<1> QED BY <1>3, <1>4, <1>5, <1>6, <1>7 DEF SearchInv

----------------------------------------------------------------------------
(* The steps with a table.                                                 *)

LEMMA CreateInv ==
  ASSUME SearchInv, Create
  PROVE  SearchInv'
<1>1. /\ pc = "create" /\ row' = 1 /\ t' = NULL
      /\ UNCHANGED <<op, typ, src, val, hashCur, targ, rtn, hHeap>>
      /\ IF Fits(hashLen) THEN pc' = "insert" /\ hHeapCur' = hHeapCur + hashLen
         ELSE pc' = "Hash heap full" /\ hHeapCur' = hHeapCur
  BY DEF Create, searched, heap
<1>2. /\ Operands /\ HeapTypes /\ targ = <<>> /\ rtn = <<>> /\ hHeapCur = hashCur
      /\ typ # "bool" /\ (Probes => ~ isOrdered)
  BY <1>1 DEF SearchInv, Position, HeapTypes, Searching, Hashing
<1>3. hashLen \in Nat /\ hashLen > 0 /\ hashLen' = hashLen
  BY <1>1, <1>2, HashLenType DEF hashLen
<1>4. Operands'
  BY <1>1, OperandsKept DEF SearchInv, searched
<1>5. Position'
  <2>1. 1 \in 1 .. Len(src) + 1 /\ 1 \in 0 .. Len(src) + 1
    BY <1>2 DEF Operands
  <2> QED BY <1>1, <1>2, <2>1, ConstantTypes DEF Position, Probes, IsUnique, Hashing, isOrdered
<1>6. CASE Fits(hashLen)
  <2> DEFINE top == hHeapCur + hashLen
  <2>1. pc' = "insert" /\ hHeapCur' = top /\ top < INIT_HASH_SIZE /\ top \in Nat /\ hHeapCur < top
    BY <1>1, <1>2, <1>3, <1>6 DEF Fits, HeapTypes
  <2>2. \A a \in hHeapCur .. INIT_HASH_SIZE - 1 : hHeap[a] = Clear
    BY DEF SearchInv, FreeMemoryIsClear
  <2>3. HeapTypes'
    BY <1>1, <1>2, <1>3, <2>1 DEF HeapTypes, Hashing
  <2>4. FreeMemoryIsClear'
    BY <1>1, <1>2, <2>1, <2>2, ConstantTypes DEF FreeMemoryIsClear, HeapTypes
  <2>5. \A a \in hHeapCur .. top - 1 : hN(a) = NULL
    BY <1>2, <2>1, <2>2, ConstantTypes DEF HeapTypes, hN
  <2>6. OldLinks'
    BY <1>1 DEF SearchInv, OldLinks, hN
  <2>7. ChainsEnd'
    <3> SUFFICES ASSUME NEW a \in 0 .. top - 1, hN(a) # NULL
                 PROVE  hN(a) \in a + 1 .. top - 1
      BY <1>1, <2>1 DEF ChainsEnd, hN
    <3>1. a \in 0 .. hHeapCur - 1
      BY <1>2, <2>1, <2>5 DEF HeapTypes
    <3>2. hN(a) \in a + 1 .. hHeapCur - 1
      BY <3>1 DEF SearchInv, ChainsEnd
    <3> QED BY <1>2, <2>1, <3>2 DEF HeapTypes
  <2>8. NodeWords' = {}
    BY <1>1, <1>2, <1>3, <2>1 DEF NodeWords, HeapTypes
  <2>9. NodesAreFirstRows'
    <3>1. Known' = {}
      BY <1>1, <2>1 DEF Known
    <3> QED BY <2>8, <3>1 DEF NodesAreFirstRows
  <2>10. LinkedInOrder'
    BY <1>1, <1>2, <2>1, <2>5, <2>8 DEF LinkedInOrder, hN
  <2>11. CursorPasses'
    BY <1>1 DEF CursorPasses
  <2>12. Searching'
    BY <1>1, <1>2, <2>1, <2>9, <2>10, <2>11 DEF Searching, Hashing
  <2> QED BY <1>4, <1>5, <2>3, <2>4, <2>6, <2>7, <2>12 DEF SearchInv
<1>7. CASE ~ Fits(hashLen)
  <2>1. HeapTypes'
    BY <1>1, <1>2, <1>7 DEF HeapTypes, Hashing
  <2>2. FreeMemoryIsClear' /\ OldLinks' /\ ChainsEnd'
    BY <1>1, <1>7, HeapKept DEF SearchInv, heap
  <2>3. Searching'
    BY <1>1, <1>2, <1>7 DEF Searching, Hashing
  <2> QED BY <1>4, <1>5, <2>1, <2>2, <2>3 DEF SearchInv
<1> QED BY <1>6, <1>7

\* What a walk along a chain knows of the next node.
LEMMA Walk ==
  ASSUME SearchInv, Hashing, IF pc = "insert" THEN row <= Len(src) ELSE row <= Len(val),
         NEW w, w = At(Sought)
  PROVE  /\ Sought \in Values /\ Bucket(Sought) \in BucketWords
         /\ w \in hashCur .. hHeapCur - 1 /\ ChainOf(w) = Bucket(Sought)
         /\ hN(w) = NULL => \A b \in NodeWords : ValueAt(b) # Sought
         /\ hN(w) # NULL =>
              /\ hN(w) \in NodeWords /\ ChainOf(hN(w)) = Bucket(Sought)
              /\ hHeap[hN(w)] # Clear /\ hD(hN(w)) \in Known
              /\ \A q \in 1 .. hD(hN(w)) - 1 : src[q] # ValueAt(hN(w))
              /\ \A b \in NodeWords : b < hN(w) => ValueAt(b) # Sought
<1> DEFINE v == Sought
<1>1. /\ Operands /\ Position /\ HeapTypes /\ NodesAreFirstRows /\ LinkedInOrder /\ CursorPasses
      /\ typ # "bool"
  BY DEF SearchInv, Searching, Position, Hashing
<1>2. Sought \in Values
  <2>1. CASE pc = "insert"
    <3>1. row \in DOMAIN src
      BY <1>1, <2>1 DEF Operands, Position
    <3> QED BY <1>1, <2>1, <3>1 DEF Operands, Sought
  <2>2. CASE pc = "find"
    <3>1. row \in DOMAIN val
      BY <1>1, <2>2 DEF Operands, Position
    <3> QED BY <1>1, <2>2, <3>1 DEF Operands, Sought
  <2> QED BY <2>1, <2>2 DEF Hashing
<1>3. hashLen \in Nat /\ hashLen > 0
  BY <1>1, HashLenType
<1>4. Bucket(v) \in BucketWords
  BY <1>1, <1>2, BucketInTable DEF HeapTypes
<1>5. hashCur \in Nat /\ hHeapCur \in Nat /\ hashCur + hashLen <= hHeapCur
  BY <1>1 DEF HeapTypes
<1> HIDE DEF v
<1>6. \A a \in BucketWords : a \notin NodeWords /\ \A b \in NodeWords : a < b
  BY <1>3, <1>5 DEF BucketWords, NodeWords
<1>7. \A b \in NodeWords : ChainOf(b) = Bucket(ValueAt(b))
  BY <1>6 DEF ChainOf
<1>8. /\ w \in hashCur .. hHeapCur - 1 /\ ChainOf(w) = Bucket(v)
      /\ \A b \in NodeWords : b <= w => ValueAt(b) # v
  <2>1. CASE t = NULL
    <3>1. w = Bucket(v) /\ w \in BucketWords
      BY <1>4, <2>1 DEF At, v
    <3>2. ChainOf(w) = Bucket(v)
      BY <3>1 DEF ChainOf
    <3>3. w \in hashCur .. hHeapCur - 1
      BY <1>3, <1>5, <3>1 DEF BucketWords
    <3>4. \A b \in NodeWords : b \in Nat /\ w < b
      BY <1>5, <1>3, <1>6, <3>1 DEF NodeWords
    <3>5. \A b \in NodeWords : ~ (b <= w)
      BY <3>3, <3>4, <1>5
    <3> QED BY <3>2, <3>3, <3>5
  <2>2. CASE t # NULL
    <3>1. w = t /\ t \in NodeWords
      BY <1>1, <2>2 DEF At, CursorPasses
    <3>2. w \in hashCur .. hHeapCur - 1
      BY <1>3, <1>5, <3>1 DEF NodeWords
    <3> QED BY <1>1, <2>2, <3>1, <3>2 DEF CursorPasses, v
  <2> QED BY <2>1, <2>2
<1>9. /\ hN(w) # NULL => hN(w) \in NodeWords /\ w < hN(w) /\ ChainOf(hN(w)) = ChainOf(w)
      /\ \A b \in NodeWords : w < b /\ (hN(w) = NULL \/ b < hN(w)) => ChainOf(b) # ChainOf(w)
  BY <1>1, <1>8 DEF LinkedInOrder
<1>10. \A b \in NodeWords : ~ (b <= w) => w < b
  BY <1>3, <1>5, <1>8 DEF NodeWords
<1>11. \A b \in NodeWords : (hN(w) = NULL \/ b < hN(w)) => ValueAt(b) # v
  BY <1>7, <1>8, <1>9, <1>10
<1>12. hN(w) # NULL => /\ hHeap[hN(w)] # Clear /\ hD(hN(w)) \in Known
                       /\ \A q \in 1 .. hD(hN(w)) - 1 : src[q] # ValueAt(hN(w))
  BY <1>1, <1>9 DEF NodesAreFirstRows
<1> QED BY <1>2, <1>4, <1>8, <1>9, <1>11, <1>12 DEF v

\* A new node at the end of its chain.
LEMMA NewNodeInv ==
  ASSUME SearchInv, InsertRow, NEW top, top = hHeapCur, NEW v, v = src[row], NEW w, w = At(v),
         hN(w) = NULL, Fits(1), hHeap' = InsertAtEnd(v), hHeapCur' = top + 1,
         row' = row + 1, t' = NULL, pc' = pc
  PROVE  SearchInv'
<1>1. /\ pc = "insert" /\ pc' = "insert" /\ row <= Len(src)
      /\ UNCHANGED <<op, typ, src, val, hashCur, targ, rtn>>
  BY DEF InsertRow, searched
<1>2. /\ Operands /\ Position /\ HeapTypes /\ FreeMemoryIsClear /\ OldLinks /\ ChainsEnd
      /\ NodesAreFirstRows /\ LinkedInOrder /\ targ = <<>> /\ rtn = <<>>
  BY <1>1 DEF SearchInv, Searching, Hashing
<1>3. v = Sought /\ Sought' = src[row'] /\ Hashing /\ Hashing'
  BY <1>1 DEF Sought, Hashing
<1>4. /\ v \in Values /\ Bucket(v) \in BucketWords /\ w \in hashCur .. top - 1
      /\ ChainOf(w) = Bucket(v) /\ \A b \in NodeWords : ValueAt(b) # v
  BY <1>1, <1>3, Walk
<1>5. /\ hashLen \in Nat /\ hashLen > 0 /\ hashCur \in Nat /\ top \in Nat
      /\ hashCur + hashLen <= top /\ top + 1 < INIT_HASH_SIZE
  BY <1>2, <1>3, HashLenType DEF HeapTypes, Fits
<1>6. row \in 1 .. Len(src) /\ Len(src) \in Nat /\ Len(src) <= MaxSrc /\ row \in 1 .. MaxSrc
  BY <1>1, <1>2, ConstantTypes DEF Operands, Position
<1>7. top \in Words /\ top + 1 \in Words /\ w \in 0 .. top - 1 /\ NULL \notin Words
  BY <1>4, <1>5, ConstantTypes
<1>8. /\ hHeap' \in [Words -> {Clear} \cup Node1(MaxSrc)]
      /\ \A a \in Words : hN(a)' = IF a = w THEN top ELSE IF a = top THEN NULL ELSE hN(a)
      /\ \A a \in Words : a # top /\ hHeap[a] # Clear =>
           hHeap'[a] # Clear /\ hD(a)' = hD(a)
      /\ hHeap'[top] # Clear /\ hD(top)' = row
      /\ \A a \in Words : a # top /\ a # w => hHeap'[a] = hHeap[a]
  <2> DEFINE new == [h_index |-> row, next |-> NULL]
             link == Linked(w, top)
  <2>1. /\ w # top /\ w \in Words /\ Clear \notin Node1(MaxSrc)
        /\ hHeap \in [Words -> {Clear} \cup Node1(MaxSrc)]
    BY <1>2, <1>7, ConstantTypes DEF Node1, HeapTypes
  <2>2. new \in Node1(MaxSrc) /\ new.next = NULL /\ new.h_index = row
    BY <1>6 DEF Node1
  <2>3. /\ link \in Node1(MaxSrc) /\ link.next = top
        /\ hHeap[w] # Clear => link.h_index = hHeap[w].h_index
    <3>1. CASE hHeap[w] = Clear
      BY <1>7, <3>1, ConstantTypes DEF Linked, Link, Node1
    <3>2. CASE hHeap[w] # Clear
      <4>1. hHeap[w] \in Node1(MaxSrc)
        BY <2>1, <3>2
      <4>2. link = [hHeap[w] EXCEPT !.next = top]
        BY <3>2 DEF Linked
      <4> QED BY <1>7, <3>2, <4>1, <4>2 DEF Node1
    <3> QED BY <3>1, <3>2
  <2> HIDE DEF new, link
  <2>4. hHeap' = [hHeap EXCEPT ![top] = new, ![w] = link]
    BY DEF InsertAtEnd, new, link
  <2>5. /\ \A a \in Words : hHeap'[a] = IF a = w THEN link ELSE IF a = top THEN new ELSE hHeap[a]
        /\ hHeap' \in [Words -> {Clear} \cup Node1(MaxSrc)]
    BY <1>7, <2>1, <2>2, <2>3, <2>4
  <2>6. hHeap'[top] # Clear /\ hD(top)' = row
    BY <1>7, <2>1, <2>2, <2>5 DEF hD
  <2>7. \A a \in Words : hN(a)' = IF a = w THEN top ELSE IF a = top THEN NULL ELSE hN(a)
    BY <1>7, <2>1, <2>2, <2>3, <2>5 DEF hN
  <2>8. \A a \in Words : a # top /\ hHeap[a] # Clear => hHeap'[a] # Clear /\ hD(a)' = hD(a)
    BY <2>1, <2>3, <2>5 DEF hD
  <2> QED BY <2>5, <2>6, <2>7, <2>8
<1>9. Operands'
  BY <1>1, <1>2, OperandsKept DEF searched
<1>10. Position'
  <2>1. row' \in 1 .. Len(src) + 1
    BY <1>6
  <2> QED BY <1>1, <1>2, <2>1 DEF Position, Probes, IsUnique, isOrdered
<1>11. hashLen' = hashLen /\ \A u : Bucket(u)' = Bucket(u)
  BY <1>1 DEF hashLen, Bucket
<1>12. HeapTypes'
  BY <1>1, <1>2, <1>5, <1>8, <1>11 DEF HeapTypes, Hashing
<1>13. FreeMemoryIsClear'
  <2> SUFFICES ASSUME NEW a \in top + 1 .. INIT_HASH_SIZE - 1 PROVE hHeap'[a] = Clear
    BY DEF FreeMemoryIsClear
  <2>1. a \in Words /\ a # top /\ a # w /\ a \in top .. INIT_HASH_SIZE - 1
    BY <1>4, <1>5, ConstantTypes
  <2> QED BY <1>2, <1>8, <2>1 DEF FreeMemoryIsClear
<1>14. OldLinks'
  <2> SUFFICES ASSUME NEW a \in 0 .. hashCur - 1 PROVE hN(a)' = hN(a)
    BY <1>1, <1>2 DEF OldLinks
  <2>1. a \in Words /\ a # top /\ a # w
    BY <1>4, <1>5, ConstantTypes
  <2> QED BY <1>8, <2>1
<1>15. ChainsEnd'
  <2> SUFFICES ASSUME NEW a \in 0 .. top, hN(a)' # NULL PROVE hN(a)' \in a + 1 .. top
    BY <1>5 DEF ChainsEnd
  <2>1. a \in Words
    BY <1>5, ConstantTypes
  <2>2. CASE a = w
    BY <1>5, <1>7, <1>8, <2>1, <2>2
  <2>3. CASE a # w
    <3>1. hN(a)' = hN(a) /\ a # top
      BY <1>8, <2>1, <2>3
    <3>2. a \in 0 .. top - 1
      BY <1>5, <3>1
    <3>3. hN(a) \in a + 1 .. top - 1
      BY <1>2, <3>1, <3>2 DEF ChainsEnd
    <3> QED BY <1>5, <3>1, <3>3
  <2> QED BY <2>2, <2>3
<1>16. /\ NodeWords' = NodeWords \cup {top} /\ BucketWords' = BucketWords
       /\ top \notin BucketWords /\ top \notin NodeWords
       /\ \A b \in NodeWords : b \in Words /\ b < top /\ b \notin BucketWords
       /\ \A b \in BucketWords : b \in Words /\ b < top
       /\ hashCur .. top - 1 = BucketWords \cup NodeWords
  BY <1>1, <1>5, <1>11, ConstantTypes DEF NodeWords, BucketWords
<1>17. \A b \in NodeWords : /\ hHeap'[b] # Clear /\ hD(b)' = hD(b) /\ ValueAt(b)' = ValueAt(b)
                            /\ ChainOf(b)' = ChainOf(b)
  <2> TAKE b \in NodeWords
  <2>1. hHeap'[b] # Clear /\ hD(b)' = hD(b)
    BY <1>2, <1>8, <1>16 DEF NodesAreFirstRows
  <2>2. ValueAt(b)' = ValueAt(b)
    BY <1>1, <2>1 DEF ValueAt
  <2> QED BY <1>11, <1>16, <2>1, <2>2 DEF ChainOf
<1>18. ValueAt(top)' = v /\ ChainOf(top)' = Bucket(v)
  <2>1. ValueAt(top)' = v
    BY <1>1, <1>8 DEF ValueAt
  <2> QED BY <1>11, <1>16, <2>1 DEF ChainOf
<1>19. \A b \in BucketWords : ChainOf(b) = b /\ ChainOf(b)' = b
  BY <1>16 DEF ChainOf
<1>20. NodesAreFirstRows'
  <2>1. Known = 1 .. row - 1 /\ Known' = 1 .. row
    BY <1>1, <1>6 DEF Known
  <2>2. \A b \in NodeWords' :
          /\ hHeap'[b] # Clear /\ hD(b)' \in 1 .. row
          /\ \A q \in 1 .. hD(b)' - 1 : src[q] # ValueAt(b)'
    <3> TAKE b \in NodeWords'
    <3>1. CASE b \in NodeWords
      <4>1. hD(b) \in 1 .. row - 1 /\ \A q \in 1 .. hD(b) - 1 : src[q] # ValueAt(b)
        BY <1>2, <2>1, <3>1 DEF NodesAreFirstRows
      <4> QED BY <1>6, <1>17, <3>1, <4>1
    <3>2. CASE b = top
      <4>1. \A q \in 1 .. row - 1 : src[q] # v
        BY <1>2, <1>4, <2>1 DEF NodesAreFirstRows
      <4> QED BY <1>6, <1>8, <1>18, <3>2, <4>1
    <3> QED BY <1>16, <3>1, <3>2
  <2>3. \A r \in 1 .. row : \E a \in NodeWords' : ValueAt(a)' = src[r]
    <3> TAKE r \in 1 .. row
    <3>1. CASE r \in 1 .. row - 1
      BY <1>2, <1>16, <1>17, <2>1, <3>1 DEF NodesAreFirstRows
    <3>2. CASE r = row
      BY <1>16, <1>18, <3>2
    <3> QED BY <1>6, <3>1, <3>2
  <2> QED BY <1>1, <2>1, <2>2, <2>3 DEF NodesAreFirstRows
<1>21. LinkedInOrder'
  <2>1. ASSUME NEW a \in hashCur .. top, NEW n, n = hN(a)'
        PROVE  /\ n # NULL => n \in NodeWords' /\ a < n /\ ChainOf(n)' = ChainOf(a)'
               /\ \A b \in NodeWords' :
                    a < b /\ (n = NULL \/ b < n) => ChainOf(b)' # ChainOf(a)'
    <3>1. a \in Words /\ (a = top \/ a \in hashCur .. top - 1)
      BY <1>5, ConstantTypes
    <3>2. CASE a = top
      <4>1. n = NULL
        BY <1>4, <1>8, <2>1, <3>1, <3>2
      <4>2. \A b \in NodeWords' : ~ (a < b)
        BY <1>5, <1>16, <3>2 DEF NodeWords
      <4> QED BY <4>1, <4>2
    <3>3. CASE a # top
      <4>1. a \in BucketWords \cup NodeWords /\ a < top /\ ChainOf(a)' = ChainOf(a)
        BY <1>16, <1>17, <1>19, <3>1, <3>3
      <4>2. /\ hN(a) # NULL => hN(a) \in NodeWords /\ a < hN(a) /\ ChainOf(hN(a)) = ChainOf(a)
            /\ \A b \in NodeWords :
                 a < b /\ (hN(a) = NULL \/ b < hN(a)) => ChainOf(b) # ChainOf(a)
        BY <1>2, <3>1, <3>3 DEF LinkedInOrder
      <4>3. CASE a = w
        <5>1. n = top /\ hN(a) = NULL
          BY <1>8, <2>1, <3>1, <4>3
        <5>2. ChainOf(n)' = ChainOf(a)'
          BY <1>4, <1>18, <4>1, <4>3, <5>1 DEF ChainOf, ValueAt, hD
        <5>3. \A b \in NodeWords' : b < top => b \in NodeWords /\ ChainOf(b)' = ChainOf(b)
          BY <1>5, <1>16, <1>17
        <5>4. n \in NodeWords' /\ a < n
          BY <1>16, <4>1, <5>1
        <5>5. \A b \in NodeWords' : a < b /\ b < n => ChainOf(b)' # ChainOf(a)'
          BY <4>1, <4>2, <5>1, <5>3
        <5>6. n # NULL
          BY <1>7, <5>1
        <5> QED BY <5>2, <5>4, <5>5, <5>6
      <4>4. CASE a # w
        <5>1. n = hN(a)
          BY <1>8, <2>1, <3>1, <3>3, <4>4
        <5>2. n # NULL => ChainOf(n)' = ChainOf(n) /\ n < top
          BY <1>16, <1>17, <4>2, <5>1
        <5>3. hN(a) = NULL => ChainOf(a) # Bucket(v)
          <6> SUFFICES ASSUME hN(a) = NULL, ChainOf(a) = ChainOf(w) PROVE FALSE
            BY <1>4
          <6>1. a \in BucketWords => w \in NodeWords /\ a < w
            BY <1>5, <1>4, <1>16, <1>19, <4>4 DEF BucketWords, NodeWords
          <6>2. a \in NodeWords => w < a \/ (w \in NodeWords /\ a < w)
            BY <1>4, <1>5, <4>4 DEF NodeWords
          <6>3. ~ (w \in NodeWords /\ a < w)
            BY <4>2
          <6>4. ~ (a \in NodeWords /\ w < a)
            BY <1>2, <1>4 DEF LinkedInOrder
          <6> QED BY <4>1, <6>1, <6>2, <6>3, <6>4
        <5>4. ASSUME NEW b \in NodeWords', a < b, hN(a) = NULL \/ b < hN(a)
              PROVE  ChainOf(b)' # ChainOf(a)'
          <6>1. CASE b \in NodeWords
            BY <1>17, <4>1, <4>2, <5>4, <6>1
          <6>2. CASE b = top
            <7>1. hN(a) = NULL
              BY <1>5, <4>2, <5>4, <6>2 DEF NodeWords
            <7> QED BY <1>18, <4>1, <5>3, <6>2, <7>1
          <6> QED BY <1>16, <6>1, <6>2
        <5>5. n # NULL => n \in NodeWords' /\ a < n /\ ChainOf(n)' = ChainOf(a)'
          BY <1>16, <1>17, <4>1, <4>2, <5>1, <5>2
        <5> QED BY <5>1, <5>4, <5>5
      <4> QED BY <4>3, <4>4
    <3> QED BY <3>2, <3>3
  <2>2. hashCur' .. hHeapCur' - 1 = hashCur .. top
    BY <1>1, <1>5
  <2> QED BY <2>1, <2>2 DEF LinkedInOrder
<1>22. CursorPasses'
  BY DEF CursorPasses
<1>23. Searching'
  BY <1>1, <1>2, <1>20, <1>21, <1>22 DEF Searching, Hashing
<1> QED BY <1>9, <1>10, <1>12, <1>13, <1>14, <1>15, <1>23 DEF SearchInv

\* The table stays while the heap does.
LEMMA TableKept ==
  ASSUME UNCHANGED <<hHeap, hHeapCur, hashCur, src>>
  PROVE  /\ NodeWords' = NodeWords /\ BucketWords' = BucketWords /\ hashLen' = hashLen
         /\ \A a : /\ hN(a)' = hN(a) /\ hD(a)' = hD(a) /\ ValueAt(a)' = ValueAt(a)
                   /\ ChainOf(a)' = ChainOf(a) /\ Bucket(a)' = Bucket(a)
         /\ LinkedInOrder => LinkedInOrder'
<1>1. /\ NodeWords' = NodeWords /\ BucketWords' = BucketWords /\ hashLen' = hashLen
      /\ \A a : hN(a)' = hN(a) /\ hD(a)' = hD(a) /\ ValueAt(a)' = ValueAt(a)
  BY DEF NodeWords, BucketWords, hashLen, hN, hD, ValueAt
<1>2. \A a : ChainOf(a)' = ChainOf(a) /\ Bucket(a)' = Bucket(a)
  BY <1>1 DEF ChainOf, Bucket, ValueAt, hD
<1>3. LinkedInOrder => LinkedInOrder'
  <2>1. hHeap' = hHeap /\ hashCur' = hashCur /\ hHeapCur' = hHeapCur /\ src' = src
    OBVIOUS
  <2>2. \A a : ChainOf(hN(a))' = ChainOf(hN(a))
    BY ONLY <2>1 DEF ChainOf, Bucket, BucketWords, hashLen, ValueAt, hD, hN
  <2> QED BY ONLY <1>1, <1>2, <2>1, <2>2 DEF LinkedInOrder
<1> QED BY <1>1, <1>2, <1>3

LEMMA InsertRowInv ==
  ASSUME SearchInv, InsertRow
  PROVE  SearchInv'
<1>1. /\ pc = "insert" /\ row <= Len(src) /\ Hashing
      /\ UNCHANGED <<op, typ, src, val, hashCur, targ, rtn>>
  BY DEF InsertRow, searched, Hashing
<1>2. /\ Operands /\ Position /\ HeapTypes /\ FreeMemoryIsClear /\ OldLinks /\ ChainsEnd
      /\ NodesAreFirstRows /\ LinkedInOrder /\ targ = <<>> /\ rtn = <<>>
  BY <1>1 DEF SearchInv, Searching
<1>3. PICK v : v = src[row]
  OBVIOUS
<1>4. PICK w : w = At(v)
  OBVIOUS
<1>5. PICK n : n = hN(w)
  OBVIOUS
<1>6. /\ v = Sought /\ ChainOf(w) = Bucket(v)
      /\ n # NULL => /\ n \in NodeWords /\ ChainOf(n) = Bucket(v)
                     /\ \A b \in NodeWords : b < n => ValueAt(b) # v
  <2>1. v = Sought
    BY <1>1, <1>3 DEF Sought
  <2> QED BY <1>1, <1>4, <1>5, <2>1, Walk
<1>7. row \in 1 .. Len(src) /\ Len(src) \in Nat
  BY <1>1, <1>2 DEF Operands, Position
<1>8. CASE /\ n = NULL /\ Fits(1) /\ hHeap' = InsertAtEnd(v) /\ hHeapCur' = hHeapCur + 1
           /\ row' = row + 1 /\ t' = NULL /\ pc' = pc
  BY <1>3, <1>4, <1>5, <1>8, NewNodeInv
<1>9. CASE pc' = "Hash heap full" /\ UNCHANGED <<row, t, heap>>
  <2>1. Operands' /\ FreeMemoryIsClear' /\ OldLinks' /\ ChainsEnd'
    BY <1>1, <1>2, <1>9, OperandsKept, HeapKept DEF searched
  <2>2. Position'
    <3>1. row' = row /\ t' = t
      BY <1>9 DEF heap
    <3>2. row \in 0 .. Len(src) + 1
      BY <1>7
    <3> QED BY <1>1, <1>2, <1>9, <3>1, <3>2 DEF Position
  <2>3. HeapTypes'
    BY <1>1, <1>2, <1>9 DEF HeapTypes, Hashing, heap
  <2>4. Searching'
    BY <1>1, <1>2, <1>9 DEF Searching, Hashing
  <2> QED BY <2>1, <2>2, <2>3, <2>4 DEF SearchInv
<1>10. CASE n # NULL /\ pc' = pc /\ UNCHANGED heap
  <2>1. UNCHANGED <<hHeap, hHeapCur>> /\ pc' = "insert"
    BY <1>1, <1>10 DEF heap
  <2>2. Operands' /\ FreeMemoryIsClear' /\ OldLinks' /\ ChainsEnd'
    BY <1>1, <1>2, <1>10, OperandsKept, HeapKept DEF searched
  <2>3. HeapTypes'
    BY <1>1, <1>2, <2>1 DEF HeapTypes, Hashing, hashLen
  <2>4. /\ NodeWords' = NodeWords /\ LinkedInOrder'
        /\ \A a : /\ hD(a)' = hD(a) /\ ValueAt(a)' = ValueAt(a) /\ ChainOf(a)' = ChainOf(a)
                  /\ Bucket(a)' = Bucket(a)
    BY <1>1, <1>2, <2>1, TableKept
  <2>5. Known = 1 .. row - 1
    BY <1>1 DEF Known
  <2>6. CASE src[hD(n)] = v /\ row' = row + 1 /\ t' = NULL
    <3>1. Position'
      <4>1. row' \in 1 .. Len(src) + 1
        BY <1>7, <2>6
      <4> QED BY <1>1, <1>2, <2>1, <2>6, <4>1 DEF Position, Probes, IsUnique, isOrdered
    <3>2. Known' = 1 .. row
      BY <1>7, <2>1, <2>6 DEF Known
    <3>3. \A a \in NodeWords : /\ hHeap[a] # Clear /\ hD(a) \in 1 .. row
                               /\ \A q \in 1 .. hD(a) - 1 : src[q] # ValueAt(a)
      BY <1>2, <1>7, <2>5 DEF NodesAreFirstRows
    <3>4. \A r \in 1 .. row : \E a \in NodeWords : ValueAt(a) = src[r]
      <4> TAKE r \in 1 .. row
      <4>1. CASE r \in 1 .. row - 1
        BY <1>2, <2>5, <4>1 DEF NodesAreFirstRows
      <4>2. CASE r = row
        BY <1>3, <1>6, <1>10, <2>6, <4>2 DEF ValueAt
      <4> QED BY <1>7, <4>1, <4>2
    <3>5. NodesAreFirstRows'
      BY <1>1, <2>1, <2>4, <3>2, <3>3, <3>4 DEF NodesAreFirstRows
    <3>6. CursorPasses'
      BY <2>6 DEF CursorPasses
    <3>7. Searching'
      BY <1>1, <1>2, <2>1, <2>4, <3>5, <3>6 DEF Searching, Hashing
    <3> QED BY <2>2, <2>3, <3>1, <3>7 DEF SearchInv
  <2>7. CASE src[hD(n)] # v /\ t' = n /\ row' = row
    <3>1. n \in Nat /\ n \in Words /\ \A b \in NodeWords : b \in Nat
      <4>1. hashLen \in Nat /\ hashCur \in Nat /\ hHeapCur \in Nat /\ hHeapCur < INIT_HASH_SIZE
        BY <1>2, HashLenType DEF HeapTypes
      <4> QED BY <1>6, <1>10, <4>1, ConstantTypes DEF NodeWords
    <3>2. Position'
      BY <1>1, <1>2, <2>1, <2>7, <3>1 DEF Position, Probes, IsUnique, isOrdered
    <3>3. Known' = Known
      BY <1>1, <2>1, <2>7 DEF Known
    <3>4. NodesAreFirstRows'
      BY <1>1, <1>2, <2>1, <2>4, <3>3 DEF NodesAreFirstRows
    <3>5. Sought' = v
      BY <1>1, <1>3, <2>1, <2>7 DEF Sought
    <3>6. \A b \in NodeWords : b <= n => ValueAt(b) # v
      BY <1>6, <1>10, <2>7, <3>1 DEF ValueAt
    <3>7. /\ row' <= Len(src') /\ t' \in NodeWords' /\ ChainOf(t)' = Bucket(Sought)'
          /\ \A b \in NodeWords' : b <= t' => ValueAt(b)' # Sought'
      <4>1. ChainOf(t)' = Bucket(v)
        BY <1>1, <1>6, <1>10, <2>1, <2>7 DEF ChainOf, BucketWords, hashLen, Bucket, ValueAt, hD
      <4>2. Bucket(Sought)' = Bucket(v)
        BY <1>1, <3>5 DEF Bucket, hashLen
      <4> QED BY <1>1, <1>6, <1>10, <2>4, <2>7, <3>5, <3>6, <4>1, <4>2
    <3>8. CursorPasses'
      BY <2>1, <3>7 DEF CursorPasses
    <3>9. Searching'
      BY <1>1, <1>2, <2>1, <2>4, <3>4, <3>8 DEF Searching, Hashing
    <3> QED BY <2>2, <2>3, <3>2, <3>9 DEF SearchInv
  <2>8. \/ src[hD(n)] = v /\ row' = row + 1 /\ t' = NULL
        \/ src[hD(n)] # v /\ t' = n /\ row' = row
    BY <1>3, <1>4, <1>5, <1>10 DEF InsertRow
  <2> QED BY <2>6, <2>7, <2>8
<1>11. \/ /\ n = NULL /\ Fits(1) /\ hHeap' = InsertAtEnd(v) /\ hHeapCur' = hHeapCur + 1
          /\ row' = row + 1 /\ t' = NULL /\ pc' = pc
       \/ pc' = "Hash heap full" /\ UNCHANGED <<row, t, heap>>
       \/ n # NULL /\ pc' = pc /\ UNCHANGED heap
  BY <1>3, <1>4, <1>5 DEF InsertRow
<1> QED BY <1>8, <1>9, <1>10, <1>11

LEMMA InsertedInv ==
  ASSUME SearchInv, Inserted
  PROVE  SearchInv'
<1>1. /\ pc = "insert" /\ pc' = "find" /\ row > Len(src) /\ row' = 1 /\ Hashing
      /\ UNCHANGED <<op, typ, src, val, t, hashCur, targ, rtn, hHeap, hHeapCur>>
  BY DEF Inserted, searched, heap, Hashing
<1>2. /\ Operands /\ Position /\ HeapTypes /\ NodesAreFirstRows /\ LinkedInOrder /\ CursorPasses
      /\ targ = <<>> /\ rtn = <<>> /\ row \in 1 .. Len(src) + 1
  BY <1>1 DEF SearchInv, Searching, Position
<1>3. Len(src) \in Nat /\ row - 1 = Len(src) /\ Len(val) \in Nat /\ t = NULL
  BY <1>1, <1>2 DEF Operands, CursorPasses
<1>4. Operands' /\ FreeMemoryIsClear' /\ OldLinks' /\ ChainsEnd'
  BY <1>1, <1>2, OperandsKept, HeapKept DEF SearchInv, searched, heap
<1>5. Position'
  <2>1. row' \in 1 .. Len(val) + 1
    BY <1>1, <1>3
  <2> QED BY <1>1, <1>2, <1>3, <2>1 DEF Position, Probes, IsUnique, isOrdered
<1>6. HeapTypes'
  BY <1>1, <1>2 DEF HeapTypes, Hashing, hashLen
<1>7. NodesAreFirstRows' /\ LinkedInOrder'
  <2>1. Known' = Known
    BY <1>1, <1>3 DEF Known
  <2>2. /\ NodeWords' = NodeWords /\ LinkedInOrder'
        /\ \A a : hD(a)' = hD(a) /\ ValueAt(a)' = ValueAt(a)
    BY <1>1, <1>2, TableKept
  <2> QED BY <1>1, <1>2, <2>1, <2>2 DEF NodesAreFirstRows
<1>8. CursorPasses'
  BY <1>1, <1>3 DEF CursorPasses
<1>9. TargetsSoFar'
  BY <1>1, <1>2 DEF TargetsSoFar
<1>10. Searching'
  BY <1>1, <1>2, <1>7, <1>8, <1>9 DEF Searching, Hashing
<1> QED BY <1>4, <1>5, <1>6, <1>10 DEF SearchInv

\* The end of a walk of find_hash tells the first row of the value.
LEMMA WalkEnds ==
  ASSUME SearchInv, pc = "find", row <= Len(val), NEW v, v = val[row], NEW n, n = hN(At(v)),
         n = NULL \/ src[hD(n)] = v
  PROVE  FirstRow(v) = IF n = NULL THEN NotFound ELSE hD(n)
<1>1. Operands /\ NodesAreFirstRows /\ Hashing /\ Len(src) \in Nat /\ DOMAIN src = 1 .. Len(src)
  BY DEF SearchInv, Searching, Hashing, Operands
<1>2. PICK w : w = At(v)
  OBVIOUS
<1>3. v = Sought /\ n = hN(w)
  BY <1>2 DEF Sought
<1>4. Known = DOMAIN src
  BY <1>1 DEF Known
<1>5. /\ n = NULL => \A b \in NodeWords : ValueAt(b) # v
      /\ n # NULL => hD(n) \in Known /\ \A q \in 1 .. hD(n) - 1 : src[q] # ValueAt(n)
  BY <1>1, <1>2, <1>3, Walk
<1>6. CASE n = NULL
  <2>1. \A q \in DOMAIN src : src[q] # v
    BY <1>1, <1>4, <1>5, <1>6 DEF NodesAreFirstRows
  <2> QED BY <1>1, <1>6, <2>1, FirstRowFinds
<1>7. CASE n # NULL
  <2>1. hD(n) \in DOMAIN src /\ src[hD(n)] = v /\ \A q \in 1 .. hD(n) - 1 : src[q] # v
    BY <1>4, <1>5, <1>7 DEF ValueAt
  <2>2. /\ FirstRow(v) \in DOMAIN src /\ src[FirstRow(v)] = v
        /\ \A q \in 1 .. FirstRow(v) - 1 : src[q] # v
    BY <1>1, <2>1, FirstRowFinds
  <2>3. PICK d : d = hD(n)
    OBVIOUS
  <2>4. PICK f : f = FirstRow(v)
    OBVIOUS
  <2>5. d \in 1 .. Len(src) /\ f \in 1 .. Len(src) /\ ~ (d < f) /\ ~ (f < d)
    BY <1>1, <2>1, <2>2, <2>3, <2>4
  <2> QED BY <1>1, <1>7, <2>3, <2>4, <2>5
<1> QED BY <1>6, <1>7

LEMMA AnswersKept ==
  ASSUME UNCHANGED <<op, src, val>>
  PROVE  Probes' = Probes /\ NotFound' = NotFound /\ \A r : Answer(r)' = Answer(r)
BY DEF Probes, NotFound, Answer, FirstRow, Found

LEMMA FindRowInv ==
  ASSUME SearchInv, FindRow
  PROVE  SearchInv'
<1>1. /\ pc = "find" /\ pc' = "find" /\ row <= Len(val) /\ Hashing
      /\ UNCHANGED <<op, typ, src, val, hashCur, rtn, hHeap, hHeapCur>>
  BY DEF FindRow, searched, heap, Hashing
<1>2. /\ Operands /\ Position /\ HeapTypes /\ NodesAreFirstRows /\ LinkedInOrder /\ TargetsSoFar
      /\ rtn = <<>> /\ row \in 1 .. Len(val) + 1
  BY <1>1 DEF SearchInv, Searching, Position
<1>3. PICK v : v = val[row]
  OBVIOUS
<1>4. PICK w : w = At(v)
  OBVIOUS
<1>5. PICK n : n = hN(w)
  OBVIOUS
<1>6. Len(val) \in Nat /\ row \in 1 .. Len(val) /\ Len(src) \in Nat /\ DOMAIN src = 1 .. Len(src)
  BY <1>1, <1>2 DEF Operands
<1>7. Operands' /\ FreeMemoryIsClear' /\ OldLinks' /\ ChainsEnd'
  BY <1>1, <1>2, OperandsKept, HeapKept DEF SearchInv, searched, heap
<1>8. HeapTypes'
  BY <1>1, <1>2 DEF HeapTypes, Hashing, hashLen
<1>9. /\ NodeWords' = NodeWords /\ LinkedInOrder'
      /\ \A a : hD(a)' = hD(a) /\ ValueAt(a)' = ValueAt(a)
  BY <1>1, <1>2, TableKept
<1>10. NodesAreFirstRows'
  <2>1. Known' = Known
    BY <1>1 DEF Known
  <2> QED BY <1>1, <1>2, <1>9, <2>1 DEF NodesAreFirstRows
<1>11. CASE n # NULL /\ src[hD(n)] # v /\ t' = n /\ row' = row /\ targ' = targ
  <2>1. v = Sought /\ Sought' = v
    BY <1>1, <1>3, <1>11 DEF Sought
  <2>2. /\ n \in NodeWords /\ ChainOf(n) = Bucket(v)
        /\ \A b \in NodeWords : b < n => ValueAt(b) # v
    BY <1>1, <1>4, <1>5, <1>11, <2>1, Walk
  <2>3. n \in Nat /\ n \in Words /\ \A b \in NodeWords : b \in Nat
    <3>1. hashLen \in Nat /\ hashCur \in Nat /\ hHeapCur \in Nat /\ hHeapCur < INIT_HASH_SIZE
      BY <1>2, HashLenType DEF HeapTypes
    <3> QED BY <2>2, <3>1, ConstantTypes DEF NodeWords
  <2>4. Position'
    BY <1>1, <1>2, <1>11, <2>3 DEF Position, Probes, IsUnique, isOrdered
  <2>5. CursorPasses'
    <3>1. \A b \in NodeWords : b <= n => ValueAt(b) # v
      BY <1>11, <2>2, <2>3 DEF ValueAt
    <3>2. ChainOf(t)' = Bucket(v)
      BY <1>1, <1>11, <2>2 DEF ChainOf, BucketWords, hashLen, Bucket, ValueAt, hD
    <3>3. Bucket(Sought)' = Bucket(v)
      BY <1>1, <2>1 DEF Bucket, hashLen
    <3>4. /\ row' <= Len(val') /\ t' \in NodeWords' /\ ChainOf(t)' = Bucket(Sought)'
          /\ \A b \in NodeWords' : b <= t' => ValueAt(b)' # Sought'
      BY <1>1, <1>9, <1>11, <2>1, <2>2, <3>1, <3>2, <3>3
    <3> QED BY <1>1, <3>4 DEF CursorPasses
  <2>6. TargetsSoFar'
    BY <1>1, <1>2, <1>11, AnswersKept DEF TargetsSoFar
  <2>7. Searching'
    BY <1>1, <1>2, <1>9, <1>10, <2>5, <2>6 DEF Searching, Hashing
  <2> QED BY <1>7, <1>8, <2>4, <2>7 DEF SearchInv
<1>12. CASE /\ n = NULL \/ src[hD(n)] = v
            /\ t' = NULL /\ row' = row + 1
            /\ targ' = Append(targ, IF n = NULL THEN Miss ELSE Hit(hD(n)))
  <2> DEFINE S == IF Probes THEN 1 .. NotFound ELSE BOOLEAN
  <2>1. PICK e : e = IF n = NULL THEN Miss ELSE Hit(hD(n))
    OBVIOUS
  <2>2. FirstRow(v) = IF n = NULL THEN NotFound ELSE hD(n)
    BY <1>1, <1>3, <1>4, <1>5, <1>12, WalkEnds
  <2>3. /\ FirstRow(v) \in 1 .. NotFound
        /\ IF \E q \in DOMAIN src : src[q] = v THEN FirstRow(v) \in DOMAIN src
           ELSE FirstRow(v) = NotFound
    BY <1>2, FirstRowFinds
  <2>4. Found(row) <=> n # NULL
    <3>1. Found(row) <=> \E q \in DOMAIN src : src[q] = v
      BY <1>3 DEF Found
    <3>2. NotFound \notin DOMAIN src
      BY <1>6 DEF NotFound
    <3>3. n # NULL => hD(n) \in DOMAIN src
      <4>1. v = Sought /\ Known = DOMAIN src
        BY <1>1, <1>3, <1>6 DEF Sought, Known
      <4> QED BY <1>1, <1>4, <1>5, <4>1, Walk
    <3> QED BY <1>12, <2>2, <2>3, <3>1, <3>2, <3>3
  <2>5. e \in S /\ e = Answer(row)
    BY <1>3, <2>1, <2>2, <2>3, <2>4 DEF Miss, Hit, Found, Answer
  <2>6. targ \in Seq(S) /\ Len(targ) = row - 1 /\ \A r \in DOMAIN targ : targ[r] = Answer(r)
    BY <1>2 DEF TargetsSoFar
  <2>7. S' = S /\ \A r : Answer(r)' = Answer(r)
    BY <1>1, AnswersKept
  <2> HIDE DEF S
  <2>8. /\ targ' \in Seq(S) /\ Len(targ') = row
        /\ \A r \in DOMAIN targ' : targ'[r] = Answer(r)
    <3> DEFINE m == Len(targ)
    <3>1. m \in Nat /\ DOMAIN targ = 1 .. m /\ row = m + 1
      BY <1>6, <2>6, SequenceItems
    <3>2. /\ targ' \in Seq(S) /\ Len(targ') = m + 1
          /\ targ'[m + 1] = e /\ \A k \in 1 .. m : targ'[k] = targ[k]
      BY <1>12, <2>1, <2>5, <2>6, AppendedItems
    <3> HIDE DEF m
    <3>3. /\ targ'[row] = e /\ Len(targ') = row /\ DOMAIN targ' = 1 .. row
          /\ \A k \in 1 .. m : targ'[k] = targ[k]
      BY <3>1, <3>2, SequenceItems
    <3>4. \A r \in 1 .. row : r = row \/ r \in 1 .. m
      BY <3>1
    <3> QED BY <2>5, <2>6, <3>1, <3>2, <3>3, <3>4
  <2>9. TargetsSoFar'
    <3>1. row' - 1 = row
      BY <1>6, <1>12
    <3>2. targ' \in Seq(S') /\ Len(targ') = row' - 1 /\ \A r \in DOMAIN targ' : targ'[r] = Answer(r)'
      BY <2>7, <2>8, <3>1
    <3> QED BY <3>2 DEF TargetsSoFar, S
  <2>10. Position'
    <3>1. row' \in 1 .. Len(val) + 1
      BY <1>6, <1>12
    <3> QED BY <1>1, <1>2, <1>12, <3>1 DEF Position, Probes, IsUnique, isOrdered
  <2>11. CursorPasses'
    BY <1>12 DEF CursorPasses
  <2>12. Searching'
    BY <1>1, <1>2, <1>9, <1>10, <2>9, <2>11 DEF Searching, Hashing
  <2> QED BY <1>7, <1>8, <2>10, <2>12 DEF SearchInv
<1>13. \/ n # NULL /\ src[hD(n)] # v /\ t' = n /\ row' = row /\ targ' = targ
       \/ /\ n = NULL \/ src[hD(n)] = v
          /\ t' = NULL /\ row' = row + 1
          /\ targ' = Append(targ, IF n = NULL THEN Miss ELSE Hit(hD(n)))
  BY <1>3, <1>4, <1>5 DEF FindRow
<1> QED BY <1>11, <1>12, <1>13

LEMMA ReleaseInv ==
  ASSUME SearchInv, Release
  PROVE  SearchInv'
<1>1. /\ pc = "find" /\ pc' = "found" /\ row > Len(val) /\ row' = 0 /\ Hashing
      /\ hHeap' = Released(hashCur) /\ hHeapCur' = hashCur
      /\ UNCHANGED <<op, typ, src, val, t, hashCur, targ, rtn>>
  BY DEF Release, searched, Hashing
<1>2. /\ Operands /\ Position /\ HeapTypes /\ FreeMemoryIsClear /\ OldLinks /\ CursorPasses
      /\ TargetsSoFar /\ rtn = <<>> /\ row \in 1 .. Len(val) + 1
  BY <1>1 DEF SearchInv, Searching, Position
<1>3. Len(val) \in Nat /\ row - 1 = Len(val) /\ DOMAIN val = 1 .. Len(val) /\ t = NULL
  BY <1>1, <1>2 DEF Operands, CursorPasses
<1>4. /\ hHeapCur \in Nat /\ hashCur \in Nat /\ hashCur <= hHeapCur /\ hHeapCur < INIT_HASH_SIZE
      /\ hHeap \in [Words -> {Clear} \cup Node1(MaxSrc)]
  BY <1>2 DEF HeapTypes
<1>5. \A a \in Words : hHeap'[a] = IF a \in hashCur .. hHeapCur - 1 THEN Clear ELSE hHeap[a]
  BY <1>1 DEF Released
<1>6. Operands'
  BY <1>1, <1>2, OperandsKept DEF searched
<1>7. Position'
  BY <1>1, <1>2, <1>3 DEF Position, Probes, IsUnique, isOrdered
<1>8. HeapTypes'
  <2>1. hHeap' \in [Words -> {Clear} \cup Node1(MaxSrc)]
    BY <1>1, <1>4 DEF Released
  <2> QED BY <1>1, <1>4, <2>1, ConstantTypes DEF HeapTypes, Hashing
<1>9. FreeMemoryIsClear'
  <2> SUFFICES ASSUME NEW a \in hashCur .. INIT_HASH_SIZE - 1 PROVE hHeap'[a] = Clear
    BY <1>1 DEF FreeMemoryIsClear
  <2>1. a \in Words
    BY <1>4, ConstantTypes
  <2>2. a \notin hashCur .. hHeapCur - 1 => a \in hHeapCur .. INIT_HASH_SIZE - 1
    BY <1>4, ConstantTypes
  <2> QED BY <1>2, <1>5, <2>1, <2>2 DEF FreeMemoryIsClear
<1>10. \A a \in 0 .. hashCur - 1 : hN(a)' = hN(a)
  <2> TAKE a \in 0 .. hashCur - 1
  <2>1. a \in Words /\ a \notin hashCur .. hHeapCur - 1
    BY <1>4, ConstantTypes
  <2> QED BY <1>5, <2>1 DEF hN
<1>11. OldLinks' /\ ChainsEnd'
  BY <1>1, <1>2, <1>10 DEF OldLinks, ChainsEnd
<1>12. TargetsFound'
  <2> DEFINE S == IF Probes THEN 1 .. NotFound ELSE BOOLEAN
  <2>1. targ \in Seq(S) /\ Len(targ) = Len(val) /\ \A r \in DOMAIN targ : targ[r] = Answer(r)
    BY <1>2, <1>3 DEF TargetsSoFar
  <2> HIDE DEF S
  <2>2. targ \in [DOMAIN val -> S]
    BY <1>3, <2>1
  <2>3. \A r \in DOMAIN val : targ[r] = Answer(r)
    BY <2>1, <2>2
  <2>4. ~ Probes => \A r \in DOMAIN val : targ[r] = Found(r)
    BY <2>3 DEF Answer
  <2>5. Probes => \A r, q \in DOMAIN val : val[r] = val[q] => targ[r] = targ[q]
    BY <2>3 DEF Answer
  <2>6. ASSUME Probes, NEW r \in DOMAIN val
        PROVE  IF Found(r) THEN /\ targ[r] \in DOMAIN src /\ src[targ[r]] = val[r]
                                /\ targ[r] = FirstRow(val[r])
               ELSE targ[r] = NotFound
    <3>1. targ[r] = FirstRow(val[r])
      BY <2>3, <2>6 DEF Answer
    <3> QED BY <1>2, <3>1, FirstRowFinds DEF Found
  <2>7. TargetsFound
    BY <2>2, <2>4, <2>5, <2>6 DEF TargetsFound, S
  <2> QED BY <1>1, <2>7, TargetsKept
<1>13. Searching'
  BY <1>1, <1>2, <1>12 DEF Searching, Hashing
<1> QED BY <1>6, <1>7, <1>8, <1>9, <1>11, <1>13 DEF SearchInv

\* What a join of lists leaves is beyond what was there, and links nowhere.
LEMMA ListJoinInv ==
  ASSUME SearchInv, NEW size \in ListTables, ListJoin(size)
  PROVE  SearchInv'
<1>0. PICK top : top = hHeapCur + size
  OBVIOUS
<1>1. /\ pc = "idle" /\ Fits(size) /\ hHeapCur' = top
      /\ UNCHANGED <<op, typ, src, val, pc, row, t, hashCur, targ, rtn>>
  <2>1. UNCHANGED <<op, typ, src, val, pc, row, t, hashCur, targ, rtn>>
    BY DEF ListJoin, local, searched
  <2> QED BY <1>0, <2>1 DEF ListJoin, Idle
<1>2. /\ Operands /\ Position /\ HeapTypes /\ FreeMemoryIsClear /\ OldLinks /\ ChainsEnd
      /\ Searching
  BY DEF SearchInv
<1>3. /\ hHeapCur \in Nat /\ hashCur \in Nat /\ hashCur <= hHeapCur /\ size \in Nat
      /\ hHeap \in [Words -> {Clear} \cup Node1(MaxSrc)]
      /\ top < INIT_HASH_SIZE /\ top \in Nat /\ hHeapCur <= top
  BY <1>0, <1>1, <1>2, ConstantTypes DEF HeapTypes, Fits
<1>4. Link(NULL) \in Node1(MaxSrc) /\ Link(NULL).next = NULL /\ Link(NULL) # Clear
  BY ConstantTypes DEF Link, Node1
<1>5. Operands'
  BY <1>1, <1>2 DEF Operands, IsUnique
<1>6. Position'
  BY <1>1, <1>2 DEF Position, Probes, IsUnique, isOrdered
<1>7. HeapTypes'
  <2>1. hHeap' \in [Words -> {Clear} \cup Node1(MaxSrc)]
    BY <1>3, <1>4 DEF ListJoin
  <2> QED BY <1>1, <1>3, <2>1 DEF HeapTypes, Hashing
<1>8. \A a \in Words : hHeap'[a] = IF a \in hHeapCur .. top - 1 THEN Link(NULL) ELSE hHeap[a]
  <2>1. hHeap' = [a \in Words |-> IF a \in hHeapCur .. hHeapCur + size - 1 THEN Link(NULL)
                                  ELSE hHeap[a]]
    BY DEF ListJoin
  <2>2. hHeapCur + size - 1 = top - 1
    BY <1>0, <1>3
  <2> QED BY <2>1, <2>2
<1>9. FreeMemoryIsClear'
  <2> SUFFICES ASSUME NEW a \in top .. INIT_HASH_SIZE - 1 PROVE hHeap'[a] = Clear
    BY <1>1 DEF FreeMemoryIsClear
  <2>1. a \in Words /\ a \notin hHeapCur .. top - 1 /\ a \in hHeapCur .. INIT_HASH_SIZE - 1
    BY <1>3, ConstantTypes
  <2> QED BY <1>2, <1>8, <2>1 DEF FreeMemoryIsClear
<1>10. \A a \in 0 .. hHeapCur - 1 : hN(a)' = hN(a)
  <2> TAKE a \in 0 .. hHeapCur - 1
  <2>1. a \in Words /\ a \notin hHeapCur .. top - 1
    BY <1>3, ConstantTypes
  <2> QED BY <1>8, <2>1 DEF hN
<1>11. \A a \in hHeapCur .. top - 1 : hN(a)' = NULL
  <2> TAKE a \in hHeapCur .. top - 1
  <2>1. a \in Words
    BY <1>3, ConstantTypes
  <2> QED BY <1>4, <1>8, <2>1 DEF hN
<1>12. OldLinks'
  <2>1. \A a \in 0 .. hashCur - 1 : a \in 0 .. hHeapCur - 1
    BY <1>3
  <2> QED BY <1>1, <1>2, <1>10, <2>1 DEF OldLinks
<1>13. ChainsEnd'
  <2> SUFFICES ASSUME NEW a \in 0 .. top - 1, hN(a)' # NULL PROVE hN(a)' \in a + 1 .. top - 1
    BY <1>1 DEF ChainsEnd
  <2>1. a \in 0 .. hHeapCur - 1
    BY <1>3, <1>11
  <2>2. hN(a)' = hN(a) /\ hN(a) \in a + 1 .. hHeapCur - 1
    BY <1>2, <1>10, <2>1 DEF ChainsEnd
  <2> QED BY <1>3, <2>2
<1>14. Searching'
  BY <1>1, <1>2 DEF Searching, Hashing
<1> QED BY <1>5, <1>6, <1>7, <1>9, <1>12, <1>13, <1>14 DEF SearchInv

\* A step that leaves the searches and their heap alone.
LEMMA OthersInv ==
  ASSUME SearchInv, UNCHANGED <<local, heap>>
  PROVE  SearchInv'
<1>1. UNCHANGED <<op, typ, src, val, pc, row, t, low, high, hashCur, targ, rtn, hHeap, hHeapCur>>
  BY DEF local, searched, bounds, heap
<1>2. Operands'
  BY <1>1 DEF SearchInv, Operands, IsUnique
<1>3. Position'
  BY <1>1 DEF SearchInv, Position, Probes, IsUnique, isOrdered
<1>4. HeapTypes'
  BY <1>1 DEF SearchInv, HeapTypes, Hashing, hashLen
<1>5. FreeMemoryIsClear' /\ OldLinks' /\ ChainsEnd'
  BY <1>1, HeapKept DEF SearchInv, heap
<1>6. Searching'
  <2>1. Searching
    BY DEF SearchInv
  <2>2. NodesAreFirstRows => NodesAreFirstRows'
    BY <1>1 DEF NodesAreFirstRows, NodeWords, hashLen, hD, ValueAt, Known
  <2>3. LinkedInOrder => LinkedInOrder'
    BY <1>1, TableKept
  <2>4. CursorPasses => CursorPasses'
    BY <1>1 DEF CursorPasses, NodeWords, ChainOf, BucketWords, hashLen, Bucket, Sought, ValueAt, hD
  <2>5. BoundsEnclose => BoundsEnclose'
    BY <1>1 DEF BoundsEnclose, NotFound, Misread, isOrdered, Found
  <2>6. TargetsSoFar => TargetsSoFar'
    BY <1>1, AnswersKept DEF TargetsSoFar
  <2>7. TargetsFound => TargetsFound'
    BY <1>1, TargetsKept
  <2>8. RowsCopied(row - 1) => RowsCopied(row - 1)'
    BY <1>1 DEF RowsCopied
  <2>9. RowsCopied(Len(src)) => RowsCopied(Len(src))'
    BY <1>1 DEF RowsCopied
  <2>10. IsUnique' = IsUnique /\ Hashing' = Hashing
    BY <1>1 DEF IsUnique, Hashing
  <2> QED BY <1>1, <2>1, <2>2, <2>3, <2>4, <2>5, <2>6, <2>7, <2>8, <2>9, <2>10 DEF Searching
<1> QED BY <1>2, <1>3, <1>4, <1>5, <1>6 DEF SearchInv

LEMMA SearchStepInv ==
  ASSUME SearchInv, SearchNext
  PROVE  SearchInv'
<1>1. CASE \E o \in {"index_of", "unique", "member"}, ty \in {"bool", "int", "other"} : Call(o, ty)
  BY <1>1, CallInv
<1>2. CASE IndexOf
  BY <1>2, IndexOfInv
<1>3. CASE Halve
  BY <1>3, HalveInv
<1>4. CASE Bisected
  BY <1>4, BisectedInv
<1>5. CASE Scan
  BY <1>5, ScanInv
<1>6. CASE Create
  BY <1>6, CreateInv
<1>7. CASE InsertRow
  BY <1>7, InsertRowInv
<1>8. CASE Inserted
  BY <1>8, InsertedInv
<1>9. CASE FindRow
  BY <1>9, FindRowInv
<1>10. CASE Release
  BY <1>10, ReleaseInv
<1>11. CASE ReturnRows
  BY <1>11, ReturnRowsInv
<1>12. CASE CopyRow
  BY <1>12, CopyRowInv
<1>13. CASE Copied
  BY <1>13, CopiedInv
<1>14. CASE Done
  BY <1>14, DoneInv
<1> QED
  BY <1>1, <1>2, <1>3, <1>4, <1>5, <1>6, <1>7, <1>8, <1>9, <1>10, <1>11, <1>12, <1>13, <1>14
     DEF SearchNext

\* The invariant of the searches, across calls of every kind.
THEOREM SearchesKeepInvariant == HashSpec => []SearchInv
<1>1. HashInit => SearchInv
  BY InitInv DEF HashInit
<1>2. SearchInv /\ [HashNext]_hashVars => SearchInv'
  <2> SUFFICES ASSUME SearchInv, [HashNext]_hashVars PROVE SearchInv'
    OBVIOUS
  <2>1. CASE SearchStep
    BY <2>1, SearchStepInv DEF SearchStep
  <2>2. CASE CallJoin \/ JoinStep \/ JoinDone
    BY <2>2, OthersInv DEF CallJoin, JoinStep, JoinDone
  <2>3. CASE \E size \in ListTables : ListJoin(size)
    BY <2>3, ListJoinInv
  <2>4. CASE UNCHANGED hashVars
    BY <2>4, OthersInv DEF hashVars
  <2> QED BY <2>1, <2>2, <2>3, <2>4 DEF HashNext
<1> QED BY <1>1, <1>2, PTL DEF HashSpec

----------------------------------------------------------------------------
(* What follows.                                                           *)

LEMMA FunctionLen ==
  ASSUME NEW S, NEW n \in Nat, NEW f \in [1 .. n -> S]
  PROVE  f \in Seq(S) /\ Len(f) = n
OBVIOUS

LEMMA InvGivesTypes ==
  ASSUME SearchInv
  PROVE  SearchTypeOK
<1> USE DEF Hashing
<1>1. Operands /\ Position /\ HeapTypes /\ Searching
  BY DEF SearchInv
<1>2. /\ Len(src) \in Nat /\ DOMAIN src = 1 .. Len(src)
      /\ Len(val) \in Nat /\ DOMAIN val = 1 .. Len(val)
  BY <1>1 DEF Operands
<1>3. row \in 0 .. (IF Len(src) > Len(val) THEN Len(src) ELSE Len(val)) + 1
  <2>1. row = 0 \/ row \in 1 .. Len(val) + 1 \/ row \in 0 .. Len(src) + 1
    <3>1. pc \in {"insert", "copy"} => row \in 1 .. Len(src) + 1
      BY <1>1 DEF Position
    <3>2. row \in 1 .. Len(src) + 1 => row \in 0 .. Len(src) + 1
      BY <1>2
    <3> QED BY <1>1, <3>1, <3>2 DEF Position
  <2> QED BY <1>2, <2>1
<1>4. hashCur \in Words /\ hHeapCur \in Words
  BY <1>1, ConstantTypes DEF HeapTypes
<1>5. pc = "bisect" => \A r \in DOMAIN val : low[r] \in 0 .. high[r] /\ high[r] <= Len(src)
  <2> SUFFICES ASSUME pc = "bisect", NEW r \in DOMAIN val
               PROVE  low[r] \in 0 .. high[r] /\ high[r] <= Len(src)
    OBVIOUS
  <2>1. PICK l \in 0 .. Len(src), h \in 0 .. Len(src) : l = low[r] /\ h = high[r] /\ l <= h
    BY <1>1, <1>2 DEF Searching, BoundsEnclose
  <2> QED BY <1>2, <2>1
<1>6. /\ Len(targ) <= Len(val)
      /\ \A r \in DOMAIN targ : \/ targ[r] \in IF Probes THEN 1 .. NotFound ELSE BOOLEAN
                                \/ pc = "bisect" /\ targ[r] = 0
  <2>1. CASE targ = <<>>
    BY <1>2, <2>1
  <2>2. CASE pc = "bisect"
    <3>1. targ \in [1 .. Len(val) -> 0 .. NotFound] /\ Probes
      BY <1>1, <1>2, <2>2 DEF Searching, BoundsEnclose, Position
    <3>2. Len(targ) = Len(val)
      BY <1>2, <3>1, FunctionLen
    <3>3. \A r \in DOMAIN targ : targ[r] \in 1 .. NotFound \/ targ[r] = 0
      BY <1>2, <3>1 DEF NotFound
    <3> QED BY <1>2, <2>2, <3>1, <3>2, <3>3
  <2>3. CASE pc = "find"
    <3> DEFINE S == IF Probes THEN 1 .. NotFound ELSE BOOLEAN
    <3>1. targ \in Seq(S) /\ Len(targ) = row - 1 /\ row \in 1 .. Len(val) + 1
      BY <1>1, <2>3 DEF Searching, TargetsSoFar, Position
    <3> HIDE DEF S
    <3>2. \A r \in DOMAIN targ : targ[r] \in S
      BY <3>1, SequenceItems
    <3>3. Len(targ) <= Len(val)
      BY <1>2, <3>1
    <3> QED BY <3>2, <3>3 DEF S
  <2>4. CASE pc \in {"found", "copy", "returned"}
    <3> DEFINE S == IF Probes THEN 1 .. NotFound ELSE BOOLEAN
    <3>1. targ \in [1 .. Len(val) -> S]
      BY <1>1, <1>2, <2>4 DEF Searching, TargetsFound
    <3> HIDE DEF S
    <3>2. Len(targ) = Len(val)
      BY <1>2, <3>1, FunctionLen
    <3>3. \A r \in DOMAIN targ : targ[r] \in S
      BY <3>1
    <3> QED BY <1>2, <3>2, <3>3 DEF S
  <2> QED BY <1>1, <2>1, <2>2, <2>3, <2>4 DEF Position, Searching
<1> QED BY <1>1, <1>3, <1>4, <1>5, <1>6 DEF SearchTypeOK, Position, HeapTypes, Node1

\* Searches keep their variables in their types, whatever the heap and hash.
THEOREM SearchesAreTyped == HashSpec => []SearchTypeOK
<1>1. SearchInv => SearchTypeOK
  BY InvGivesTypes
<1> QED BY <1>1, SearchesKeepInvariant, PTL

\* Every word from the top of the heap on is clear at all times, so that
\* createHash, which clears nothing, makes empty tables.
THEOREM NewTablesAreEmpty == HashSpec => []FreeMemoryIsClear
<1>1. SearchInv => FreeMemoryIsClear
  BY DEF SearchInv
<1> QED BY <1>1, SearchesKeepInvariant, PTL

\* The links of the chains ascend within the used part of the heap, so that
\* every walk of insert_hash and find_hash comes to an end.
THEOREM WalksEnd == HashSpec => []ChainsEnd
<1>1. SearchInv => ChainsEnd
  BY DEF SearchInv
<1> QED BY <1>1, SearchesKeepInvariant, PTL

\* A search that returned has set the heap back to its mark.
THEOREM SearchesRelease == HashSpec => []HeapIsRestored
<1>1. SearchInv => HeapIsRestored
  BY DEF SearchInv, HeapTypes, HeapIsRestored
<1> QED BY <1>1, SearchesKeepInvariant, PTL

\* @index_of returns a row with the value, the first one unless it bisected,
\* or the row after the last for a value that the source has not.
THEOREM IndexOfIsRight == HashSpec => []IndexOfFinds
<1>1. SearchInv => IndexOfFinds
  BY DEF SearchInv, Searching, TargetsFound, IndexOfFinds, IsUnique, Probes, Found, NotFound
<1> QED BY <1>1, SearchesKeepInvariant, PTL

\* @member answers whether the source has the value, for sources that the
\* scans read no further than they have rows.
THEOREM MemberIsRight == HashSpec => []MemberTells
<1>1. SearchInv => MemberTells
  BY DEF SearchInv, Searching, TargetsFound, MemberTells, IsUnique, Probes, Found
<1> QED BY <1>1, SearchesKeepInvariant, PTL

\* @unique keeps exactly one row for every value of the source.
THEOREM UniqueIsRight == HashSpec => []UniqueListsValues
<1>1. SearchInv => UniqueListsValues
  <2> SUFFICES ASSUME SearchInv, pc = "returned", op = "unique", ~ Misread
               PROVE  /\ {src[rtn[k]] : k \in DOMAIN rtn} = {src[q] : q \in DOMAIN src}
                      /\ \A k, l \in DOMAIN rtn : k # l => src[rtn[k]] # src[rtn[l]]
    BY DEF UniqueListsValues
  <2>1. /\ Operands /\ TargetsFound /\ RowsCopied(Len(src)) /\ Probes /\ val = src
        /\ DOMAIN src = 1 .. Len(src)
    BY DEF SearchInv, Searching, Operands, IsUnique, Probes
  <2>2. \A k \in DOMAIN rtn : rtn[k] \in DOMAIN src /\ targ[rtn[k]] = rtn[k]
    BY <2>1 DEF RowsCopied, TargetsFound
  <2>3. \A r, q \in DOMAIN src : src[r] = src[q] => targ[r] = targ[q]
    BY <2>1 DEF TargetsFound
  <2>4. ASSUME NEW q \in DOMAIN src
        PROVE  \E k \in DOMAIN rtn : src[rtn[k]] = src[q]
    <3>1. targ[q] \in DOMAIN src /\ src[targ[q]] = src[q]
      BY <2>1 DEF TargetsFound, Found
    <3>2. targ[targ[q]] = targ[q]
      BY <2>3, <3>1
    <3>3. PICK k \in DOMAIN rtn : rtn[k] = targ[q]
      BY <2>1, <3>1, <3>2 DEF RowsCopied
    <3> QED BY <3>1, <3>3
  <2>5. \A k, l \in DOMAIN rtn : k # l => src[rtn[k]] # src[rtn[l]]
    BY <2>1, <2>2, <2>3 DEF RowsCopied
  <2> QED BY <2>2, <2>4, <2>5
<1> QED BY <1>1, SearchesKeepInvariant, PTL

\* A call leaves a join in a state that its invariant allows.
LEMMA CallHolds ==
  ASSUME JoinIdle, CallJoin
  PROVE  JoinInv'
<1>1. /\ phase' = "dispatch" /\ i' = 1 /\ tempHN' = <<>> /\ c' = 1 /\ lenZ' = 0
      /\ isEq' \in BOOLEAN
  BY DEF CallJoin, JoinIdle
<1>2. left' \in Seq(Keys) /\ right' \in Seq(Keys)
  <2>1. \A v \in Vectors(Keys, MaxRows) : v \in Seq(Keys)
    BY JoinAssumption DEF JoinAssumption, Vectors
  <2> QED BY <2>1 DEF CallJoin
<1>3. StateHolds'
  BY <1>1 DEF StateHolds, JoinState
<1> QED BY <1>1, <1>2, <1>3 DEF JoinInv

\* A join of two vectors keeps its invariant wherever a program calls it:
\* after and before calls of every kind, joins among them.
THEOREM CalledJoinsKeepInvariant == HashSpec => [](IF phase = "idle" THEN JoinIdle ELSE JoinInv)
<1> DEFINE Inv == IF phase = "idle" THEN JoinIdle ELSE JoinInv
<1>1. HashInit => Inv
  BY DEF HashInit, JoinIdle
<1>2. Inv /\ [HashNext]_hashVars => Inv'
  <2> SUFFICES ASSUME Inv, [HashNext]_hashVars PROVE Inv'
    OBVIOUS
  <2>1. CASE CallJoin
    <3>1. JoinInv' /\ phase' # "idle"
      BY <2>1, CallHolds DEF CallJoin
    <3> QED BY <3>1
  <2>2. CASE JoinStep
    <3>1. Next /\ phase # "idle"
      BY <2>2 DEF JoinStep, Next, Dispatch, Insert, Built, Probe, Probed, Write, LinearCalc,
                  LinearAllocate, LinearSave, Return
    <3>2. JoinInv'
      BY <3>1, JoinStepKeeps
    <3> QED BY <3>2 DEF JoinInv
  <2>3. CASE JoinDone
    BY <2>3 DEF JoinDone, JoinIdle
  <2>4. CASE UNCHANGED vars
    <3>1. CASE phase = "idle"
      BY <2>4, <3>1 DEF vars, operands, JoinIdle
    <3>2. CASE phase # "idle"
      BY <2>4, <3>2, JoinStepKeeps DEF vars
    <3> QED BY <3>1, <3>2
  <2> QED BY <2>1, <2>2, <2>3, <2>4 DEF HashNext, hashVars, SearchStep, ListJoin, join
<1> QED BY <1>1, <1>2, PTL DEF HashSpec

----------------------------------------------------------------------------
(* Programs that call all the builtins.                                    *)

\* What @order and @group are given, and what they return.
SortInv ==
  /\ sorting = "order" => cols \in ColumnLists /\ ranks = OrderBy(cols)
  /\ sorting = "group" => /\ cols \in ColumnLists /\ ranks = GroupBy(cols)
                          /\ \A k \in DOMAIN cols : cols[k].isUp

\* The result of @order or @group is that of its operand, whatever was called before.
THEOREM SortsKeepInvariant == BuiltinsSpec => []SortInv
<1>1. BuiltinsInit => SortInv
  BY DEF BuiltinsInit, SortInv
<1>2. SortInv /\ [BuiltinsNext]_<<hashVars, sort>> => SortInv'
  <2> SUFFICES ASSUME SortInv, [BuiltinsNext]_<<hashVars, sort>> PROVE SortInv'
    OBVIOUS
  <2>1. CASE HashStep
    BY <2>1 DEF HashStep, SortInv, sort
  <2>2. CASE Sort
    <3>1. PICK list \in ColumnLists :
            /\ cols' = list
            /\ \/ sorting' = "order" /\ ranks' = OrderBy(list)
               \/ /\ sorting' = "group" /\ ranks' = GroupBy(list)
                  /\ \A k \in DOMAIN list : list[k].isUp
      BY <2>2 DEF Sort
    <3> QED BY <3>1 DEF SortInv
  <2>3. CASE Sorted
    BY <2>3 DEF Sorted, SortInv
  <2>4. CASE UNCHANGED <<hashVars, sort>>
    BY <2>4 DEF sort, SortInv
  <2> QED BY <2>1, <2>2, <2>3, <2>4 DEF BuiltinsNext
<1> QED BY <1>1, <1>2, PTL DEF BuiltinsSpec

\* @order (pfnOrderBy) returns every row once, by the columns and their directions.
THEOREM OrderIsRight == BuiltinsSpec => []OrderSorts
<1>1. SortInv => OrderSorts
  <2> SUFFICES ASSUME SortInv, sorting = "order", ByDigits => NoNegative
               PROVE  /\ Len(ranks) = Height(cols)
                      /\ \A r, q \in DOMAIN ranks :
                           r < q => ranks[r] # ranks[q] /\ ~ Before(ranks[q], ranks[r])
    BY DEF OrderSorts
  <2>1. Operand(cols) /\ ranks = OrderBy(cols)
    BY ColumnListsAssumption DEF ColumnListsAssumption, SortInv
  <2>2. TakesDigits(cols) => NoneNegative(cols)
    BY DEF TakesDigits, NoneNegative, ByDigits, NoNegative
  <2>3. /\ Len(ranks) = Height(cols)
        /\ \A r, q \in DOMAIN ranks :
             r < q => ranks[r] # ranks[q] /\ ~ Precedes(cols, 1, ranks[q], ranks[r])
    BY <2>1, <2>2, OrderIsSorted
  <2>4. ASSUME NEW r \in DOMAIN ranks, NEW q \in DOMAIN ranks, Before(ranks[q], ranks[r])
        PROVE  Precedes(cols, 1, ranks[q], ranks[r])
    <3>1. PICK n : n = Height(cols)
      OBVIOUS
    <3>2. /\ DOMAIN cols = 1 .. Len(cols)
          /\ \A k \in 1 .. Len(cols) : \A s \in 1 .. n : cols[k].val[s] \in Int
      BY <2>1, <3>1, OperandColumns
    <3>3. ranks[r] \in 1 .. n /\ ranks[q] \in 1 .. n
      BY <2>1, <2>2, <3>1, OrderListsRows
    <3>4. PICK k \in 1 .. Len(cols) :
            /\ \A l \in 1 .. k - 1 : cols[l].val[ranks[q]] = cols[l].val[ranks[r]]
            /\ IF cols[k].isUp THEN cols[k].val[ranks[q]] < cols[k].val[ranks[r]]
                               ELSE cols[k].val[ranks[q]] > cols[k].val[ranks[r]]
      BY <2>4, <3>2 DEF Before
    <3>5. PICK a \in Int, b \in Int : a = cols[k].val[ranks[q]] /\ b = cols[k].val[ranks[r]]
      BY <3>2, <3>3
    <3>6. IF cols[k].isUp THEN b > a ELSE b < a
      BY <3>4, <3>5
    <3>7. After(cols[k], ranks[r], ranks[q])
      BY <3>5, <3>6 DEF After
    <3>8. \A l \in 1 .. k - 1 : ~ Differ(cols[l], ranks[q], ranks[r])
      BY <3>4 DEF Differ
    <3> QED BY <3>7, <3>8 DEF Precedes
  <2> QED BY <2>3, <2>4
<1> QED BY <1>1, SortsKeepInvariant, PTL

\* @order of ascending columns of integers is stable, whichever sort it takes.
THEOREM OrderStays == BuiltinsSpec => []OrderIsStable
<1>1. SortInv => OrderIsStable
  <2> SUFFICES ASSUME SortInv, sorting = "order",
                      \A k \in DOMAIN cols : cols[k].isUp /\ cols[k].type # "other"
               PROVE  \A r, q \in DOMAIN ranks : r < q /\ Keyed(ranks[r], ranks[q]) => ranks[r] < ranks[q]
    BY DEF OrderIsStable
  <2>1. Operand(cols) /\ ranks = OrderBy(cols)
    BY ColumnListsAssumption DEF ColumnListsAssumption, SortInv
  <2>2. \A r, q \in DOMAIN ranks : r < q /\ KeyedBy(cols, ranks[r], ranks[q]) => ranks[r] < ranks[q]
    BY <2>1, OrderKeepsEqual
  <2>3. \A r, q \in DOMAIN ranks : Keyed(ranks[r], ranks[q]) => KeyedBy(cols, ranks[r], ranks[q])
    BY DEF Keyed, KeyedBy
  <2> QED BY <2>2, <2>3
<1> QED BY <1>1, SortsKeepInvariant, PTL

\* @group (pfnGroup) puts every row into one cell, and two rows into the same cell
\* exactly when they are equal.
THEOREM GroupIsRight == BuiltinsSpec => []GroupsPartition
<1>1. SortInv => GroupsPartition
  <2> SUFFICES ASSUME SortInv, sorting = "group",
                      Packs(cols) \/ (Len(cols) = 1 /\ cols[1].type = "i64") => NoNegative,
                      NEW at, at = CellPlaces(cols, ranks)
               PROVE  /\ \A r \in 1 .. Height(cols) : \E p \in at : ranks[p[1]][p[2]] = r
                      /\ \A p, q \in at :
                           /\ ranks[p[1]][p[2]] = ranks[q[1]][q[2]] => p = q
                           /\ Keyed(ranks[p[1]][p[2]], ranks[q[1]][q[2]]) <=> p[1] = q[1]
    BY DEF GroupsPartition, CellPlaces
  <2>1. Operand(cols) /\ ranks = GroupBy(cols) /\ \A k \in DOMAIN cols : cols[k].isUp
    BY ColumnListsAssumption DEF ColumnListsAssumption, SortInv
  <2>2. Packs(cols) \/ (Len(cols) = 1 /\ cols[1].type = "i64") => NoneNegative(cols)
    BY DEF NoneNegative, NoNegative
  <2>3. /\ \A r \in 1 .. Height(cols) : \E p \in at : ranks[p[1]][p[2]] = r
        /\ \A p, q \in at :
             /\ ranks[p[1]][p[2]] = ranks[q[1]][q[2]] => p = q
             /\ KeyedBy(cols, ranks[p[1]][p[2]], ranks[q[1]][q[2]]) <=> p[1] = q[1]
    BY <2>1, <2>2, GroupIsPartition
  <2>4. \A r, q : Keyed(r, q) <=> KeyedBy(cols, r, q)
    BY DEF Keyed, KeyedBy
  <2> QED BY <2>3, <2>4
<1> QED BY <1>1, SortsKeepInvariant, PTL

\* To the builtins that share the hash heap, calls of @order and @group are stuttering steps.
THEOREM SortsLeaveHeap == BuiltinsSpec => HashSpec
<1>1. BuiltinsInit => HashInit
  BY DEF BuiltinsInit
<1>2. [BuiltinsNext]_<<hashVars, sort>> => [HashNext]_hashVars
  BY DEF BuiltinsNext, HashStep, Sort, Sorted
<1> QED BY <1>1, <1>2, PTL DEF BuiltinsSpec, HashSpec

\* So what was shown of those holds among all calls.
THEOREM BuiltinsAmongCalls ==
  BuiltinsSpec => [](/\ SearchTypeOK /\ FreeMemoryIsClear /\ ChainsEnd /\ HeapIsRestored
                     /\ IndexOfFinds /\ MemberTells /\ UniqueListsValues
                     /\ TableListsRows /\ PassesAgree /\ HashJoinIsComplete /\ JoinIsSound)
<1>1. (IF phase = "idle" THEN JoinIdle ELSE JoinInv) => TableListsRows /\ PassesAgree /\ HashJoinIsComplete /\ JoinIsSound
  <2>1. CASE phase = "idle"
    BY <2>1 DEF TableListsRows, PassesAgree, HashJoinIsComplete, JoinIsSound
  <2>2. CASE phase # "idle"
    BY <2>2, TableListsRowsHolds, PassesAgreeHolds, HashJoinIsCompleteHolds, JoinIsSoundHolds
  <2> QED BY <2>1, <2>2
<1> QED
  BY <1>1, CalledJoinsKeepInvariant, SortsLeaveHeap, SearchesAreTyped, NewTablesAreEmpty, WalksEnd,
     SearchesRelease, IndexOfIsRight, MemberIsRight, UniqueIsRight, PTL
=============================================================================
