-------------------------- MODULE Compress_proofs --------------------------
(***************************************************************************)
(* Theorems about Compress, for every number of threads and every length   *)
(* of the operands: no two threads write the same cell, and the result is  *)
(* the selected items in order.                                            *)
(***************************************************************************)
EXTENDS Compress, FiniteSetTheorems, LeastNumber

----------------------------------------------------------------------------
(* Counting the selected rows of an interval.                              *)

LEMMA SelectedType ==
  ASSUME NEW f, NEW l \in Nat, NEW h \in Nat
  PROVE  /\ IsFiniteSet({r \in l .. h - 1 : f[r]})
         /\ Selected(f, l, h) \in Nat
         /\ l <= h => Selected(f, l, h) <= h - l
<1> DEFINE S == {r \in l .. h - 1 : f[r]}
<1>1. IsFiniteSet(l .. h - 1)
      /\ Cardinality(l .. h - 1) = IF l > h - 1 THEN 0 ELSE (h - 1) - l + 1
  BY FS_Interval
<1>2. IsFiniteSet(S) /\ Cardinality(S) <= Cardinality(l .. h - 1)
  BY <1>1, FS_Subset, S \in SUBSET (l .. h - 1)
<1>3. Cardinality(S) \in Nat
  BY <1>2, FS_CardinalityType
<1> HIDE DEF S
<1>4. l <= h => Cardinality(S) <= h - l
  BY <1>1, <1>2, <1>3
<1> QED BY <1>2, <1>3, <1>4 DEF S, Selected

LEMMA SelectedNat ==
  ASSUME NEW f, NEW l \in Nat, NEW h \in Nat
  PROVE  Selected(f, l, h) \in Nat
BY SelectedType

LEMMA SelectedBound ==
  ASSUME NEW f, NEW l \in Nat, NEW h \in Nat, l <= h
  PROVE  Selected(f, l, h) <= h - l
BY SelectedType

LEMMA SelectedNone ==
  ASSUME NEW f, NEW l \in Nat
  PROVE  Selected(f, l, l) = 0
<1>1. {r \in l .. l - 1 : f[r]} = {}
  OBVIOUS
<1> QED BY <1>1, FS_EmptySet DEF Selected

\* An interval is counted in two parts.
LEMMA SelectedSplit ==
  ASSUME NEW f, NEW l \in Nat, NEW m \in Nat, NEW h \in Nat, l <= m, m <= h
  PROVE  Selected(f, l, h) = Selected(f, l, m) + Selected(f, m, h)
<1> DEFINE S == {r \in l .. m - 1 : f[r]}
           T == {r \in m .. h - 1 : f[r]}
<1>1. {r \in l .. h - 1 : f[r]} = S \cup T /\ S \cap T = {}
  OBVIOUS
<1>2. IsFiniteSet(S) /\ IsFiniteSet(T)
  BY SelectedType
<1>3. Cardinality(S) \in Nat /\ Cardinality(T) \in Nat
  BY SelectedType DEF Selected
<1> HIDE DEF S, T
<1>4. Cardinality(S \cup T) = Cardinality(S) + Cardinality(T) - Cardinality({})
  BY <1>1, <1>2, FS_Union
<1>5. Cardinality(S \cup T) = Cardinality(S) + Cardinality(T)
  BY <1>3, <1>4, FS_EmptySet
<1> QED BY <1>1, <1>5 DEF Selected, S, T

LEMMA SelectedNext ==
  ASSUME NEW f, NEW l \in Nat, NEW h \in Nat, l <= h, f[h] \in BOOLEAN
  PROVE  Selected(f, l, h + 1) = Selected(f, l, h) + (IF f[h] THEN 1 ELSE 0)
<1>1. Selected(f, h, h + 1) = IF f[h] THEN 1 ELSE 0
  <2>1. {r \in h .. (h + 1) - 1 : f[r]} = IF f[h] THEN {h} ELSE {}
    OBVIOUS
  <2> QED BY <2>1, FS_EmptySet, FS_Singleton DEF Selected
<1>2. Selected(f, l, h + 1) = Selected(f, l, h) + Selected(f, h, h + 1)
  BY SelectedSplit
<1> QED BY <1>1, <1>2

\* Different selected rows have different ranks, in the same order.
LEMMA RankOrder ==
  ASSUME NEW f, NEW q \in Nat, NEW r \in Nat, q < r, f[q]
  PROVE  Selected(f, 0, q) < Selected(f, 0, r)
<1>1. Selected(f, 0, r) = Selected(f, 0, q + 1) + Selected(f, q + 1, r)
  BY SelectedSplit
<1>2. Selected(f, 0, q + 1) = Selected(f, 0, q) + 1
  <2>1. Selected(f, q, q + 1) = 1
    <3>1. {s \in q .. (q + 1) - 1 : f[s]} = {q}
      OBVIOUS
    <3> QED BY <3>1, FS_Singleton DEF Selected
  <2>2. Selected(f, 0, q + 1) = Selected(f, 0, q) + Selected(f, q, q + 1)
    BY SelectedSplit
  <2> QED BY <2>1, <2>2
<1>3. Selected(f, 0, q) \in Nat
  BY SelectedType
<1>4. Selected(f, q + 1, r) \in Nat
  BY SelectedType, q + 1 \in Nat
<1> QED BY <1>1, <1>2, <1>3, <1>4

LEMMA RankMonotone ==
  ASSUME NEW f, NEW q \in Nat, NEW r \in Nat, q <= r
  PROVE  Selected(f, 0, q) <= Selected(f, 0, r)
<1>1. Selected(f, 0, r) = Selected(f, 0, q) + Selected(f, q, r)
  BY SelectedSplit
<1>2. Selected(f, 0, q) \in Nat /\ Selected(f, q, r) \in Nat
  BY SelectedType
<1> QED BY <1>1, <1>2

----------------------------------------------------------------------------
(* The segments cover the rows, in order and without overlap.              *)

LEMMA DivisionBound ==
  ASSUME NEW n \in Nat, NEW d \in Nat \ {0}
  PROVE  n \div d \in Nat /\ (n \div d) * d <= n
OBVIOUS

LEMMA Products ==
  ASSUME NEW s \in Nat, NEW a \in Nat, NEW b \in Nat, a <= b
  PROVE  a * s \in Nat /\ a * s <= b * s /\ (a + 1) * s = a * s + s
OBVIOUS

Operands ==
  /\ op \in {"compress", "where"}
  /\ lenX \in Nat
  /\ x \in [Rows -> BOOLEAN]
  /\ \E n \in Lengths : y \in [0 .. n - 1 -> Items \cup Nat]

LEMMA Sizes ==
  ASSUME Operands
  PROVE  Cores \in Nat \ {0} /\ Seg \in Nat /\ Seg * Cores <= lenX
<1>1. Cores \in Nat \ {0}
  BY SizeAssumption DEF SizeAssumption, Cores
<1> QED BY <1>1, DivisionBound DEF Operands, Seg

LEMMA Segments ==
  ASSUME Operands
  PROVE  /\ First(0) = 0
         /\ \A t \in Threads :
              /\ First(t) \in Nat /\ Limit(t) \in Nat
              /\ First(t) <= Limit(t) /\ Limit(t) <= lenX
              /\ Limit(t) = IF t + 1 \in Threads THEN First(t + 1) ELSE lenX
         /\ \A t, u \in Threads : t < u => Limit(t) <= First(u)
<1> DEFINE s == Seg
           c == Cores
<1>1. c \in Nat \ {0} /\ s \in Nat /\ s * c <= lenX /\ lenX \in Nat
  BY Sizes DEF Operands
<1>2. \A t : First(t) = t * s /\ Limit(t) = IF t # c - 1 THEN t * s + s ELSE lenX
  BY DEF First, Limit
<1>3. Threads = 0 .. c - 1
  BY DEF Threads
<1> HIDE DEF s, c
<1>4. \A t \in 0 .. c - 1 : t * s \in Nat /\ (t + 1) * s = t * s + s
  BY <1>1, Products
<1>5. \A t \in 0 .. c - 1 : t * s + s <= lenX
  <2> SUFFICES ASSUME NEW t \in 0 .. c - 1 PROVE t * s + s <= lenX
    OBVIOUS
  <2>1. t + 1 \in Nat /\ c \in Nat /\ t + 1 <= c
    BY <1>1
  <2>2. (t + 1) * s <= c * s
    BY <1>1, <2>1, Products
  <2>3. c * s = s * c
    BY <1>1
  <2>4. s * c \in Nat /\ t * s \in Nat
    BY <1>1, <1>4
  <2> QED BY <1>1, <1>4, <2>2, <2>3, <2>4
<1>6. \A t, u \in 0 .. c - 1 : t < u => t * s + s <= u * s
  <2> SUFFICES ASSUME NEW t \in 0 .. c - 1, NEW u \in 0 .. c - 1, t < u
               PROVE  t * s + s <= u * s
    OBVIOUS
  <2>1. t + 1 \in Nat /\ u \in Nat /\ t + 1 <= u
    BY <1>1
  <2>2. (t + 1) * s <= u * s
    BY <1>1, <2>1, Products
  <2> QED BY <1>4, <2>2
<1>7. First(0) = 0
  BY <1>1, <1>2
<1>8. \A t \in Threads :
        /\ First(t) \in Nat /\ Limit(t) \in Nat
        /\ First(t) <= Limit(t) /\ Limit(t) <= lenX
        /\ Limit(t) = IF t + 1 \in Threads THEN First(t + 1) ELSE lenX
  <2> SUFFICES ASSUME NEW t \in 0 .. c - 1
               PROVE  /\ First(t) \in Nat /\ Limit(t) \in Nat
                      /\ First(t) <= Limit(t) /\ Limit(t) <= lenX
                      /\ Limit(t) = IF t + 1 \in 0 .. c - 1
                                    THEN First(t + 1) ELSE lenX
    BY <1>3
  <2>1. PICK p \in Nat : p = t * s
    BY <1>4
  <2>2. p + s <= lenX
    BY <1>5, <2>1
  <2>3. First(t) = p /\ First(t + 1) = p + s
    BY <1>2, <1>4, <2>1
  <2>4. Limit(t) = IF t # c - 1 THEN p + s ELSE lenX
    BY <1>2, <2>1
  <2>5. t + 1 \in 0 .. c - 1 <=> t # c - 1
    BY <1>1
  <2> QED BY <1>1, <2>2, <2>3, <2>4, <2>5
<1>9. \A t, u \in Threads : t < u => Limit(t) <= First(u)
  BY <1>1, <1>2, <1>3, <1>6
<1> QED BY <1>7, <1>8, <1>9

\* Every row has a thread.
LEMMA Owner ==
  ASSUME Operands, NEW r \in Rows
  PROVE  \E t \in Threads : First(t) <= r /\ r < Limit(t)
<1> DEFINE T == {t \in Threads : r < Limit(t)}
<1>1. Cores - 1 \in Threads /\ Cores \in Nat \ {0} /\ Threads \subseteq Nat
  BY Sizes DEF Threads
<1>2. r \in Nat /\ r < lenX
  BY DEF Rows, Operands
<1>3. Cores - 1 \in T
  BY <1>1, <1>2 DEF Limit
<1>4. PICK t \in T : \A u \in T : t <= u
  BY <1>1, <1>3, LeastNatural
<1>5. CASE t = 0
  BY <1>2, <1>4, <1>5, Segments
<1>6. CASE t # 0
  <2>1. t - 1 \in Threads /\ t - 1 < t /\ (t - 1) + 1 = t /\ t \in Nat
    BY <1>1, <1>4, <1>6 DEF Threads
  <2>2. t - 1 \notin T
    BY <1>4, <2>1
  <2>3. Limit(t - 1) = First(t) /\ Limit(t - 1) \in Nat
    BY <1>4, <2>1, Segments
  <2> QED BY <1>2, <1>4, <2>1, <2>2, <2>3
<1> QED BY <1>5, <1>6

----------------------------------------------------------------------------
(* The inductive invariant.                                                *)

\* Every thread is in its own segment.
InSegment == \A t \in Threads : First(t) <= row[t] /\ row[t] <= Limit(t)

\* The counts, and the part of the offsets that is computed.
Counted ==
  phase = "count" =>
    /\ \A t \in Threads : parZ[t] = Selected(x, First(t), row[t])
    /\ lenZ = Selected(x, 0, IF core = Cores THEN lenX ELSE First(core))
    /\ \A c \in Threads : c < core => offset[c] = Selected(x, 0, First(c))
    /\ core > 0 => Joined /\ SameLength

Written(r) == \E t \in Threads : First(t) <= r /\ r < row[t]

\* Every thread is at the cell its row is ranked, and a cell holds its item
\* when a thread has passed the row, and nothing before.
Placed ==
  phase = "write" =>
    /\ SameLength
    /\ lenZ = Selected(x, 0, lenX)
    /\ \A t \in Threads : offset[t] = Selected(x, 0, row[t])
    /\ \A r \in Rows :
         x[r] => z[Selected(x, 0, r)] = IF Written(r) THEN y[r] ELSE NoItem

IInv == TypeOK /\ InSegment /\ Counted /\ Placed /\ KeepsSelected

LEMMA OperandsOfType == TypeOK => Operands
BY DEF TypeOK, Operands

\* Nothing about the operands and the segments ever changes.
LEMMA SameOperands ==
  ASSUME UNCHANGED operands
  PROVE  /\ Rows' = Rows /\ Cores' = Cores /\ Threads' = Threads
         /\ SameLength' = SameLength
         /\ \A t : First(t)' = First(t) /\ Limit(t)' = Limit(t)
BY DEF operands, Rows, Cores, Threads, SameLength, First, Limit, Seg

\* The rows before and after the row of a thread that is not done.
LEMMA BusyThread ==
  ASSUME Operands, InSegment, row \in [Threads -> 0 .. lenX],
         NEW t \in Threads, Busy(t)
  PROVE  /\ row[t] \in Rows /\ row[t] \in Nat /\ x[row[t]] \in BOOLEAN
         /\ row[t] + 1 \in 0 .. lenX /\ row[t] + 1 <= Limit(t)
         /\ First(t) \in Nat /\ First(t) <= row[t]
         /\ Selected(x, 0, row[t] + 1)
              = Selected(x, 0, row[t]) + (IF x[row[t]] THEN 1 ELSE 0)
<1>1. row[t] \in Nat /\ lenX \in Nat /\ Limit(t) \in Nat /\ Limit(t) <= lenX
      /\ row[t] < Limit(t) /\ First(t) \in Nat /\ First(t) <= row[t]
  BY Segments DEF Busy, InSegment, Operands
<1>2. row[t] \in Rows /\ row[t] + 1 \in 0 .. lenX /\ row[t] + 1 <= Limit(t)
  BY <1>1 DEF Rows
<1>3. x[row[t]] \in BOOLEAN
  BY <1>2 DEF Operands
<1>4. Selected(x, 0, row[t] + 1)
        = Selected(x, 0, row[t]) + (IF x[row[t]] THEN 1 ELSE 0)
  BY <1>1, <1>3, SelectedNext
<1> QED BY <1>1, <1>2, <1>3, <1>4

LEMMA InvInit == Init => IInv
<1> SUFFICES ASSUME Init PROVE IInv
  OBVIOUS
<1>1. Operands
  BY SizeAssumption DEF Init, SizeAssumption, Operands, Rows
<1>2. \A t \in Threads :
        row[t] = First(t) /\ First(t) \in Nat /\ Limit(t) \in Nat
        /\ First(t) <= Limit(t) /\ Limit(t) <= lenX
  BY <1>1, Segments DEF Init
<1>3. Cores \in Nat \ {0} /\ lenX \in Nat
  BY <1>1, Sizes DEF Operands
<1>4. TypeOK
  <2>1. \A t \in Threads : First(t) \in 0 .. lenX
    BY <1>2, <1>3
  <2>2. row \in [Threads -> 0 .. lenX]
    BY <2>1 DEF Init
  <2>3. core \in 0 .. Cores
    BY <1>3 DEF Init
  <2> QED BY <1>1, <2>2, <2>3 DEF Init, TypeOK, Operands
<1>5. InSegment
  BY <1>2, <1>3 DEF InSegment
<1>6. Counted
  <2>1. \A t \in Threads : parZ[t] = Selected(x, First(t), row[t])
    BY <1>2, SelectedNone DEF Init
  <2>2. core # Cores /\ First(core) = 0
    BY <1>1, <1>3, Segments DEF Init
  <2>3. lenZ = Selected(x, 0, First(core))
    BY <2>2, SelectedNone DEF Init
  <2>4. \A c \in Threads : ~ (c < core)
    BY <1>3 DEF Init, Threads
  <2>5. ~ (core > 0)
    BY DEF Init
  <2> QED BY <2>1, <2>2, <2>3, <2>4, <2>5 DEF Counted
<1> QED BY <1>4, <1>5, <1>6 DEF IInv, Placed, KeepsSelected, Init

LEMMA InvCountRow ==
  ASSUME IInv, NEW t \in Threads, CountRow(t)
  PROVE  IInv'
<1>1. UNCHANGED operands /\ phase = "count" /\ UNCHANGED <<phase, core, lenZ, offset, z>>
  BY DEF CountRow
<1>2. Operands /\ TypeOK /\ InSegment /\ Counted
  BY OperandsOfType DEF IInv
<1> DEFINE r == row[t]
<1>3. /\ r \in Rows /\ r \in Nat /\ x[r] \in BOOLEAN
      /\ r + 1 \in 0 .. lenX /\ r + 1 <= Limit(t)
      /\ First(t) \in Nat /\ First(t) <= r
  BY <1>2, BusyThread DEF CountRow, TypeOK
<1>4. /\ row' = [row EXCEPT ![t] = r + 1]
      /\ parZ' = [parZ EXCEPT ![t] = parZ[t] + (IF x[r] THEN 1 ELSE 0)]
  BY DEF CountRow
<1>5. core = 0
  BY <1>1, <1>2 DEF Counted, Joined, CountRow, TypeOK
<1> HIDE DEF r
<1>6. TypeOK'
  <2>1. row' \in [Threads -> 0 .. lenX] /\ parZ' \in [Threads -> Nat]
    BY <1>2, <1>3, <1>4 DEF TypeOK
  <2> QED BY <1>1, <1>2, <2>1, SameOperands DEF TypeOK, operands
<1>7. InSegment'
  <2> SUFFICES ASSUME NEW u \in Threads
               PROVE  First(u) <= row'[u] /\ row'[u] <= Limit(u)
    BY <1>1, SameOperands DEF InSegment
  <2>1. CASE u = t
    BY <1>2, <1>3, <1>4, <2>1 DEF TypeOK
  <2>2. CASE u # t
    BY <1>2, <1>4, <2>2 DEF TypeOK, InSegment
  <2> QED BY <2>1, <2>2
<1>8. Counted'
  <2>1. \A u \in Threads : parZ'[u] = Selected(x, First(u), row'[u])
    <3> SUFFICES ASSUME NEW u \in Threads
                 PROVE  parZ'[u] = Selected(x, First(u), row'[u])
      OBVIOUS
    <3>1. CASE u = t
      <4>1. Selected(x, First(t), r + 1)
              = Selected(x, First(t), r) + (IF x[r] THEN 1 ELSE 0)
        BY <1>3, SelectedNext
      <4>2. parZ[t] = Selected(x, First(t), r)
        BY <1>1, <1>2 DEF Counted, r
      <4> QED BY <1>2, <1>4, <3>1, <4>1, <4>2 DEF TypeOK
    <3>2. CASE u # t
      BY <1>1, <1>2, <1>4, <3>2 DEF Counted, TypeOK
    <3> QED BY <3>1, <3>2
  <2>2. \A c \in Threads : ~ (c < core)
    BY <1>2, <1>5, Sizes DEF Threads
  <2>3. UNCHANGED x
    BY <1>1 DEF operands
  <2> QED BY <1>1, <1>2, <1>5, <2>1, <2>2, <2>3, SameOperands DEF Counted, operands
<1> QED BY <1>1, <1>6, <1>7, <1>8 DEF IInv, Placed, KeepsSelected

LEMMA InvSumCore ==
  ASSUME IInv, SumCore
  PROVE  IInv'
<1>1. UNCHANGED operands /\ phase = "count" /\ UNCHANGED <<phase, row, parZ, z>>
  BY DEF SumCore
<1>2. Operands /\ TypeOK /\ InSegment /\ Counted /\ Joined /\ SameLength
  BY OperandsOfType DEF IInv, SumCore
<1>3. /\ core \in Nat /\ core \in Threads /\ core < Cores /\ Cores \in Nat \ {0}
      /\ core + 1 \in 0 .. Cores
  BY <1>2, Sizes DEF SumCore, TypeOK, Threads
<1>4. \A t \in Threads :
        /\ First(t) \in Nat /\ Limit(t) \in Nat /\ First(t) <= Limit(t)
        /\ row[t] = Limit(t)
  BY <1>2, Segments DEF Joined, Busy, InSegment, TypeOK
\* the rows of a thread follow those of the threads before it
<1>5. \A t \in Threads :
        Selected(x, 0, Limit(t)) = Selected(x, 0, First(t)) + parZ[t]
  <2> SUFFICES ASSUME NEW t \in Threads
               PROVE  Selected(x, 0, Limit(t)) = Selected(x, 0, First(t)) + parZ[t]
    OBVIOUS
  <2>1. parZ[t] = Selected(x, First(t), Limit(t))
    BY <1>1, <1>2, <1>4 DEF Counted
  <2> QED BY <1>4, <2>1, SelectedSplit
<1>6. lenZ' = Selected(x, 0, Limit(core))
  BY <1>1, <1>2, <1>3, <1>5 DEF Counted, SumCore
<1>7. lenZ' = Selected(x, 0, IF core + 1 = Cores THEN lenX ELSE First(core + 1))
  <2>1. Limit(core) = IF core + 1 \in Threads THEN First(core + 1) ELSE lenX
    BY <1>2, <1>3, Segments
  <2>2. core + 1 \in Threads <=> core + 1 # Cores
    BY <1>3 DEF Threads
  <2> QED BY <1>6, <2>1, <2>2
<1>8. OffsetOf(core) = Selected(x, 0, First(core))
  <2>1. CASE core = 0
    BY <1>2, <2>1, Segments, SelectedNone DEF OffsetOf
  <2>2. CASE core # 0
    <3>1. core - 1 \in Threads /\ core - 1 < core /\ (core - 1) + 1 = core
      BY <1>3, <2>2 DEF Threads
    <3>2. Limit(core - 1) = First(core)
      BY <1>2, <1>3, <3>1, Segments
    <3>3. offset[core - 1] = Selected(x, 0, First(core - 1))
      BY <1>1, <1>2, <3>1 DEF Counted
    <3>4. parZ[core - 1] \in Nat /\ offset[core - 1] \in Nat
      BY <1>2, <3>1 DEF TypeOK
    <3> QED BY <1>5, <2>2, <3>1, <3>2, <3>3, <3>4 DEF OffsetOf
  <2> QED BY <2>1, <2>2
<1>9. OffsetOf(core) \in Nat
  BY <1>3, <1>4, <1>8, SelectedNat
<1>10. /\ offset' = [offset EXCEPT ![core] = OffsetOf(core)]
       /\ core' = core + 1
  BY DEF SumCore
<1>11. TypeOK'
  <2>1. offset' \in [Threads -> Nat]
    BY <1>2, <1>9, <1>10 DEF TypeOK
  <2>2. lenZ' \in Nat
    BY <1>3, <1>4, <1>6, SelectedType
  <2>3. core' \in 0 .. Cores
    BY <1>3, <1>10
  <2>4. z' = <<>>
    BY <1>1, <1>2 DEF TypeOK
  <2> QED BY <1>1, <1>2, <2>1, <2>2, <2>3, <2>4, SameOperands DEF TypeOK, operands
<1>12. InSegment'
  BY <1>1, <1>2, SameOperands DEF InSegment
<1>13. Counted'
  <2>1. \A c \in Threads : c < core' => offset'[c] = Selected(x, 0, First(c))
    <3> SUFFICES ASSUME NEW c \in Threads, c < core'
                 PROVE  offset'[c] = Selected(x, 0, First(c))
      OBVIOUS
    <3>1. CASE c = core
      BY <1>2, <1>8, <1>10, <3>1 DEF TypeOK
    <3>2. CASE c # core
      <4>1. c < core
        BY <1>3, <1>10, <3>2 DEF Threads
      <4> QED BY <1>1, <1>2, <1>10, <3>2, <4>1 DEF TypeOK, Counted
    <3> QED BY <3>1, <3>2
  <2>2. Joined' /\ SameLength'
    BY <1>1, <1>2, SameOperands DEF Joined, Busy
  <2>3. \A t \in Threads : parZ'[t] = Selected(x, First(t), row'[t])
    BY <1>1, <1>2 DEF Counted
  <2>4. UNCHANGED <<x, lenX>>
    BY <1>1 DEF operands
  <2> QED BY <1>1, <1>7, <1>10, <2>1, <2>2, <2>3, <2>4, SameOperands DEF Counted
<1> QED BY <1>1, <1>11, <1>12, <1>13 DEF IInv, Placed, KeepsSelected

LEMMA InvReject ==
  ASSUME IInv, Reject
  PROVE  IInv'
<1>1. UNCHANGED operands /\ phase = "count" /\ phase' = "E_LENGTH"
      /\ UNCHANGED <<row, parZ, core, lenZ, offset, z>>
  BY DEF Reject
<1>2. TypeOK'
  BY <1>1, SameOperands DEF IInv, TypeOK, operands
<1>3. InSegment'
  BY <1>1, SameOperands DEF IInv, InSegment
<1> QED BY <1>1, <1>2, <1>3 DEF IInv, Counted, Placed, KeepsSelected

\* A row is ranked below the number of selected rows, and, when every row is
\* selected, at its own number.
LEMMA RankBound ==
  ASSUME Operands, NEW r \in Rows
  PROVE  /\ Selected(x, 0, r) \in Nat
         /\ x[r] => Selected(x, 0, r) \in 0 .. Selected(x, 0, lenX) - 1
         /\ Selected(x, 0, lenX) = lenX => Selected(x, 0, r) = r
<1>1. r \in Nat /\ lenX \in Nat /\ r < lenX
  BY DEF Rows, Operands
<1>2. Selected(x, 0, r) \in Nat /\ Selected(x, 0, lenX) \in Nat
  BY <1>1, SelectedType
<1>3. x[r] => Selected(x, 0, r) < Selected(x, 0, lenX)
  BY <1>1, RankOrder
<1>4. Selected(x, 0, lenX) = Selected(x, 0, r) + Selected(x, r, lenX)
  BY <1>1, SelectedSplit
<1>5. Selected(x, 0, r) <= r
  <2>1. Selected(x, 0, r) <= r - 0
    BY <1>1, SelectedBound
  <2> QED BY <1>1, <1>2, <2>1
<1>6. Selected(x, r, lenX) <= lenX - r /\ Selected(x, r, lenX) \in Nat
  BY <1>1, SelectedNat, SelectedBound
<1> QED BY <1>1, <1>2, <1>3, <1>4, <1>5, <1>6

LEMMA InvCopyAll ==
  ASSUME IInv, CopyAll
  PROVE  IInv'
<1>1. UNCHANGED operands /\ phase = "count" /\ phase' = "done"
      /\ UNCHANGED <<row, parZ, core, lenZ, offset>>
      /\ core = Cores /\ lenX = lenZ /\ z' = (IF lenZ > 0 THEN y ELSE z)
  BY DEF CopyAll, Copies
<1>2. Operands /\ TypeOK /\ SameLength /\ lenX \in Nat
  BY OperandsOfType DEF IInv, CopyAll, TypeOK
<1>3. lenZ = Selected(x, 0, lenX)
  BY <1>1 DEF IInv, Counted
<1>4. y \in [Rows -> Items \cup Nat]
  BY <1>2 DEF Operands, SameLength
<1>5. z' \in [0 .. lenZ - 1 -> Items \cup Nat \cup {NoItem}]
  <2>1. CASE lenZ > 0
    BY <1>1, <1>4, <2>1 DEF Rows
  <2>2. CASE ~ (lenZ > 0)
    <3>1. 0 .. lenZ - 1 = {}
      BY <1>1, <1>2, <2>2
    <3>2. z' = <<>> /\ DOMAIN <<>> = {}
      BY <1>1, <1>2, <2>2 DEF TypeOK
    <3> QED BY <3>1, <3>2
  <2> QED BY <2>1, <2>2
<1>6. TypeOK'
  BY <1>1, <1>2, <1>5, SameOperands DEF TypeOK, operands
<1>7. InSegment'
  BY <1>1, SameOperands DEF IInv, InSegment
<1>8. KeepsSelected'
  <2>1. \A r \in Rows : z'[Selected(x, 0, r)] = y[r]
    <3> SUFFICES ASSUME NEW r \in Rows PROVE z'[Selected(x, 0, r)] = y[r]
      OBVIOUS
    <3>1. Selected(x, 0, r) = r
      BY <1>1, <1>2, <1>3, RankBound
    <3>2. lenZ > 0
      BY <1>1, <1>2 DEF Rows
    <3> QED BY <1>1, <3>1, <3>2
  <2>2. UNCHANGED <<x, y, lenX, lenZ>>
    BY <1>1 DEF operands
  <2> QED BY <1>1, <1>3, <2>1, <2>2, SameOperands DEF KeepsSelected
<1> QED BY <1>1, <1>6, <1>7, <1>8 DEF IInv, Counted, Placed

LEMMA InvAllocate ==
  ASSUME IInv, Allocate
  PROVE  IInv'
<1>1. UNCHANGED operands /\ phase = "count" /\ phase' = "write" /\ SameLength
      /\ UNCHANGED <<parZ, core, lenZ, offset>> /\ core = Cores
      /\ z' = [c \in 0 .. lenZ - 1 |-> NoItem]
      /\ row' = [t \in Threads |-> First(t)]
  BY DEF Allocate
<1>2. Operands /\ TypeOK /\ Counted /\ lenX \in Nat /\ lenZ \in Nat
  BY OperandsOfType DEF IInv, TypeOK
<1>3. \A t \in Threads :
        /\ First(t) \in Nat /\ Limit(t) \in Nat /\ First(t) <= Limit(t)
        /\ Limit(t) <= lenX /\ t < core
  BY <1>1, <1>2, Segments, Sizes DEF Threads
<1>4. lenZ = Selected(x, 0, lenX)
  BY <1>1, <1>2 DEF Counted
<1>5. TypeOK'
  <2>1. row' \in [Threads -> 0 .. lenX]
    BY <1>1, <1>2, <1>3
  <2>2. z' \in [0 .. lenZ - 1 -> Items \cup Nat \cup {NoItem}]
    BY <1>1
  <2> QED BY <1>1, <1>2, <2>1, <2>2, SameOperands DEF TypeOK, operands
<1>6. InSegment'
  BY <1>1, <1>2, <1>3, SameOperands DEF InSegment
<1>7. Placed'
  <2>1. \A t \in Threads : offset[t] = Selected(x, 0, row'[t])
    BY <1>1, <1>2, <1>3 DEF Counted
  <2>2. \A r \in Rows : ~ \E t \in Threads : First(t) <= r /\ r < row'[t]
    BY <1>1, <1>2, <1>3 DEF Rows
  <2>3. \A r \in Rows : x[r] => z'[Selected(x, 0, r)] = NoItem
    BY <1>1, <1>2, <1>4, RankBound
  <2>4. \A r \in Rows : ~ Written(r)'
    BY <1>1, <2>2, SameOperands DEF Written
  <2>5. UNCHANGED <<x, y, lenX, lenZ, offset>>
    BY <1>1 DEF operands
  <2> QED BY <1>1, <1>4, <2>1, <2>3, <2>4, <2>5, SameOperands DEF Placed
<1> QED BY <1>1, <1>5, <1>6, <1>7 DEF IInv, Counted, KeepsSelected

\* The row of a thread is in no other segment, and not yet written.
LEMMA NotYetWritten ==
  ASSUME Operands, InSegment, row \in [Threads -> 0 .. lenX],
         NEW t \in Threads, Busy(t)
  PROVE  ~ Written(row[t])
<1> SUFFICES ASSUME NEW u \in Threads, First(u) <= row[t], row[t] < row[u]
             PROVE  FALSE
  BY DEF Written
<1>1. row[t] \in Nat /\ row[u] \in Nat /\ t \in Nat /\ u \in Nat /\ t # u
  BY Sizes DEF Threads, Operands
<1>2. /\ First(t) \in Nat /\ Limit(t) \in Nat
      /\ First(u) \in Nat /\ Limit(u) \in Nat
  BY Segments
<1>3. /\ First(t) <= row[t] /\ row[t] < Limit(t)
      /\ row[u] <= Limit(u)
  BY <1>1, <1>2 DEF Busy, InSegment
<1>4. CASE t < u
  BY <1>1, <1>2, <1>3, <1>4, Segments
<1>5. CASE u < t
  BY <1>1, <1>2, <1>3, <1>5, Segments
<1> QED BY <1>1, <1>4, <1>5

LEMMA FreeCellInvariant == IInv => FreeCell
<1> SUFFICES ASSUME IInv, phase = "write", NEW t \in Threads, Busy(t), x[row[t]]
             PROVE  offset[t] \in 0 .. lenZ - 1 /\ z[offset[t]] = NoItem
  BY DEF FreeCell
<1>1. Operands /\ TypeOK /\ InSegment /\ Placed
  BY OperandsOfType DEF IInv
<1>2. row[t] \in Rows
  BY <1>1, BusyThread DEF TypeOK
<1>3. ~ Written(row[t])
  BY <1>1, NotYetWritten DEF TypeOK
<1>4. /\ offset[t] = Selected(x, 0, row[t]) /\ lenZ = Selected(x, 0, lenX)
      /\ z[Selected(x, 0, row[t])] = NoItem
  BY <1>1, <1>2, <1>3 DEF Placed
<1> QED BY <1>1, <1>2, <1>4, RankBound

LEMMA InvWriteRow ==
  ASSUME IInv, NEW t \in Threads, WriteRow(t)
  PROVE  IInv'
<1> DEFINE r == row[t]
<1>1. UNCHANGED operands /\ phase = "write" /\ UNCHANGED <<phase, parZ, core, lenZ>>
  BY DEF WriteRow
<1>2. Operands /\ TypeOK /\ InSegment /\ Placed /\ lenX \in Nat /\ Busy(t)
  BY OperandsOfType DEF IInv, TypeOK, WriteRow
<1>3. /\ r \in Rows /\ r \in Nat /\ x[r] \in BOOLEAN
      /\ r + 1 \in 0 .. lenX /\ r + 1 <= Limit(t)
      /\ First(t) \in Nat /\ First(t) <= r
      /\ Selected(x, 0, r + 1) = Selected(x, 0, r) + (IF x[r] THEN 1 ELSE 0)
  BY <1>2, BusyThread DEF TypeOK
<1>4. offset[t] = Selected(x, 0, r) /\ offset[t] \in Nat
  BY <1>1, <1>2 DEF Placed, TypeOK
<1>5. /\ row' = [row EXCEPT ![t] = r + 1]
      /\ x[r] => /\ z' = [z EXCEPT ![offset[t]] = y[r]]
                 /\ offset' = [offset EXCEPT ![t] = offset[t] + 1]
      /\ ~ x[r] => z' = z /\ offset' = offset
  BY DEF WriteRow, Advance
<1>6. x[r] => offset[t] \in 0 .. lenZ - 1
  BY <1>1, <1>2, FreeCellInvariant DEF FreeCell
<1>7. y \in [Rows -> Items \cup Nat] /\ SameLength
  BY <1>1, <1>2 DEF Operands, SameLength, Placed
<1> HIDE DEF r
<1>8. TypeOK'
  <2>1. row' \in [Threads -> 0 .. lenX]
    BY <1>2, <1>3, <1>5 DEF TypeOK
  <2>2. offset' \in [Threads -> Nat]
    BY <1>2, <1>3, <1>4, <1>5, SMTT(30) DEF TypeOK
  <2>3. z' \in [0 .. lenZ - 1 -> Items \cup Nat \cup {NoItem}]
    BY <1>1, <1>2, <1>3, <1>5, <1>7 DEF TypeOK
  <2> QED BY <1>1, <1>2, <2>1, <2>2, <2>3, SameOperands DEF TypeOK, operands
<1>9. InSegment'
  <2> SUFFICES ASSUME NEW u \in Threads
               PROVE  First(u) <= row'[u] /\ row'[u] <= Limit(u)
    BY <1>1, SameOperands DEF InSegment
  <2>1. CASE u = t
    BY <1>2, <1>3, <1>5, <2>1 DEF TypeOK
  <2>2. CASE u # t
    BY <1>2, <1>5, <2>2 DEF TypeOK, InSegment
  <2> QED BY <2>1, <2>2
<1>10. \A u \in Threads : offset'[u] = Selected(x, 0, row'[u])
  <2> SUFFICES ASSUME NEW u \in Threads
               PROVE  offset'[u] = Selected(x, 0, row'[u])
    OBVIOUS
  <2>1. CASE u = t
    <3>1. row'[t] = r + 1
      BY <1>2, <1>5 DEF TypeOK
    <3>2. offset'[t] = offset[t] + (IF x[r] THEN 1 ELSE 0)
      BY <1>2, <1>3, <1>4, <1>5 DEF TypeOK
    <3> QED BY <1>3, <1>4, <2>1, <3>1, <3>2
  <2>2. CASE u # t
    BY <1>1, <1>2, <1>3, <1>5, <2>2 DEF TypeOK, Placed
  <2> QED BY <2>1, <2>2
\* exactly the row of t becomes written
<1>11. \A q \in Rows : Written(q)' <=> Written(q) \/ q = r
  <2> SUFFICES ASSUME NEW q \in Rows
               PROVE  (\E u \in Threads : First(u) <= q /\ q < row'[u])
                        <=> (\E u \in Threads : First(u) <= q /\ q < row[u]) \/ q = r
    BY <1>1, SameOperands DEF Written
  <2>1. q \in Nat /\ row[t] = r /\ row'[t] = r + 1
        /\ \A u \in Threads : u # t => row'[u] = row[u]
    BY <1>2, <1>5 DEF TypeOK, Rows, r
  <2> QED BY <1>3, <2>1
<1>12. \A q \in Rows :
         x[q] => z'[Selected(x, 0, q)] = IF Written(q) \/ q = r THEN y[q] ELSE NoItem
  <2> SUFFICES ASSUME NEW q \in Rows, x[q]
               PROVE  z'[Selected(x, 0, q)]
                        = IF Written(q) \/ q = r THEN y[q] ELSE NoItem
    OBVIOUS
  <2>1. z[Selected(x, 0, q)] = IF Written(q) THEN y[q] ELSE NoItem
    BY <1>1, <1>2 DEF Placed
  <2>2. CASE q = r
    BY <1>1, <1>2, <1>4, <1>5, <1>6, <2>2 DEF TypeOK
  <2>3. CASE q # r /\ x[r]
    <3>1. Selected(x, 0, q) # Selected(x, 0, r)
      <4>1. q \in Nat /\ Selected(x, 0, q) \in Nat /\ Selected(x, 0, r) \in Nat
        BY <1>2, <1>3, SelectedNat DEF Rows
      <4>2. CASE q < r
        BY <1>3, <4>1, <4>2, RankOrder
      <4>3. CASE r < q
        BY <1>3, <2>3, <4>1, <4>3, RankOrder
      <4> QED BY <1>3, <2>3, <4>1, <4>2, <4>3
    <3>2. z = [c \in DOMAIN z |-> z[c]]
      BY <1>1, <1>2 DEF TypeOK
    <3>3. z'[Selected(x, 0, q)] = z[Selected(x, 0, q)]
      <4>1. Selected(x, 0, q) \in DOMAIN z
        BY <1>1, <1>2, RankBound DEF TypeOK, Placed
      <4> QED BY <1>4, <1>5, <2>3, <3>1, <3>2, <4>1
    <3> QED BY <2>1, <2>3, <3>3
  <2>4. CASE q # r /\ ~ x[r]
    BY <1>5, <2>1, <2>4
  <2> QED BY <1>3, <2>2, <2>3, <2>4
<1>13. Placed'
  <2>1. UNCHANGED <<x, y, lenX, lenZ>>
    BY <1>1 DEF operands
  <2>2. lenZ = Selected(x, 0, lenX)
    BY <1>1, <1>2 DEF Placed
  <2> QED BY <1>1, <1>7, <1>10, <1>11, <1>12, <2>1, <2>2, SameOperands DEF Placed
<1> QED BY <1>1, <1>8, <1>9, <1>13 DEF IInv, Counted, KeepsSelected

LEMMA InvFinish ==
  ASSUME IInv, Finish
  PROVE  IInv'
<1>1. UNCHANGED operands /\ phase = "write" /\ phase' = "done" /\ Joined
      /\ UNCHANGED <<row, parZ, core, lenZ, offset, z>>
  BY DEF Finish
<1>2. Operands /\ TypeOK /\ InSegment /\ Placed
  BY OperandsOfType DEF IInv
<1>3. TypeOK'
  BY <1>1, <1>2, SameOperands DEF TypeOK, operands
<1>4. InSegment'
  BY <1>1, <1>2, SameOperands DEF InSegment
<1>5. \A r \in Rows : Written(r)
  <2> SUFFICES ASSUME NEW r \in Rows PROVE Written(r)
    OBVIOUS
  <2>1. PICK t \in Threads : First(t) <= r /\ r < Limit(t)
    BY <1>2, Owner
  <2>2. row[t] = Limit(t)
    BY <1>1, <1>2, Segments DEF Joined, Busy, InSegment, TypeOK
  <2> QED BY <2>1, <2>2 DEF Written
<1>6. KeepsSelected'
  <2>1. UNCHANGED <<x, y, lenX, lenZ>>
    BY <1>1 DEF operands
  <2> QED BY <1>1, <1>2, <1>5, <2>1, SameOperands DEF Placed, KeepsSelected
<1> QED BY <1>1, <1>3, <1>4, <1>6 DEF IInv, Counted, Placed

LEMMA InvStutter ==
  ASSUME IInv, UNCHANGED vars
  PROVE  IInv'
<1>1. UNCHANGED <<operands, op, lenX, x, y, phase, row, parZ, core, lenZ, offset, z>>
  BY DEF vars, operands
<1>2. TypeOK' /\ InSegment'
  BY <1>1, SameOperands DEF IInv, TypeOK, InSegment
<1>3. Joined' = Joined /\ \A r : Written(r)' = Written(r)
  BY <1>1, SameOperands DEF Joined, Busy, Written
<1>4. Counted'
  BY <1>1, <1>3, SameOperands DEF IInv, Counted
<1>5. Placed'
  BY <1>1, <1>3, SameOperands DEF IInv, Placed
<1>6. KeepsSelected'
  BY <1>1, SameOperands DEF IInv, KeepsSelected
<1> QED BY <1>2, <1>4, <1>5, <1>6 DEF IInv

----------------------------------------------------------------------------
(* The theorems.                                                           *)

\* The invariant of the two passes, which the other theorems are read from.
THEOREM PassesInvariant == Spec => []IInv
<1>1. Init => IInv
  BY InvInit
<1>2. IInv /\ [Next]_vars => IInv'
  BY InvCountRow, InvSumCore, InvReject, InvCopyAll, InvAllocate, InvWriteRow,
     InvFinish, InvStutter DEF Next, Main, Worker
<1> QED BY <1>1, <1>2, PTL DEF Spec

\* The variables keep their types.
THEOREM TypesHold == Spec => []TypeOK
<1>1. IInv => TypeOK
  BY DEF IInv
<1> QED BY <1>1, PassesInvariant, PTL

\* Whatever the number of threads, two of them never write the same cell of
\* the result of @compress or @where, and none writes outside of it.
THEOREM WritesApart == Spec => []FreeCell
BY FreeCellInvariant, PassesInvariant, PTL

\* @compress and @where return the selected items, in order.
THEOREM SelectionIsCorrect == Spec => []KeepsSelected
<1>1. IInv => KeepsSelected
  BY DEF IInv
<1> QED BY <1>1, PassesInvariant, PTL
=============================================================================
