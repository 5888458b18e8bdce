-------------------------- MODULE Ordering_proofs --------------------------
(***************************************************************************)
(* Theorems about @order and @group, for every operand, every number and   *)
(* width of digits and every probe: @order returns the rows sorted by the  *)
(* columns and their directions, and stably where the columns are integers *)
(* that ascend; @group returns one cell for each distinct row.             *)
(*                                                                         *)
(* Every sort of the model is a recursive function.  Each is first shown   *)
(* to satisfy its own equation (RecursiveFunction of LeastNumber, with a   *)
(* measure that its calls decrease), and then to be right at every         *)
(* argument, by the least argument at which it would not be.               *)
(***************************************************************************)
EXTENDS Ordering, LeastNumber, SequenceTheorems, FiniteSetTheorems

----------------------------------------------------------------------------
(* Lists that hold every element of a set once, and in an order.           *)

Arranges(s, A) ==
  /\ s \in Seq(A)
  /\ \A a \in A : \E i \in 1 .. Len(s) : s[i] = a
  /\ \A i, j \in 1 .. Len(s) : s[i] = s[j] => i = j

InOrder(s, R) == \A i, j \in 1 .. Len(s) : i < j => <<s[i], s[j]>> \in R

LEMMA ConcatArranges ==
  ASSUME NEW A, NEW B, A \cap B = {}, NEW s, Arranges(s, A), NEW t, Arranges(t, B)
  PROVE  Arranges(s \o t, A \cup B) /\ Len(s \o t) = Len(s) + Len(t)
<1> DEFINE u == s \o t
<1>1. s \in Seq(A \cup B) /\ t \in Seq(A \cup B) /\ s \in Seq(A) /\ t \in Seq(B)
  BY SeqMonotonic DEF Arranges
<1>2. PICK n \in Nat, m \in Nat : n = Len(s) /\ m = Len(t)
  BY <1>1
<1>3. /\ u \in Seq(A \cup B) /\ Len(u) = n + m
      /\ \A i \in 1 .. n + m : u[i] = IF i <= n THEN s[i] ELSE t[i - n]
  BY <1>1, <1>2, ConcatProperties
<1> HIDE DEF u
<1>4. /\ \A i \in 1 .. n : s[i] \in A
      /\ \A i \in 1 .. m : t[i] \in B
      /\ \A a \in A : \E i \in 1 .. n : s[i] = a
      /\ \A a \in B : \E i \in 1 .. m : t[i] = a
      /\ \A i, j \in 1 .. n : s[i] = s[j] => i = j
      /\ \A i, j \in 1 .. m : t[i] = t[j] => i = j
  BY <1>1, <1>2 DEF Arranges
<1>5. ASSUME NEW a \in A \cup B PROVE \E i \in 1 .. n + m : u[i] = a
  <2>1. CASE a \in A
    <3>1. PICK i \in 1 .. n : s[i] = a
      BY <2>1, <1>4
    <3> QED BY <3>1, <1>3
  <2>2. CASE a \in B
    <3>1. PICK i \in 1 .. m : t[i] = a
      BY <2>2, <1>4
    <3>2. n + i \in 1 .. n + m /\ ~ n + i <= n /\ (n + i) - n = i
      OBVIOUS
    <3>3. u[n + i] = t[i]
      BY <3>2, <1>3
    <3> QED BY <3>1, <3>2, <3>3
  <2> QED BY <2>1, <2>2
<1>6. ASSUME NEW i \in 1 .. n + m, NEW j \in 1 .. n + m, u[i] = u[j] PROVE i = j
  <2>1. \A k \in 1 .. n + m : /\ k <= n => u[k] \in A /\ u[k] = s[k] /\ k \in 1 .. n
                              /\ ~ k <= n => u[k] \in B /\ u[k] = t[k - n] /\ k - n \in 1 .. m
    BY <1>3, <1>4
  <2>2. i <= n <=> j <= n
    BY <2>1, <1>6
  <2>3. CASE i <= n
    BY <2>1, <2>2, <2>3, <1>4, <1>6
  <2>4. CASE ~ i <= n
    <3>1. i - n = j - n
      BY <2>1, <2>2, <2>4, <1>4, <1>6
    <3> QED BY <3>1
  <2> QED BY <2>3, <2>4
<1> QED BY <1>2, <1>3, <1>5, <1>6 DEF Arranges, u

LEMMA ConcatInOrder ==
  ASSUME NEW A, NEW B, NEW s, Arranges(s, A), NEW t, Arranges(t, B), NEW R,
         InOrder(s, R), InOrder(t, R), \A a \in A, b \in B : <<a, b>> \in R
  PROVE  InOrder(s \o t, R)
<1> DEFINE u == s \o t
<1>1. s \in Seq(A \cup B) /\ t \in Seq(A \cup B) /\ s \in Seq(A) /\ t \in Seq(B)
  BY SeqMonotonic DEF Arranges
<1>2. PICK n \in Nat, m \in Nat : n = Len(s) /\ m = Len(t)
  BY <1>1
<1>3. /\ u \in Seq(A \cup B) /\ Len(u) = n + m
      /\ \A i \in 1 .. n + m : u[i] = IF i <= n THEN s[i] ELSE t[i - n]
  BY <1>1, <1>2, ConcatProperties
<1> HIDE DEF u
<1>4. /\ \A i \in 1 .. n : s[i] \in A
      /\ \A i \in 1 .. m : t[i] \in B
  BY <1>1, <1>2
<1>5. /\ \A i, j \in 1 .. n : i < j => <<s[i], s[j]>> \in R
      /\ \A i, j \in 1 .. m : i < j => <<t[i], t[j]>> \in R
  BY <1>2 DEF InOrder
<1>6. ASSUME NEW i \in 1 .. n + m, NEW j \in 1 .. n + m, i < j
      PROVE  <<u[i], u[j]>> \in R
  <2>1. \A k \in 1 .. n + m : /\ k <= n => u[k] \in A /\ u[k] = s[k] /\ k \in 1 .. n
                              /\ ~ k <= n => u[k] \in B /\ u[k] = t[k - n] /\ k - n \in 1 .. m
    BY <1>3, <1>4
  <2>2. CASE j <= n
    <3>1. i <= n
      BY <2>2, <1>6
    <3> QED BY <2>1, <2>2, <3>1, <1>5, <1>6
  <2>3. CASE ~ j <= n /\ i <= n
    BY <2>1, <2>3
  <2>4. CASE ~ j <= n /\ ~ i <= n
    <3>1. i - n < j - n
      BY <1>6
    <3> QED BY <2>1, <2>4, <3>1, <1>5
  <2> QED BY <2>2, <2>3, <2>4
<1> QED BY <1>2, <1>3, <1>6 DEF InOrder, u

\* The elements of a part of a list.
Part(s, a, b) == {s[i] : i \in a .. b}

LEMMA PartArranges ==
  ASSUME NEW A, NEW s, Arranges(s, A), NEW a \in Nat, NEW b \in Nat, 1 <= a, a <= b + 1, b <= Len(s)
  PROVE  /\ Arranges(SubSeq(s, a, b), Part(s, a, b)) /\ Part(s, a, b) \subseteq A
         /\ Len(SubSeq(s, a, b)) = b - a + 1 /\ SubSeq(s, a, b) \in Seq(A)
         /\ \A i \in 1 .. b - a + 1 : SubSeq(s, a, b)[i] = s[a + i - 1]
<1> DEFINE t == SubSeq(s, a, b)
           P == Part(s, a, b)
<1>1. PICK n \in Nat : n = Len(s)
  BY DEF Arranges
<1>2. /\ \A i \in 1 .. n : s[i] \in A
      /\ \A i, j \in 1 .. n : s[i] = s[j] => i = j
  BY <1>1 DEF Arranges
<1>3. \A i \in a .. b : i \in 1 .. n /\ s[i] \in P /\ s[i] \in A
  BY <1>1, <1>2 DEF Part
<1>4. P \subseteq A /\ \A p \in P : \E i \in a .. b : p = s[i]
  BY <1>3 DEF Part
<1>5. /\ t \in Seq(P) /\ t \in Seq(A) /\ Len(t) = b - a + 1
      /\ \A i \in 1 .. b - a + 1 : t[i] = s[a + i - 1]
  <2>1. Len(t) = (IF a <= b THEN b - a + 1 ELSE 0) /\ t \in Seq(P) /\ t \in Seq(A)
        /\ \A i \in 1 .. b - a + 1 : t[i] = s[a + i - 1]
    BY <1>3, SubSeqProperties
  <2>2. (IF a <= b THEN b - a + 1 ELSE 0) = b - a + 1
    OBVIOUS
  <2> QED BY <2>1, <2>2
<1> HIDE DEF t, P
<1>6. ASSUME NEW p \in P PROVE \E i \in 1 .. b - a + 1 : t[i] = p
  <2>1. PICK i \in a .. b : p = s[i]
    BY <1>4
  <2>2. i - a + 1 \in 1 .. b - a + 1 /\ a + (i - a + 1) - 1 = i
    OBVIOUS
  <2>3. t[i - a + 1] = s[a + (i - a + 1) - 1]
    BY <1>5, <2>2
  <2> QED BY <2>1, <2>2, <2>3
<1>7. ASSUME NEW i \in 1 .. b - a + 1, NEW j \in 1 .. b - a + 1, t[i] = t[j] PROVE i = j
  <2>1. s[a + i - 1] = s[a + j - 1] /\ a + i - 1 \in 1 .. n /\ a + j - 1 \in 1 .. n
    BY <1>1, <1>5, <1>7
  <2>2. a + i - 1 = a + j - 1
    BY <2>1, <1>2
  <2> QED BY <2>2
<1>8. Arranges(t, P)
  BY <1>5, <1>6, <1>7 DEF Arranges
<1> QED BY <1>4, <1>5, <1>8 DEF t, P

LEMMA PartsOfList ==
  ASSUME NEW A, NEW s, Arranges(s, A), NEW a \in Nat, a <= Len(s)
  PROVE  /\ Part(s, 1, a) \cap Part(s, a + 1, Len(s)) = {}
         /\ Part(s, 1, a) \cup Part(s, a + 1, Len(s)) = A
<1>1. PICK n \in Nat : n = Len(s)
  BY DEF Arranges
<1>2. /\ \A i \in 1 .. n : s[i] \in A
      /\ \A i, j \in 1 .. n : s[i] = s[j] => i = j
      /\ \A x \in A : \E i \in 1 .. n : s[i] = x
  BY <1>1 DEF Arranges
<1>3. \A i \in 1 .. n : i \in 1 .. a \/ i \in a + 1 .. n
  BY <1>1
<1>4. \A i \in 1 .. a : i \in 1 .. n /\ i \notin a + 1 .. n
  BY <1>1
<1>5. \A i \in a + 1 .. n : i \in 1 .. n
  BY <1>1
<1>6. Part(s, 1, a) \cup Part(s, a + 1, n) = A
  BY <1>2, <1>3, <1>4, <1>5 DEF Part
<1>7. Part(s, 1, a) \cap Part(s, a + 1, n) = {}
  BY <1>2, <1>4, <1>5 DEF Part
<1> QED BY <1>1, <1>6, <1>7

LEMMA PartInOrder ==
  ASSUME NEW A, NEW s, Arranges(s, A), NEW R, InOrder(s, R),
         NEW a \in Nat, NEW b \in Nat, 1 <= a, a <= b + 1, b <= Len(s)
  PROVE  InOrder(SubSeq(s, a, b), R)
<1>1. PICK n \in Nat : n = Len(s)
  BY DEF Arranges
<1> DEFINE t == SubSeq(s, a, b)
<1>2. Len(t) = b - a + 1 /\ \A i \in 1 .. b - a + 1 : t[i] = s[a + i - 1]
  BY PartArranges
<1> HIDE DEF t
<1>3. ASSUME NEW i \in 1 .. b - a + 1, NEW j \in 1 .. b - a + 1, i < j
      PROVE  <<t[i], t[j]>> \in R
  <2>1. a + i - 1 \in 1 .. n /\ a + j - 1 \in 1 .. n /\ a + i - 1 < a + j - 1
    BY <1>1, <1>3
  <2>2. <<s[a + i - 1], s[a + j - 1]>> \in R
    BY <2>1, <1>1 DEF InOrder
  <2> QED BY <2>2, <1>2
<1> QED BY <1>2, <1>3 DEF InOrder, t

LEMMA SingleArranges ==
  ASSUME NEW x
  PROVE  Arranges(<<x>>, {x}) /\ Len(<<x>>) = 1 /\ \A R : InOrder(<<x>>, R)
BY DEF Arranges, InOrder

LEMMA EmptyArranges ==
  ASSUME NEW A, NEW s, Arranges(s, A)
  PROVE  s = <<>> <=> A = {}
BY DEF Arranges

LEMMA NoneArranges == Arranges(<<>>, {}) /\ \A R : InOrder(<<>>, R)
BY DEF Arranges, InOrder

LEMMA HeadArranges ==
  ASSUME NEW A, NEW s, Arranges(s, A), s # <<>>, NEW R, InOrder(s, R)
  PROVE  /\ Head(s) \in A /\ Arranges(Tail(s), A \ {Head(s)}) /\ InOrder(Tail(s), R)
         /\ Len(Tail(s)) = Len(s) - 1
         /\ \A a \in A \ {Head(s)} : <<Head(s), a>> \in R
<1>1. PICK n \in Nat : n = Len(s) /\ n > 0
  <2>1. Len(s) \in Nat /\ (Len(s) = 0 => s = <<>>)
    BY DEF Arranges
  <2> QED BY <2>1
<1>2. Tail(s) = SubSeq(s, 2, n) /\ Head(s) = s[1]
  BY <1>1, TailIsSubSeq DEF Arranges
<1>3. /\ Arranges(SubSeq(s, 2, n), Part(s, 2, n)) /\ Part(s, 2, n) \subseteq A
      /\ Len(SubSeq(s, 2, n)) = n - 1
  BY <1>1, PartArranges
<1>4. InOrder(SubSeq(s, 2, n), R)
  BY <1>1, PartInOrder
<1>5. /\ \A i \in 1 .. n : s[i] \in A
      /\ \A i, j \in 1 .. n : s[i] = s[j] => i = j
      /\ \A x \in A : \E i \in 1 .. n : s[i] = x
  BY <1>1 DEF Arranges
<1>6. 1 \in 1 .. n /\ \A i \in 2 .. n : i \in 1 .. n /\ 1 < i
  BY <1>1
<1>7. \A i \in 1 .. n : i = 1 \/ i \in 2 .. n
  OBVIOUS
<1>8. Part(s, 2, n) = A \ {s[1]}
  BY <1>5, <1>6, <1>7 DEF Part
<1>9. ASSUME NEW a \in A \ {s[1]} PROVE <<s[1], a>> \in R
  <2>1. PICK i \in 2 .. n : s[i] = a
    BY <1>8 DEF Part
  <2> QED BY <2>1, <1>1, <1>6 DEF InOrder
<1>10. Head(s) \in A
  BY <1>2, <1>5, <1>6
<1>11. Arranges(Tail(s), A \ {Head(s)}) /\ InOrder(Tail(s), R)
  BY ONLY <1>2, <1>3, <1>4, <1>8
<1>12. Len(Tail(s)) = Len(s) - 1
  BY ONLY <1>1, <1>2, <1>3
<1>13. \A a \in A \ {Head(s)} : <<Head(s), a>> \in R
  BY <1>2, <1>9
<1> QED BY ONLY <1>10, <1>11, <1>12, <1>13

LEMMA ConsArranges ==
  ASSUME NEW A, NEW s, Arranges(s, A), NEW R, InOrder(s, R), NEW x, x \notin A,
         \A a \in A : <<x, a>> \in R
  PROVE  Arranges(<<x>> \o s, A \cup {x}) /\ InOrder(<<x>> \o s, R)
<1>1. Arranges(<<x>>, {x}) /\ InOrder(<<x>>, R)
  BY SingleArranges
<1>2. {x} \cap A = {} /\ {x} \cup A = A \cup {x}
  OBVIOUS
<1>3. Arranges(<<x>> \o s, {x} \cup A)
  BY <1>1, <1>2, ConcatArranges
<1>4. \A b \in {x}, a \in A : <<b, a>> \in R
  OBVIOUS
<1>5. InOrder(<<x>> \o s, R)
  BY <1>1, <1>4, ConcatInOrder
<1> QED BY <1>2, <1>3, <1>5

LEMMA ReverseArranges ==
  ASSUME NEW A, NEW s, Arranges(s, A), NEW R, NEW Q, InOrder(s, R),
         \A a, b \in A : <<a, b>> \in R => <<b, a>> \in Q
  PROVE  Arranges(Reverse(s), A) /\ InOrder(Reverse(s), Q) /\ Len(Reverse(s)) = Len(s)
<1>1. PICK n \in Nat : n = Len(s)
  BY DEF Arranges
<1> DEFINE t == Reverse(s)
<1>2. t = [i \in 1 .. n |-> s[(n - i) + 1]]
  BY <1>1 DEF Reverse
<1>3. \A i \in 1 .. n : (n - i) + 1 \in 1 .. n
  OBVIOUS
<1>4. /\ \A i \in 1 .. n : s[i] \in A
      /\ \A i, j \in 1 .. n : s[i] = s[j] => i = j
      /\ \A x \in A : \E i \in 1 .. n : s[i] = x
  BY <1>1 DEF Arranges
<1>5. t \in Seq(A) /\ Len(t) = n /\ \A i \in 1 .. n : t[i] = s[(n - i) + 1]
  BY <1>2, <1>3, <1>4
<1> HIDE DEF t
<1>6. ASSUME NEW x \in A PROVE \E i \in 1 .. n : t[i] = x
  <2>1. PICK i \in 1 .. n : s[i] = x
    BY <1>4
  <2>2. (n - i) + 1 \in 1 .. n /\ (n - ((n - i) + 1)) + 1 = i
    BY <2>1
  <2> QED BY <2>1, <2>2, <1>5
<1>7. ASSUME NEW i \in 1 .. n, NEW j \in 1 .. n, t[i] = t[j] PROVE i = j
  <2>1. PICK k \in 1 .. n, l \in 1 .. n : k = (n - i) + 1 /\ l = (n - j) + 1
    BY <1>3
  <2>2. s[k] = s[l]
    BY <1>5, <1>7, <2>1
  <2>3. k = l
    BY <1>4, <2>2
  <2> QED BY <2>1, <2>3
<1>8. ASSUME NEW i \in 1 .. n, NEW j \in 1 .. n, i < j PROVE <<t[i], t[j]>> \in Q
  <2>1. (n - j) + 1 < (n - i) + 1 /\ (n - i) + 1 \in 1 .. n /\ (n - j) + 1 \in 1 .. n
    BY <1>8
  <2>2. <<s[(n - j) + 1], s[(n - i) + 1]>> \in R
    BY <2>1, <1>1 DEF InOrder
  <2>3. s[(n - j) + 1] \in A /\ s[(n - i) + 1] \in A
    BY <2>1, <1>4
  <2> QED BY <2>2, <2>3, <1>5
<1> QED BY <1>1, <1>5, <1>6, <1>7, <1>8 DEF Arranges, InOrder, t

LEMMA OrderWeaker ==
  ASSUME NEW A, NEW s, Arranges(s, A), NEW R, NEW Q, InOrder(s, R),
         \A a, b \in A : <<a, b>> \in R => <<a, b>> \in Q
  PROVE  InOrder(s, Q)
<1>1. \A i \in 1 .. Len(s) : s[i] \in A
  BY DEF Arranges
<1> QED BY <1>1 DEF InOrder

\* Neighbours in a transitive order.
LEMMA NeighboursInOrder ==
  ASSUME NEW A, NEW s \in Seq(A), NEW R,
         \A i \in 2 .. Len(s) : <<s[i - 1], s[i]>> \in R,
         \A a, b, c \in A : <<a, b>> \in R /\ <<b, c>> \in R => <<a, c>> \in R
  PROVE  InOrder(s, R)
<1>1. PICK n \in Nat : n = Len(s)
  OBVIOUS
<1> SUFFICES ASSUME NEW i \in 1 .. n
             PROVE  \A j \in 1 .. n : i < j => <<s[i], s[j]>> \in R
  BY <1>1 DEF InOrder
<1> DEFINE T == {j \in Nat : j <= n /\ i < j /\ <<s[i], s[j]>> \notin R}
<1>2. ASSUME T # {} PROVE FALSE
  <2>1. T \subseteq Nat
    OBVIOUS
  <2>2. PICK j \in T : \A k \in T : j <= k
    <3> HIDE DEF T
    <3> QED BY <1>2, <2>1, LeastNatural
  <2>3. j \in Nat /\ j <= n /\ i < j /\ <<s[i], s[j]>> \notin R
    OBVIOUS
  <2>4. j \in 2 .. n /\ j - 1 \in Nat /\ j - 1 <= n /\ ~ j <= j - 1 /\ i <= j - 1
    BY <2>3
  <2>5. <<s[j - 1], s[j]>> \in R
    BY <2>4, <1>1
  <2>6. i # j - 1
    BY <2>3, <2>5
  <2>7. i < j - 1
    BY <2>4, <2>6
  <2>8. <<s[i], s[j - 1]>> \in R
    BY <2>2, <2>4, <2>7
  <2>9. s[i] \in A /\ s[j - 1] \in A /\ s[j] \in A
    BY <1>1, <2>3, <2>4
  <2> QED BY <2>3, <2>5, <2>8, <2>9
<1>3. \A j \in 1 .. n : i < j => j \in Nat /\ j <= n
  OBVIOUS
<1> QED BY <1>2, <1>3

----------------------------------------------------------------------------
(* Columns and the order of their rows.                                    *)

Column(col, n) ==
  /\ col \in [type : {"i32", "i64", "other"}, val : Seq(Int), isUp : BOOLEAN]
  /\ n \in Nat /\ Len(col.val) = n

\* Row a may stand before row b: it does not come after it and, where the sort
\* is to be stable, an equal one has the greater number.
Good(col, n, stable) ==
  {p \in (1 .. n) \X (1 .. n) :
     ~ After(col, p[1], p[2]) /\ (After(col, p[2], p[1]) \/ (stable => p[1] < p[2]))}

LEMMA ColumnOrder ==
  ASSUME NEW col, NEW n, Column(col, n), NEW a \in 1 .. n, NEW b \in 1 .. n
  PROVE  /\ col.val[a] \in Int /\ col.val[b] \in Int /\ n \in Nat /\ Len(col.val) = n
         /\ Differ(col, a, b) <=> After(col, a, b) \/ After(col, b, a)
         /\ After(col, a, b) => ~ After(col, b, a)
         /\ \A stable : <<a, b>> \in Good(col, n, stable)
              <=> ~ After(col, a, b) /\ (After(col, b, a) \/ (stable => a < b))
<1>1. col.val[a] \in Int /\ col.val[b] \in Int /\ n \in Nat /\ Len(col.val) = n
  BY DEF Column
<1>2. Differ(col, a, b) <=> After(col, a, b) \/ After(col, b, a)
  BY <1>1 DEF Differ, After
<1>3. After(col, a, b) => ~ After(col, b, a)
  BY <1>1 DEF After
<1>4. \A stable : <<a, b>> \in Good(col, n, stable)
        <=> ~ After(col, a, b) /\ (After(col, b, a) \/ (stable => a < b))
  BY DEF Good
<1> QED BY <1>1, <1>2, <1>3, <1>4

LEMMA AfterTransitive ==
  ASSUME NEW col, NEW n, Column(col, n), NEW a \in 1 .. n, NEW b \in 1 .. n, NEW c \in 1 .. n,
         ~ After(col, a, b), ~ After(col, b, c)
  PROVE  /\ ~ After(col, a, c)
         /\ After(col, b, a) \/ After(col, c, b) => After(col, c, a)
<1>1. col.val[a] \in Int /\ col.val[b] \in Int /\ col.val[c] \in Int
  BY ColumnOrder
<1> QED BY <1>1 DEF After

LEMMA GoodTransitive ==
  ASSUME NEW col, NEW n, Column(col, n), NEW stable,
         NEW a \in 1 .. n, NEW b \in 1 .. n, NEW c \in 1 .. n,
         <<a, b>> \in Good(col, n, stable), <<b, c>> \in Good(col, n, stable)
  PROVE  <<a, c>> \in Good(col, n, stable)
<1>1. /\ ~ After(col, a, b) /\ (After(col, b, a) \/ (stable => a < b))
      /\ ~ After(col, b, c) /\ (After(col, c, b) \/ (stable => b < c))
  BY ColumnOrder
<1>2. ~ After(col, a, c) /\ (After(col, b, a) \/ After(col, c, b) => After(col, c, a))
  BY <1>1, AfterTransitive
<1>3. a < b /\ b < c => a < c
  OBVIOUS
<1>4. After(col, c, a) \/ (stable => a < c)
  BY <1>1, <1>2, <1>3
<1> QED BY <1>2, <1>4, ColumnOrder

----------------------------------------------------------------------------
(* The merge of two lists in order.                                        *)

MergeBody(col, f, s) ==
  IF s[1] = <<>> THEN s[2]
  ELSE IF s[2] = <<>> THEN s[1]
  ELSE IF After(col, Head(s[1]), Head(s[2]))
       THEN <<Head(s[2])>> \o f[<<s[1], Tail(s[2])>>]
       ELSE <<Head(s[1])>> \o f[<<Tail(s[1]), s[2]>>]

LEMMA TailIsShorter ==
  ASSUME NEW n \in Nat, NEW s \in RowLists(n), s # <<>>
  PROVE  /\ Tail(s) \in RowLists(n) /\ Len(Tail(s)) = Len(s) - 1 /\ Len(s) \in Nat
         /\ Len(Tail(s)) \in Nat /\ <<Head(s)>> \in RowLists(n)
<1>1. s \in Seq(1 .. n)
  BY DEF RowLists
<1> QED BY <1>1, HeadTailProperties DEF RowLists

LEMMA MergeRecursion ==
  ASSUME NEW col, NEW n \in Nat, n = Len(col.val)
  PROVE  /\ Merge(col) \in [RowLists(n) \X RowLists(n) -> RowLists(n)]
         /\ \A s \in RowLists(n) \X RowLists(n) : Merge(col)[s] = MergeBody(col, Merge(col), s)
<1> DEFINE X == RowLists(n)
           S == X \X X
           m == Merge(col)
           Y == X \cup {m[s] : s \in S}
           mu == [s \in S |-> Len(s[1]) + Len(s[2])]
           G == [s \in S |-> [f \in [S -> Y] |-> MergeBody(col, f, s)]]
<1>1. m = CHOOSE f : f = [s \in S |-> MergeBody(col, f, s)]
  BY DEF Merge, MergeBody
<1>2. \A r \in X : Len(r) \in Nat
  BY DEF RowLists
<1>3. mu \in [S -> Nat] /\ \A s \in S : mu[s] = Len(s[1]) + Len(s[2])
  <2> HIDE DEF X
  <2>1. \A s \in S : Len(s[1]) \in Nat /\ Len(s[2]) \in Nat
    BY <1>2
  <2>2. \A s \in S : Len(s[1]) + Len(s[2]) \in Nat
    BY <2>1
  <2> HIDE DEF S
  <2> QED BY <2>2
<1>4. ASSUME NEW s \in S, s[1] # <<>>, s[2] # <<>>
      PROVE  /\ <<s[1], Tail(s[2])>> \in S /\ mu[<<s[1], Tail(s[2])>>] < mu[s]
             /\ <<Tail(s[1]), s[2]>> \in S /\ mu[<<Tail(s[1]), s[2]>>] < mu[s]
             /\ <<Head(s[1])>> \in X /\ <<Head(s[2])>> \in X
  <2>1. /\ Tail(s[1]) \in X /\ Len(Tail(s[1])) = Len(s[1]) - 1 /\ <<Head(s[1])>> \in X
        /\ Tail(s[2]) \in X /\ Len(Tail(s[2])) = Len(s[2]) - 1 /\ <<Head(s[2])>> \in X
        /\ Len(s[1]) \in Nat /\ Len(s[2]) \in Nat
    BY <1>4, TailIsShorter
  <2> HIDE DEF X, mu
  <2>2. PICK r \in X, q \in X : s[1] = r /\ s[2] = q
    OBVIOUS
  <2>3. <<r, Tail(q)>> \in S /\ <<Tail(r), q>> \in S
    BY <2>1, <2>2
  <2>4. mu[<<r, Tail(q)>>] = Len(r) + Len(Tail(q)) /\ mu[<<Tail(r), q>>] = Len(Tail(r)) + Len(q)
    BY <2>3, <1>3
  <2>5. mu[s] = Len(r) + Len(q)
    BY <2>2, <1>3
  <2>6. mu[<<r, Tail(q)>>] < mu[s] /\ mu[<<Tail(r), q>>] < mu[s]
    BY <2>1, <2>2, <2>4, <2>5
  <2> QED BY <2>1, <2>2, <2>3, <2>6
<1>5. ASSUME NEW s \in S, NEW f \in [S -> X] PROVE MergeBody(col, f, s) \in X
  <2>1. \A r, q \in X : r \o q \in X
    BY ConcatProperties DEF RowLists
  <2>2. s[1] \in X /\ s[2] \in X
    OBVIOUS
  <2>3. CASE s[1] = <<>> \/ s[2] = <<>>
    BY <2>2, <2>3 DEF MergeBody
  <2>4. CASE s[1] # <<>> /\ s[2] # <<>>
    <3>1. f[<<s[1], Tail(s[2])>>] \in X /\ f[<<Tail(s[1]), s[2]>>] \in X
      BY <2>4, <1>4
    <3> HIDE DEF X, S
    <3> QED BY <2>1, <2>4, <3>1, <1>4 DEF MergeBody
  <2> QED BY <2>3, <2>4
<1>6. ASSUME NEW s \in S, NEW f, NEW g, \A t \in S : mu[t] < mu[s] => f[t] = g[t]
      PROVE  MergeBody(col, f, s) = MergeBody(col, g, s)
  <2>1. s[1] # <<>> /\ s[2] # <<>> =>
          /\ f[<<s[1], Tail(s[2])>>] = g[<<s[1], Tail(s[2])>>]
          /\ f[<<Tail(s[1]), s[2]>>] = g[<<Tail(s[1]), s[2]>>]
    <3> HIDE DEF S, mu
    <3> QED BY <1>4, <1>6
  <2> QED BY <2>1 DEF MergeBody
<1> HIDE DEF S, X, mu, m
<1>7. Recursion(G, S, X, Y, mu)
  <2>1. \A f \in [S -> X] : f \in [S -> Y]
    OBVIOUS
  <2>2. \A s \in S : \A f \in [S -> Y] : G[s][f] = MergeBody(col, f, s)
    OBVIOUS
  <2> HIDE DEF Y, G
  <2>3. X \subseteq Y
    BY DEF Y
  <2> QED BY <2>1, <2>2, <2>3, <1>3, <1>5, <1>6 DEF Recursion
<1>8. <<>> \in X
  BY DEF X, RowLists
<1>9. PICK f \in [S -> X] : f = [s \in S |-> G[s][f]]
  <2> HIDE DEF G, Y
  <2> QED BY <1>7, <1>8, RecursiveFunction
<1>10. f = [s \in S |-> MergeBody(col, f, s)]
  <2>1. f \in [S -> Y]
    OBVIOUS
  <2> HIDE DEF Y
  <2>2. \A s \in S : G[s][f] = MergeBody(col, f, s)
    BY <2>1
  <2> QED BY <1>9, <2>2
<1>11. m = [s \in S |-> MergeBody(col, m, s)]
  <2> HIDE DEF G, Y
  <2> QED BY <1>1, <1>10
<1>12. m \in [S -> Y] /\ \A s \in S : m[s] = G[s][m]
  <2>1. m \in [S -> Y]
    BY <1>11
  <2> HIDE DEF Y
  <2>2. \A s \in S : G[s][m] = MergeBody(col, m, s)
    BY <2>1
  <2> QED BY <1>11, <2>1, <2>2
<1>13. m \in [S -> X]
  <2> HIDE DEF G, Y
  <2> QED BY <1>7, <1>8, <1>12, RecursionTyped
<1>14. \A s \in S : m[s] = MergeBody(col, m, s)
  BY <1>11
<1> QED BY <1>13, <1>14 DEF m, S, X

Listed(s, A, R) == Arranges(s, A) /\ InOrder(s, R)

\* What the merge takes: rows A in front and rows B behind.
Mergeable(col, n, stable, R, s, A, B) ==
  /\ Column(col, n) /\ stable \in BOOLEAN /\ R = Good(col, n, stable)
  /\ A \subseteq 1 .. n /\ B \subseteq 1 .. n /\ A \cap B = {}
  /\ Listed(s[1], A, R) /\ Listed(s[2], B, R)
  /\ stable => \A a \in A, b \in B : a < b

LEMMA ListHasRows ==
  ASSUME NEW n \in Nat, NEW A \in SUBSET (1 .. n), NEW s, Arranges(s, A)
  PROVE  s \in RowLists(n) /\ Len(s) \in Nat
<1>1. s \in Seq(A) /\ A \subseteq 1 .. n
  BY DEF Arranges
<1>2. s \in Seq(1 .. n)
  BY <1>1, SeqMonotonic
<1>3. Len(s) \in Nat
  BY <1>2
<1> QED BY <1>2, <1>3 DEF RowLists

\* The row that the merge takes first may stand before all the others.
LEMMA MergeStep ==
  ASSUME NEW col, NEW n, NEW stable, NEW R, NEW A, NEW B, NEW s,
         Mergeable(col, n, stable, R, s, A, B), s[1] # <<>>, s[2] # <<>>
  PROVE  /\ After(col, Head(s[1]), Head(s[2])) =>
              /\ Mergeable(col, n, stable, R, <<s[1], Tail(s[2])>>, A, B \ {Head(s[2])})
              /\ Head(s[2]) \in B
              /\ \A c \in A \cup (B \ {Head(s[2])}) : <<Head(s[2]), c>> \in R
         /\ ~ After(col, Head(s[1]), Head(s[2])) =>
              /\ Mergeable(col, n, stable, R, <<Tail(s[1]), s[2]>>, A \ {Head(s[1])}, B)
              /\ Head(s[1]) \in A
              /\ \A c \in (A \ {Head(s[1])}) \cup B : <<Head(s[1]), c>> \in R
<1>1. /\ Arranges(s[1], A) /\ InOrder(s[1], R) /\ Arranges(s[2], B) /\ InOrder(s[2], R)
      /\ A \cap B = {} /\ (stable => \A a \in A, b \in B : a < b)
      /\ Column(col, n) /\ stable \in BOOLEAN /\ R = Good(col, n, stable)
      /\ A \subseteq 1 .. n /\ B \subseteq 1 .. n
  BY DEF Mergeable, Listed
<1> DEFINE p == Head(s[1])
           q == Head(s[2])
<1>2. /\ p \in A /\ Arranges(Tail(s[1]), A \ {p}) /\ InOrder(Tail(s[1]), R)
      /\ \A a \in A \ {p} : <<p, a>> \in R
  BY <1>1, HeadArranges
<1>3. /\ q \in B /\ Arranges(Tail(s[2]), B \ {q}) /\ InOrder(Tail(s[2]), R)
      /\ \A b \in B \ {q} : <<q, b>> \in R
  <2>1. Arranges(s[2], B) /\ InOrder(s[2], R) /\ s[2] # <<>>
    BY <1>1
  <2>2. PICK t : t = s[2]
    OBVIOUS
  <2>3. Arranges(t, B) /\ InOrder(t, R) /\ t # <<>>
    BY ONLY <2>1, <2>2
  <2>4. /\ Head(t) \in B /\ Arranges(Tail(t), B \ {Head(t)}) /\ InOrder(Tail(t), R)
        /\ \A b \in B \ {Head(t)} : <<Head(t), b>> \in R
    BY ONLY <2>3, HeadArranges
  <2> QED BY ONLY <2>2, <2>4
<1> HIDE DEF p, q
<1>4. p \in 1 .. n /\ q \in 1 .. n /\ (\A a \in A : a \in 1 .. n) /\ (\A b \in B : b \in 1 .. n)
  BY <1>1, <1>2, <1>3
<1>5. ASSUME After(col, p, q)
      PROVE  /\ Mergeable(col, n, stable, R, <<s[1], Tail(s[2])>>, A, B \ {q})
             /\ \A c \in A \cup (B \ {q}) : <<q, c>> \in R
  <2>1. Mergeable(col, n, stable, R, <<s[1], Tail(s[2])>>, A, B \ {q})
    BY <1>1, <1>3 DEF Mergeable, Listed
  <2>2. <<q, p>> \in R
    BY <1>1, <1>4, <1>5, ColumnOrder
  <2>3. ASSUME NEW a \in A PROVE <<q, a>> \in R
    <3>1. a = p \/ <<p, a>> \in R
      BY <1>2
    <3> QED BY <3>1, <2>2, <1>1, <1>4, GoodTransitive
  <2> QED BY <2>1, <2>3, <1>3
<1>6. ASSUME ~ After(col, p, q)
      PROVE  /\ Mergeable(col, n, stable, R, <<Tail(s[1]), s[2]>>, A \ {p}, B)
             /\ \A c \in (A \ {p}) \cup B : <<p, c>> \in R
  <2>1. Mergeable(col, n, stable, R, <<Tail(s[1]), s[2]>>, A \ {p}, B)
    BY <1>1, <1>2 DEF Mergeable, Listed
  <2>2. <<p, q>> \in R
    BY <1>1, <1>2, <1>3, <1>4, <1>6, ColumnOrder
  <2>3. ASSUME NEW b \in B PROVE <<p, b>> \in R
    <3>1. b = q \/ <<q, b>> \in R
      BY <1>3
    <3> QED BY <3>1, <2>2, <1>1, <1>4, GoodTransitive
  <2> QED BY <2>1, <2>3, <1>2
<1> QED BY <1>2, <1>3, <1>5, <1>6 DEF p, q

LEMMA MergeSorts ==
  ASSUME NEW col, NEW n, NEW stable, NEW R, NEW A, NEW B, NEW r,
         Mergeable(col, n, stable, R, r, A, B), r \in RowLists(n) \X RowLists(n)
  PROVE  Listed(Merge(col)[r], A \cup B, R)
<1> DEFINE X == RowLists(n)
           S == X \X X
           m == Merge(col)
           mu == [s \in S |-> Len(s[1]) + Len(s[2])]
           Right(s) == \A C, D :
                         Mergeable(col, n, stable, R, s, C, D) => Listed(m[s], C \cup D, R)
           T == {s \in S : ~ Right(s)}
<1>0. n \in Nat /\ n = Len(col.val)
  BY DEF Mergeable, Column
<1>1. \A s \in S : m[s] = MergeBody(col, m, s)
  BY <1>0, MergeRecursion
<1>2. mu \in [S -> Nat] /\ \A s \in S : mu[s] = Len(s[1]) + Len(s[2])
  <2>1. \A x \in X : Len(x) \in Nat
    BY DEF RowLists
  <2> HIDE DEF X
  <2>2. \A s \in S : Len(s[1]) \in Nat /\ Len(s[2]) \in Nat
    BY <2>1
  <2>3. \A s \in S : Len(s[1]) + Len(s[2]) \in Nat
    BY <2>2
  <2> HIDE DEF S
  <2> QED BY <2>3
<1>3. ASSUME NEW s \in S, \A t \in S : mu[t] < mu[s] => Right(t),
             NEW C, NEW D, Mergeable(col, n, stable, R, s, C, D)
      PROVE  Listed(m[s], C \cup D, R)
  <2>1. m[s] = MergeBody(col, m, s)
    BY <1>1
  <2>2. Arranges(s[1], C) /\ InOrder(s[1], R) /\ Arranges(s[2], D) /\ InOrder(s[2], R) /\ C \cap D = {}
    BY <1>3 DEF Mergeable, Listed
  <2>3. CASE s[1] = <<>>
    <3>1. C = {} /\ C \cup D = D
      BY <2>2, <2>3, EmptyArranges
    <3> QED BY <2>1, <2>2, <2>3, <3>1 DEF MergeBody, Listed
  <2>4. CASE s[1] # <<>> /\ s[2] = <<>>
    <3>1. D = {} /\ C \cup D = C
      BY <2>2, <2>4, EmptyArranges
    <3> QED BY <2>1, <2>2, <2>4, <3>1 DEF MergeBody, Listed
  <2>5. CASE s[1] # <<>> /\ s[2] # <<>>
    <3> DEFINE p == Head(s[1])
               q == Head(s[2])
               v == <<s[1], Tail(s[2])>>
               w == <<Tail(s[1]), s[2]>>
    <3>1. /\ Tail(s[1]) \in X /\ Len(Tail(s[1])) = Len(s[1]) - 1
          /\ Tail(s[2]) \in X /\ Len(Tail(s[2])) = Len(s[2]) - 1
          /\ Len(s[1]) \in Nat /\ Len(s[2]) \in Nat /\ s[1] \in X /\ s[2] \in X
      BY <1>0, <2>5, TailIsShorter
    <3>2. v \in S /\ w \in S /\ v[1] = s[1] /\ v[2] = Tail(s[2]) /\ w[1] = Tail(s[1]) /\ w[2] = s[2]
      BY <3>1
    <3> HIDE DEF X, mu, S, v, w, Right
    <3>3. mu[v] < mu[s] /\ mu[w] < mu[s]
      <4>1. mu[v] = Len(s[1]) + Len(Tail(s[2])) /\ mu[w] = Len(Tail(s[1])) + Len(s[2])
            /\ mu[s] = Len(s[1]) + Len(s[2])
        BY <1>2, <3>2
      <4>2. PICK i \in Nat, j \in Nat : i = Len(s[1]) /\ j = Len(s[2])
        BY <3>1
      <4>3. mu[v] = i + (j - 1) /\ mu[w] = (i - 1) + j /\ mu[s] = i + j
        BY <3>1, <4>1, <4>2
      <4> QED BY <4>3
    <3>6. /\ After(col, p, q) => /\ Mergeable(col, n, stable, R, v, C, D \ {q}) /\ q \in D
                                 /\ \A c \in C \cup (D \ {q}) : <<q, c>> \in R
          /\ ~ After(col, p, q) => /\ Mergeable(col, n, stable, R, w, C \ {p}, D) /\ p \in C
                                   /\ \A c \in (C \ {p}) \cup D : <<p, c>> \in R
      <4>1. Mergeable(col, n, stable, R, s, C, D) /\ s[1] # <<>> /\ s[2] # <<>>
        BY <1>3, <2>5
      <4> QED BY ONLY <4>1, MergeStep DEF v, w, p, q
    <3>4. CASE After(col, p, q)
      <4>1. Mergeable(col, n, stable, R, v, C, D \ {q}) /\ q \in D /\ \A c \in C \cup (D \ {q}) : <<q, c>> \in R
        BY <3>6, <3>4
      <4>2. Listed(m[v], C \cup (D \ {q}), R)
        <5>1. Right(v)
          BY <3>2, <3>3, <1>3
        <5> QED BY <4>1, <5>1 DEF Right
      <4>3. q \notin C \cup (D \ {q})
        BY <4>1, <2>2
      <4>4. Listed(<<q>> \o m[v], (C \cup (D \ {q})) \cup {q}, R)
        BY <4>1, <4>2, <4>3, ConsArranges DEF Listed
      <4>5. (C \cup (D \ {q})) \cup {q} = C \cup D
        BY <4>1
      <4>6. m[s] = <<q>> \o m[v]
        BY <2>1, <2>5, <3>4 DEF MergeBody, v
      <4> QED BY <4>4, <4>5, <4>6
    <3>5. CASE ~ After(col, p, q)
      <4>1. Mergeable(col, n, stable, R, w, C \ {p}, D) /\ p \in C /\ \A c \in (C \ {p}) \cup D : <<p, c>> \in R
        BY <3>6, <3>5
      <4>2. Listed(m[w], (C \ {p}) \cup D, R)
        <5>1. Right(w)
          BY <3>2, <3>3, <1>3
        <5> QED BY <4>1, <5>1 DEF Right
      <4>3. p \notin (C \ {p}) \cup D
        BY <4>1, <2>2
      <4>4. Listed(<<p>> \o m[w], ((C \ {p}) \cup D) \cup {p}, R)
        BY <4>1, <4>2, <4>3, ConsArranges DEF Listed
      <4>5. ((C \ {p}) \cup D) \cup {p} = C \cup D
        BY <4>1
      <4>6. m[s] = <<p>> \o m[w]
        BY <2>1, <2>5, <3>5 DEF MergeBody, w
      <4> QED BY <4>4, <4>5, <4>6
    <3> QED BY <3>4, <3>5
  <2> QED BY <2>3, <2>4, <2>5
<1>4. ASSUME T # {} PROVE FALSE
  <2>1. T \subseteq S
    OBVIOUS
  <2>2. PICK s \in T : \A t \in T : mu[s] <= mu[t]
    <3> HIDE DEF T, S, mu
    <3> QED BY <1>2, <1>4, <2>1, LeastByMeasure
  <2>3. s \in S /\ ~ Right(s)
    OBVIOUS
  <2> HIDE DEF S, mu, Right
  <2>4. \A t \in S : mu[t] < mu[s] => ~ mu[s] <= mu[t]
    BY <1>2, <2>3
  <2>5. \A t \in S : mu[t] < mu[s] => Right(t)
    BY <2>2, <2>4
  <2>6. Right(s)
    <3>1. ASSUME NEW C, NEW D, Mergeable(col, n, stable, R, s, C, D)
          PROVE  Listed(m[s], C \cup D, R)
      BY <1>3, <2>3, <2>5, <3>1
    <3> QED BY <3>1 DEF Right
  <2> QED BY <2>3, <2>6
<1>5. Right(r)
  <2> HIDE DEF Right, S
  <2> QED BY <1>4 DEF S
<1> QED BY <1>5

LEMMA ArrangesCount ==
  ASSUME NEW A, NEW s, Arranges(s, A)
  PROVE  IsFiniteSet(A) /\ Len(s) = Cardinality(A)
<1>1. PICK n \in Nat : n = Len(s)
  BY DEF Arranges
<1>2. /\ s \in [1 .. n -> A]
      /\ \A i, j \in 1 .. n : s[i] = s[j] => i = j
      /\ \A x \in A : \E i \in 1 .. n : s[i] = x
  BY <1>1 DEF Arranges
<1>3. s \in Bijection(1 .. n, A)
  BY <1>2 DEF Bijection, Injection, Surjection, IsInjective
<1>4. ExistsBijection(1 .. n, A)
  BY <1>3 DEF ExistsBijection
<1>5. IsFiniteSet(1 .. n) /\ Cardinality(1 .. n) = n
  BY FS_Interval
<1> QED BY <1>1, <1>4, <1>5, FS_Bijection

LEMMA SameCount ==
  ASSUME NEW A, NEW s, Arranges(s, A), NEW t, Arranges(t, A)
  PROVE  Len(s) = Len(t)
BY ArrangesCount

\* The parts of a list before and from a place.
FrontPart(s, k) == SubSeq(s, 1, k)
BackPart(s, k) == SubSeq(s, k + 1, Len(s))

LEMMA TwoHalves ==
  ASSUME NEW X, NEW s \in Seq(X), NEW k \in Nat, k <= Len(s)
  PROVE  /\ FrontPart(s, k) \in Seq(X) /\ Len(FrontPart(s, k)) = k
         /\ BackPart(s, k) \in Seq(X) /\ Len(BackPart(s, k)) = Len(s) - k
<1>1. PICK n \in Nat : n = Len(s)
  OBVIOUS
<1>2. \A i \in 1 .. n : s[i] \in X
  BY <1>1
<1>3. (\A i \in 1 .. k : s[i] \in X) /\ (\A i \in k + 1 .. n : s[i] \in X) /\ k <= n
  BY <1>1, <1>2
<1>4. FrontPart(s, k) \in Seq(X) /\ Len(FrontPart(s, k)) = IF 1 <= k THEN k - 1 + 1 ELSE 0
  BY <1>3, SubSeqProperties DEF FrontPart
<1>5. BackPart(s, k) \in Seq(X) /\ Len(BackPart(s, k)) = IF k + 1 <= n THEN n - (k + 1) + 1 ELSE 0
  BY <1>1, <1>3, SubSeqProperties DEF BackPart
<1>6. (IF 1 <= k THEN k - 1 + 1 ELSE 0) = k /\ (IF k + 1 <= n THEN n - (k + 1) + 1 ELSE 0) = n - k
  BY <1>3
<1> QED BY <1>1, <1>4, <1>5, <1>6

LEMMA HalvesListed ==
  ASSUME NEW A, NEW s, Arranges(s, A), NEW k \in Nat, k <= Len(s)
  PROVE  /\ Arranges(FrontPart(s, k), Part(s, 1, k)) /\ Arranges(BackPart(s, k), Part(s, k + 1, Len(s)))
         /\ \A R : InOrder(s, R) => InOrder(FrontPart(s, k), R) /\ InOrder(BackPart(s, k), R)
         /\ Part(s, 1, k) \subseteq A /\ Part(s, k + 1, Len(s)) \subseteq A
         /\ Part(s, 1, k) \cap Part(s, k + 1, Len(s)) = {}
         /\ Part(s, 1, k) \cup Part(s, k + 1, Len(s)) = A
<1>1. PICK n \in Nat : n = Len(s)
  BY DEF Arranges
<1>2. 1 \in Nat /\ k + 1 \in Nat /\ 1 <= k + 1 /\ k + 1 <= n + 1 /\ n <= Len(s)
  BY <1>1
<1>3. Arranges(FrontPart(s, k), Part(s, 1, k)) /\ Part(s, 1, k) \subseteq A
  BY <1>2, PartArranges DEF FrontPart
<1>4. Arranges(BackPart(s, k), Part(s, k + 1, n)) /\ Part(s, k + 1, n) \subseteq A
  BY <1>1, <1>2, PartArranges DEF BackPart
<1>5. \A R : InOrder(s, R) => InOrder(FrontPart(s, k), R)
  BY <1>2, PartInOrder DEF FrontPart
<1>6. \A R : InOrder(s, R) => InOrder(BackPart(s, k), R)
  BY <1>1, <1>2, PartInOrder DEF BackPart
<1> QED BY <1>1, <1>3, <1>4, <1>5, <1>6, PartsOfList

----------------------------------------------------------------------------
(* The merge sort.                                                         *)

MergeSortBody(col, f, rows) ==
  LET mid   == Len(rows) \div 2
      front == f[SubSeq(rows, 1, mid)]
      back  == f[SubSeq(rows, mid + 1, Len(rows))]
  IN  IF Len(rows) < 2 THEN rows
      ELSE IF After(col, front[mid], back[1]) THEN Merge(col)[<<front, back>>]
      ELSE front \o back

LEMMA MiddleInside ==
  ASSUME NEW n \in Nat, n >= 2
  PROVE  n \div 2 \in Nat /\ n \div 2 >= 1 /\ n \div 2 < n
OBVIOUS

LEMMA MergeSortRecursion ==
  ASSUME NEW col, NEW n \in Nat, n = Len(col.val)
  PROVE  /\ MergeSort(col) \in [RowLists(n) -> RowLists(n)]
         /\ \A s \in RowLists(n) : MergeSort(col)[s] = MergeSortBody(col, MergeSort(col), s)
<1> DEFINE S == RowLists(n)
           m == MergeSort(col)
           Y == S \cup {m[s] : s \in S}
           mu == [s \in S |-> Len(s)]
           G == [s \in S |-> [f \in [S -> Y] |-> MergeSortBody(col, f, s)]]
           mid(s) == Len(s) \div 2
<1>1. m = CHOOSE f : f = [s \in S |-> MergeSortBody(col, f, s)]
  BY DEF MergeSort, MergeSortBody
<1>2. mu \in [S -> Nat] /\ \A s \in S : mu[s] = Len(s)
  BY DEF RowLists
<1>3. ASSUME NEW s \in S, ~ Len(s) < 2
      PROVE  /\ SubSeq(s, 1, mid(s)) \in S /\ mu[SubSeq(s, 1, mid(s))] < mu[s]
             /\ SubSeq(s, mid(s) + 1, Len(s)) \in S /\ mu[SubSeq(s, mid(s) + 1, Len(s))] < mu[s]
  <2>1. Len(s) \in Nat /\ Len(s) >= 2 /\ s \in Seq(1 .. n)
    BY <1>3 DEF RowLists
  <2>2. PICK k \in Nat : k = mid(s) /\ k >= 1 /\ k < Len(s)
    BY <2>1, MiddleInside
  <2>3. k <= Len(s) /\ Len(s) - k < Len(s)
    BY <2>1, <2>2
  <2>4. /\ FrontPart(s, k) \in Seq(1 .. n) /\ Len(FrontPart(s, k)) = k
        /\ BackPart(s, k) \in Seq(1 .. n) /\ Len(BackPart(s, k)) = Len(s) - k
    BY <2>1, <2>3, TwoHalves
  <2> HIDE DEF mu, mid
  <2>5. FrontPart(s, k) \in S /\ BackPart(s, k) \in S
    BY <2>4 DEF RowLists
  <2>6. mu[FrontPart(s, k)] < mu[s] /\ mu[BackPart(s, k)] < mu[s]
    BY <1>2, <2>2, <2>3, <2>4, <2>5
  <2> QED BY <2>2, <2>5, <2>6 DEF FrontPart, BackPart
<1>4. ASSUME NEW s \in S, NEW f \in [S -> S] PROVE MergeSortBody(col, f, s) \in S
  <2>1. \A r, q \in S : r \o q \in S
    BY ConcatProperties DEF RowLists
  <2>2. CASE Len(s) < 2
    BY <2>2 DEF MergeSortBody
  <2>3. CASE ~ Len(s) < 2
    <3>1. PICK front \in S, back \in S : front = f[SubSeq(s, 1, mid(s))] /\ back = f[SubSeq(s, mid(s) + 1, Len(s))]
      BY <2>3, <1>3
    <3>2. Merge(col) \in [S \X S -> S]
      BY MergeRecursion
    <3> HIDE DEF S
    <3>4. Merge(col)[<<front, back>>] \in S
      BY <3>2
    <3>3. front \o back \in S
      BY <2>1
    <3> QED BY <2>3, <3>1, <3>3, <3>4 DEF MergeSortBody
  <2> QED BY <2>2, <2>3
<1>5. ASSUME NEW s \in S, NEW f, NEW g, \A t \in S : mu[t] < mu[s] => f[t] = g[t]
      PROVE  MergeSortBody(col, f, s) = MergeSortBody(col, g, s)
  <2>1. ~ Len(s) < 2 =>
          /\ f[SubSeq(s, 1, mid(s))] = g[SubSeq(s, 1, mid(s))]
          /\ f[SubSeq(s, mid(s) + 1, Len(s))] = g[SubSeq(s, mid(s) + 1, Len(s))]
    <3> HIDE DEF S, mu
    <3> QED BY <1>3, <1>5
  <2> QED BY <2>1 DEF MergeSortBody
<1> HIDE DEF S, mu, m
<1>7. Recursion(G, S, S, Y, mu)
  <2>1. \A f \in [S -> S] : f \in [S -> Y]
    OBVIOUS
  <2>2. \A s \in S : \A f \in [S -> Y] : G[s][f] = MergeSortBody(col, f, s)
    OBVIOUS
  <2> HIDE DEF Y, G
  <2>3. S \subseteq Y
    BY DEF Y
  <2>4. \A s \in S : \A f \in [S -> S] : G[s][f] \in S
    BY <2>1, <2>2, <1>4
  <2>5. \A s \in S : \A f, g \in [S -> Y] :
          (\A t \in S : mu[t] < mu[s] => f[t] = g[t]) => G[s][f] = G[s][g]
    BY <2>2, <1>5
  <2> QED BY <2>3, <2>4, <2>5, <1>2 DEF Recursion
<1>8. <<>> \in S
  BY DEF S, RowLists
<1>9. PICK f \in [S -> S] : f = [s \in S |-> G[s][f]]
  <2> HIDE DEF G, Y
  <2> QED BY <1>7, <1>8, RecursiveFunction
<1>10. f = [s \in S |-> MergeSortBody(col, f, s)]
  <2>1. f \in [S -> Y]
    OBVIOUS
  <2> HIDE DEF Y
  <2>2. \A s \in S : G[s][f] = MergeSortBody(col, f, s)
    BY <2>1
  <2> QED BY <1>9, <2>2
<1>11. m = [s \in S |-> MergeSortBody(col, m, s)]
  <2> HIDE DEF G, Y
  <2> QED BY <1>1, <1>10
<1>12. m \in [S -> Y] /\ \A s \in S : m[s] = G[s][m]
  <2>1. m \in [S -> Y]
    BY <1>11
  <2> HIDE DEF Y
  <2>2. \A s \in S : G[s][m] = MergeSortBody(col, m, s)
    BY <2>1
  <2> QED BY <1>11, <2>1, <2>2
<1>13. m \in [S -> S]
  <2> HIDE DEF G, Y
  <2> QED BY <1>7, <1>8, <1>12, RecursionTyped
<1>14. \A s \in S : m[s] = MergeSortBody(col, m, s)
  BY <1>11
<1> QED BY <1>13, <1>14 DEF m, S

Increasing == {p \in Nat \X Nat : p[1] < p[2]}

\* What a sort takes: rows A, in increasing order where the sort is to be stable.
Sortable(col, n, stable, R, s, A) ==
  /\ Column(col, n) /\ stable \in BOOLEAN /\ R = Good(col, n, stable)
  /\ A \subseteq 1 .. n /\ Arranges(s, A)
  /\ stable => InOrder(s, Increasing)

LEMMA HalvesSortable ==
  ASSUME NEW col, NEW n, NEW stable, NEW R, NEW s, NEW A, Sortable(col, n, stable, R, s, A),
         NEW k \in Nat, k <= Len(s)
  PROVE  /\ Sortable(col, n, stable, R, FrontPart(s, k), Part(s, 1, k))
         /\ Sortable(col, n, stable, R, BackPart(s, k), Part(s, k + 1, Len(s)))
         /\ stable => \A a \in Part(s, 1, k), b \in Part(s, k + 1, Len(s)) : a < b
<1>1. /\ Column(col, n) /\ stable \in BOOLEAN /\ R = Good(col, n, stable)
      /\ A \subseteq 1 .. n /\ Arranges(s, A) /\ (stable => InOrder(s, Increasing))
  BY DEF Sortable
<1>2. /\ Arranges(FrontPart(s, k), Part(s, 1, k)) /\ Arranges(BackPart(s, k), Part(s, k + 1, Len(s)))
      /\ (stable => InOrder(FrontPart(s, k), Increasing) /\ InOrder(BackPart(s, k), Increasing))
      /\ Part(s, 1, k) \subseteq A /\ Part(s, k + 1, Len(s)) \subseteq A
  BY <1>1, HalvesListed
<1>3. Part(s, 1, k) \subseteq 1 .. n /\ Part(s, k + 1, Len(s)) \subseteq 1 .. n
  BY <1>1, <1>2
<1>4. ASSUME stable, NEW a \in Part(s, 1, k), NEW b \in Part(s, k + 1, Len(s)) PROVE a < b
  <2>1. PICK i \in 1 .. k : a = s[i]
    BY DEF Part
  <2>2. PICK j \in k + 1 .. Len(s) : b = s[j]
    BY DEF Part
  <2>3. i \in 1 .. Len(s) /\ j \in 1 .. Len(s) /\ i < j
    <3>1. Len(s) \in Nat
      BY <1>1 DEF Arranges
    <3> QED BY <3>1
  <2>4. <<s[i], s[j]>> \in Increasing
    BY <1>1, <1>4, <2>3 DEF InOrder
  <2> QED BY <2>1, <2>2, <2>4 DEF Increasing
<1> QED BY <1>1, <1>2, <1>3, <1>4 DEF Sortable

\* Two lists of which the last row of the first may stand before the first of
\* the second.
LEMMA JoinInOrder ==
  ASSUME NEW col, NEW n, NEW stable, NEW R, NEW s, NEW A, NEW B,
         Mergeable(col, n, stable, R, s, A, B), s[1] # <<>>, s[2] # <<>>,
         ~ After(col, s[1][Len(s[1])], s[2][1])
  PROVE  Listed(s[1] \o s[2], A \cup B, R)
<1>1. /\ Arranges(s[1], A) /\ InOrder(s[1], R) /\ Arranges(s[2], B) /\ InOrder(s[2], R)
      /\ A \cap B = {} /\ (stable => \A a \in A, b \in B : a < b)
      /\ Column(col, n) /\ stable \in BOOLEAN /\ R = Good(col, n, stable)
      /\ A \subseteq 1 .. n /\ B \subseteq 1 .. n
  BY DEF Mergeable, Listed
<1>2. PICK f, g : f = s[1] /\ g = s[2]
  OBVIOUS
<1>3. PICK i \in Nat, j \in Nat : i = Len(f) /\ i > 0 /\ j = Len(g) /\ j > 0
  <2>1. f \in Seq(A) /\ g \in Seq(B) /\ f # <<>> /\ g # <<>>
    BY <1>1, <1>2 DEF Arranges
  <2>2. Len(f) \in Nat \ {0} /\ Len(g) \in Nat \ {0}
    BY <2>1, EmptySeq
  <2> QED BY <2>2
<1>4. /\ \A k \in 1 .. i : f[k] \in A
      /\ \A k \in 1 .. j : g[k] \in B
      /\ \A a \in A : \E k \in 1 .. i : f[k] = a
      /\ \A b \in B : \E k \in 1 .. j : g[k] = b
  BY <1>1, <1>2, <1>3 DEF Arranges
<1>5. PICK p, q : p = f[i] /\ q = g[1]
  OBVIOUS
<1>6. i \in 1 .. i /\ 1 \in 1 .. j
  BY <1>3
<1>7. p \in A /\ q \in B /\ p \in 1 .. n /\ q \in 1 .. n
  BY <1>1, <1>4, <1>5, <1>6
<1>8. <<p, q>> \in R
  <2>1. ~ After(col, p, q)
    BY <1>2, <1>3, <1>5
  <2>2. stable => p < q
    BY <1>1, <1>7
  <2> QED BY <1>1, <1>7, <2>1, <2>2, ColumnOrder
<1>9. ASSUME NEW a \in A, NEW b \in B PROVE <<a, b>> \in R
  <2>1. a = p \/ <<a, p>> \in R
    <3>1. PICK k \in 1 .. i : f[k] = a
      BY <1>4
    <3>2. k = i \/ k < i
      BY <1>3
    <3> QED BY <1>1, <1>2, <1>3, <1>5, <1>6, <3>1, <3>2 DEF InOrder
  <2>2. b = q \/ <<q, b>> \in R
    <3>1. PICK k \in 1 .. j : g[k] = b
      BY <1>4
    <3>2. k = 1 \/ 1 < k
      OBVIOUS
    <3> QED BY <1>1, <1>2, <1>3, <1>5, <1>6, <3>1, <3>2 DEF InOrder
  <2>3. a \in 1 .. n /\ b \in 1 .. n
    BY <1>1
  <2>4. <<a, q>> \in R
    BY <1>1, <1>7, <1>8, <2>1, <2>3, GoodTransitive
  <2> QED BY <1>1, <1>7, <2>2, <2>3, <2>4, GoodTransitive
<1>10. Arranges(f \o g, A \cup B)
  BY <1>1, <1>2, ConcatArranges
<1>11. InOrder(f \o g, R)
  BY <1>1, <1>2, <1>9, ConcatInOrder
<1> QED BY <1>2, <1>10, <1>11 DEF Listed

LEMMA MergeSortSorts ==
  ASSUME NEW col, NEW n, NEW stable, NEW R, NEW r, NEW A, Sortable(col, n, stable, R, r, A)
  PROVE  Listed(MergeSort(col)[r], A, R)
<1> DEFINE S == RowLists(n)
           m == MergeSort(col)
           mu == [s \in S |-> Len(s)]
           Right(s) == \A C : Sortable(col, n, stable, R, s, C) => Listed(m[s], C, R)
           T == {s \in S : ~ Right(s)}
<1>0. n \in Nat /\ n = Len(col.val) /\ Column(col, n) /\ stable \in BOOLEAN /\ R = Good(col, n, stable)
  BY DEF Sortable, Column
<1>1. m \in [S -> S] /\ \A s \in S : m[s] = MergeSortBody(col, m, s)
  BY <1>0, MergeSortRecursion
<1>2. mu \in [S -> Nat] /\ \A s \in S : mu[s] = Len(s)
  BY DEF RowLists
<1>3. ASSUME NEW s \in S, \A t \in S : mu[t] < mu[s] => Right(t),
             NEW C, Sortable(col, n, stable, R, s, C)
      PROVE  Listed(m[s], C, R)
  <2>1. m[s] = MergeSortBody(col, m, s)
    BY <1>1
  <2>2. Arranges(s, C) /\ C \subseteq 1 .. n /\ Len(s) \in Nat /\ s \in Seq(1 .. n)
    BY <1>3 DEF Sortable, RowLists
  <2>3. CASE Len(s) < 2
    <3>1. InOrder(s, R)
      BY <2>2, <2>3 DEF InOrder
    <3> QED BY <2>1, <2>2, <2>3, <3>1 DEF MergeSortBody, Listed
  <2>4. CASE Len(s) >= 2
    <3>1. PICK k \in Nat : k = Len(s) \div 2 /\ k >= 1 /\ k < Len(s)
      BY <2>2, <2>4, MiddleInside
    <3>2. k <= Len(s) /\ Len(s) - k < Len(s) /\ Len(s) - k > 0
      BY <2>2, <3>1
    <3>3. PICK u, v, U, V : u = FrontPart(s, k) /\ v = BackPart(s, k) /\ U = Part(s, 1, k) /\ V = Part(s, k + 1, Len(s))
      OBVIOUS
    <3>4. u \in Seq(1 .. n) /\ Len(u) = k /\ v \in Seq(1 .. n) /\ Len(v) = Len(s) - k
      BY <2>2, <3>2, <3>3, TwoHalves
    <3>5. Sortable(col, n, stable, R, u, U) /\ Sortable(col, n, stable, R, v, V)
          /\ (stable => \A a \in U, b \in V : a < b)
      BY <1>3, <3>2, <3>3, HalvesSortable
    <3>6. U \cap V = {} /\ U \cup V = C /\ U \subseteq C /\ V \subseteq C /\ Arranges(u, U) /\ Arranges(v, V)
      BY <2>2, <3>2, <3>3, HalvesListed
    <3>7. u \in S /\ v \in S /\ mu[u] < mu[s] /\ mu[v] < mu[s]
      <4>1. u \in S /\ v \in S
        BY <3>4 DEF RowLists
      <4> HIDE DEF S, mu
      <4> QED BY <1>2, <3>1, <3>2, <3>4, <4>1
    <3> HIDE DEF S, mu, m, Right
    <3>8. Listed(m[u], U, R) /\ Listed(m[v], V, R) /\ m[u] \in S /\ m[v] \in S
      <4>1. Right(u) /\ Right(v)
        BY <1>3, <3>7
      <4> QED BY <1>1, <3>5, <3>7, <4>1 DEF Right
    <3>9. PICK f, g : f = m[u] /\ g = m[v]
      OBVIOUS
    <3>10. Mergeable(col, n, stable, R, <<f, g>>, U, V)
      BY <1>0, <2>2, <3>5, <3>6, <3>8, <3>9 DEF Mergeable
    <3>11. Len(f) = k /\ Len(g) = Len(s) - k
      <4>1. Len(f) = Len(u) /\ Len(g) = Len(v)
        BY <3>6, <3>8, <3>9, SameCount DEF Listed
      <4> QED BY <3>4, <4>1
    <3>12. f # <<>> /\ g # <<>>
      BY <3>1, <3>2, <3>11
    <3>13. /\ m[SubSeq(s, 1, Len(s) \div 2)] = f
           /\ m[SubSeq(s, Len(s) \div 2 + 1, Len(s))] = g
      BY <3>1, <3>3, <3>9 DEF FrontPart, BackPart
    <3>14. CASE After(col, f[k], g[1])
      <4>1. m[s] = Merge(col)[<<f, g>>]
        BY <2>1, <2>2, <2>4, <3>1, <3>13, <3>14 DEF MergeSortBody
      <4>2. <<f, g>> \in RowLists(n) \X RowLists(n)
        BY <3>8, <3>9 DEF S
      <4>3. Listed(Merge(col)[<<f, g>>], U \cup V, R)
        BY <3>10, <4>2, MergeSorts
      <4> QED BY <3>6, <4>1, <4>3
    <3>15. CASE ~ After(col, f[k], g[1])
      <4>1. m[s] = f \o g
        BY <2>1, <2>2, <2>4, <3>1, <3>13, <3>15 DEF MergeSortBody
      <4>2. PICK w : w = <<f, g>>
        OBVIOUS
      <4>3. w[1] = f /\ w[2] = g
        BY <4>2
      <4>4. Mergeable(col, n, stable, R, w, U, V) /\ w[1] # <<>> /\ w[2] # <<>>
            /\ ~ After(col, w[1][Len(w[1])], w[2][1])
        BY <3>10, <3>11, <3>12, <3>15, <4>2, <4>3
      <4>5. Listed(w[1] \o w[2], U \cup V, R)
        BY <4>4, JoinInOrder
      <4> QED BY <3>6, <4>1, <4>3, <4>5
    <3> QED BY <3>14, <3>15
  <2> QED BY <2>2, <2>3, <2>4
<1>4. ASSUME T # {} PROVE FALSE
  <2>1. T \subseteq S
    OBVIOUS
  <2>2. PICK s \in T : \A t \in T : mu[s] <= mu[t]
    <3> HIDE DEF T, S, mu
    <3> QED BY <1>2, <1>4, <2>1, LeastByMeasure
  <2>3. s \in S /\ ~ Right(s)
    OBVIOUS
  <2> HIDE DEF S, mu, Right
  <2>4. \A t \in S : mu[t] < mu[s] => ~ mu[s] <= mu[t]
    BY <1>2, <2>3
  <2>5. \A t \in S : mu[t] < mu[s] => Right(t)
    BY <2>2, <2>4
  <2>6. Right(s)
    <3>1. ASSUME NEW C, Sortable(col, n, stable, R, s, C) PROVE Listed(m[s], C, R)
      BY <1>3, <2>3, <2>5, <3>1
    <3> QED BY <3>1 DEF Right
  <2> QED BY <2>3, <2>6
<1>5. r \in S
  BY <1>0, ListHasRows DEF Sortable
<1>6. Right(r)
  <2> HIDE DEF Right, S
  <2> QED BY <1>4, <1>5
<1> QED BY <1>6

----------------------------------------------------------------------------
(* The partition of the quicksort.                                         *)

LEMMA MinIs ==
  ASSUME NEW T, T \subseteq Nat, T # {}
  PROVE  Min(T) \in T /\ \A x \in T : Min(T) <= x
<1>1. \E x \in T : \A y \in T : x <= y
  BY LeastNatural
<1> QED BY <1>1 DEF Min

LEMMA MaxIs ==
  ASSUME NEW n \in Nat, NEW T, T \subseteq 0 .. n, T # {}
  PROVE  Max(T) \in T /\ \A x \in T : Max(T) >= x
<1> DEFINE D == {d \in Nat : \E x \in T : d = n - x}
<1>1. D \subseteq Nat /\ D # {}
  <2>1. PICK x \in T : TRUE
    OBVIOUS
  <2>2. n - x \in Nat
    OBVIOUS
  <2>3. n - x \in D
    BY <2>2
  <2> QED BY <2>3
<1>2. \A x \in T : n - x \in D
  OBVIOUS
<1> HIDE DEF D
<1>3. PICK d \in D : \A e \in D : d <= e
  BY <1>1, LeastNatural
<1>4. PICK x \in T : d = n - x
  BY <1>3 DEF D
<1>5. \A y \in T : x >= y
  <2> TAKE y \in T
  <2>1. d <= n - y
    BY <1>2, <1>3
  <2> QED BY <1>4, <2>1
<1> QED BY <1>5 DEF Max

Traded(t, s, a, b) ==
  /\ Len(t) = Len(s)
  /\ \A r \in 1 .. Len(s) : t[r] = IF r = a THEN s[b] ELSE IF r = b THEN s[a] ELSE s[r]

LEMMA ExchangeIs ==
  ASSUME NEW X, NEW s \in Seq(X), NEW a \in 1 .. Len(s), NEW b \in 1 .. Len(s)
  PROVE  Exchange(s, a, b) \in Seq(X) /\ Traded(Exchange(s, a, b), s, a, b)
<1>1. PICK n \in Nat : n = Len(s)
  OBVIOUS
<1>2. DOMAIN s = 1 .. n /\ a \in 1 .. n /\ b \in 1 .. n /\ \A i \in 1 .. n : s[i] \in X
  BY <1>1
<1>3. Exchange(s, a, b) = [r \in 1 .. n |-> IF r = a THEN s[b] ELSE IF r = b THEN s[a] ELSE s[r]]
  BY <1>2 DEF Exchange
<1>4. Exchange(s, a, b) \in [1 .. n -> X]
  BY <1>2, <1>3
<1>5. Exchange(s, a, b) \in Seq(X) /\ Len(Exchange(s, a, b)) = n
  BY <1>4
<1> QED BY <1>1, <1>3, <1>5 DEF Traded

LEMMA ExchangeArranges ==
  ASSUME NEW A, NEW s, Arranges(s, A), NEW a \in 1 .. Len(s), NEW b \in 1 .. Len(s)
  PROVE  Arranges(Exchange(s, a, b), A)
<1>1. PICK n \in Nat : n = Len(s)
  BY DEF Arranges
<1>2. PICK t : t = Exchange(s, a, b)
  OBVIOUS
<1>3. /\ t \in Seq(A) /\ Len(t) = n /\ a \in 1 .. n /\ b \in 1 .. n
      /\ \A r \in 1 .. n : t[r] = IF r = a THEN s[b] ELSE IF r = b THEN s[a] ELSE s[r]
  <2>1. s \in Seq(A)
    BY DEF Arranges
  <2>2. t \in Seq(A) /\ Traded(t, s, a, b)
    BY <2>1, <1>2, ExchangeIs
  <2> QED BY <1>1, <2>2 DEF Traded
<1>4. /\ \A i, j \in 1 .. n : s[i] = s[j] => i = j
      /\ \A x \in A : \E i \in 1 .. n : s[i] = x
  BY <1>1 DEF Arranges
<1>5. ASSUME NEW x \in A PROVE \E i \in 1 .. n : t[i] = x
  <2>1. PICK i \in 1 .. n : s[i] = x
    BY <1>4
  <2>2. CASE i = a
    BY <1>3, <2>1, <2>2
  <2>3. CASE i = b
    BY <1>3, <2>1, <2>3
  <2>4. CASE i # a /\ i # b
    BY <1>3, <2>1, <2>4
  <2> QED BY <2>2, <2>3, <2>4
<1>6. ASSUME NEW i \in 1 .. n, NEW j \in 1 .. n, t[i] = t[j] PROVE i = j
  <2> DEFINE at(r) == IF r = a THEN b ELSE IF r = b THEN a ELSE r
  <2>1. \A r \in 1 .. n : at(r) \in 1 .. n /\ t[r] = s[at(r)]
    BY ONLY <1>3
  <2>2. at(i) = at(j) => i = j
    OBVIOUS
  <2> HIDE DEF at
  <2>3. at(i) \in 1 .. n /\ at(j) \in 1 .. n /\ s[at(i)] = s[at(j)]
    BY ONLY <1>6, <2>1
  <2>4. at(i) = at(j)
    BY ONLY <1>4, <2>3
  <2> QED BY ONLY <2>2, <2>4
<1> QED BY <1>2, <1>3, <1>5, <1>6 DEF Arranges

\* Where the two scans stop.
ScanUp(col, rows, low) ==
  Min({k \in low + 1 .. Len(rows) : After(col, rows[k], rows[1])} \cup {Len(rows) + 1})
ScanDown(col, rows, high) == Max({k \in 1 .. high - 1 : ~ After(col, rows[k], rows[1])})

PartitionBody(col, f, s) ==
  LET rows == s[1]
      up   == ScanUp(col, rows, s[2])
      down == ScanDown(col, rows, s[3])
  IN  IF up >= down THEN <<Exchange(rows, 1, down), down>>
      ELSE f[<<Exchange(rows, up, down), up, down>>]

LEMMA ScansStop ==
  ASSUME NEW col, NEW n, Column(col, n), NEW rows \in Seq(1 .. n), NEW low \in Nat, NEW high \in Nat,
         1 <= low, low < high, high <= Len(rows) + 1
  PROVE  /\ ScanUp(col, rows, low) \in low + 1 .. Len(rows) + 1
         /\ \A k \in low + 1 .. ScanUp(col, rows, low) - 1 : ~ After(col, rows[k], rows[1])
         /\ ScanUp(col, rows, low) <= Len(rows) =>
              After(col, rows[ScanUp(col, rows, low)], rows[1])
         /\ ScanDown(col, rows, high) \in 1 .. high - 1
         /\ \A k \in ScanDown(col, rows, high) + 1 .. high - 1 : After(col, rows[k], rows[1])
         /\ ~ After(col, rows[ScanDown(col, rows, high)], rows[1])
<1>1. PICK l \in Nat : l = Len(rows)
  OBVIOUS
<1> DEFINE U == {k \in low + 1 .. l : After(col, rows[k], rows[1])} \cup {l + 1}
           D == {k \in 1 .. high - 1 : ~ After(col, rows[k], rows[1])}
<1>2. U \subseteq low + 1 .. l + 1 /\ U \subseteq Nat /\ U # {}
  BY <1>1
<1>3. Min(U) \in U /\ \A k \in U : Min(U) <= k
  <2> HIDE DEF U
  <2> QED BY <1>2, MinIs
<1>4. 1 \in D
  <2>1. 1 \in 1 .. Len(rows) /\ 1 \in 1 .. high - 1
    BY <1>1
  <2>3. rows[1] \in 1 .. n
    BY <2>1, ElementOfSeq
  <2>2. ~ After(col, rows[1], rows[1])
    BY <2>3, ColumnOrder
  <2> QED BY <2>1, <2>2
<1>5. D \subseteq 0 .. l
  BY <1>1
<1>6. Max(D) \in D /\ \A k \in D : Max(D) >= k
  <2> HIDE DEF D
  <2> QED BY <1>4, <1>5, MaxIs
<1>7. ScanUp(col, rows, low) = Min(U) /\ ScanDown(col, rows, high) = Max(D)
  BY <1>1 DEF ScanUp, ScanDown
<1>8. PICK u, d : u = Min(U) /\ d = Max(D)
  OBVIOUS
<1>9. /\ u \in low + 1 .. l + 1 /\ (u <= l => After(col, rows[u], rows[1]))
      /\ \A k \in low + 1 .. l : After(col, rows[k], rows[1]) => u <= k
  <2>1. u \in U /\ \A k \in U : u <= k
    BY <1>3, <1>8
  <2> QED BY <2>1, <1>2
<1>10. /\ d \in 1 .. high - 1 /\ ~ After(col, rows[d], rows[1])
       /\ \A k \in 1 .. high - 1 : ~ After(col, rows[k], rows[1]) => d >= k
  <2>1. d \in D /\ \A k \in D : d >= k
    BY <1>6, <1>8
  <2> QED BY <2>1
<1> HIDE DEF U, D
<1>11. \A k \in low + 1 .. u - 1 : ~ After(col, rows[k], rows[1])
  <2> TAKE k \in low + 1 .. u - 1
  <2>1. k \in low + 1 .. l /\ ~ u <= k
    BY <1>9
  <2> QED BY <2>1, <1>9
<1>12. \A k \in d + 1 .. high - 1 : After(col, rows[k], rows[1])
  <2> TAKE k \in d + 1 .. high - 1
  <2>1. k \in 1 .. high - 1 /\ ~ d >= k
    BY <1>10
  <2> QED BY <2>1, <1>10
<1> QED BY <1>1, <1>7, <1>8, <1>9, <1>10, <1>11, <1>12

LEMMA BetweenParts ==
  ASSUME NEW n \in Nat, NEW s \in Between(n)
  PROVE  /\ s[1] \in Seq(1 .. n) /\ s[2] \in Nat /\ s[3] \in Nat /\ Len(s[1]) \in Nat
         /\ 1 <= s[2] /\ s[2] < s[3] /\ s[3] <= Len(s[1]) + 1
<1>1. s[1] \in Seq(1 .. n) /\ s[2] \in Nat /\ s[3] \in Nat /\ s[2] \in 1 .. s[3] - 1 /\ s[3] <= Len(s[1]) + 1
  BY DEF Between, RowLists
<1>2. Len(s[1]) \in Nat
  BY <1>1
<1>3. 1 <= s[2] /\ s[2] < s[3]
  BY <1>1
<1> QED BY <1>1, <1>2, <1>3

LEMMA BetweenIs ==
  ASSUME NEW n \in Nat, NEW rows \in Seq(1 .. n), NEW low \in Nat, NEW high \in Nat,
         1 <= low, low < high, high <= Len(rows) + 1
  PROVE  <<rows, low, high>> \in Between(n)
<1>1. low \in 1 .. high - 1
  OBVIOUS
<1>2. <<rows, low, high>> \in RowLists(n) \X Nat \X Nat
  BY DEF RowLists
<1> QED BY <1>1, <1>2 DEF Between

LEMMA PartitionRecursion ==
  ASSUME NEW col, NEW n, Column(col, n)
  PROVE  /\ PartitionRows(col) \in [Between(n) -> RowLists(n) \X Nat]
         /\ \A s \in Between(n) : PartitionRows(col)[s] = PartitionBody(col, PartitionRows(col), s)
<1> DEFINE S == Between(n)
           X == RowLists(n) \X Nat
           m == PartitionRows(col)
           Y == X \cup {m[s] : s \in S}
           mu == [s \in S |-> s[3] - s[2]]
           G == [s \in S |-> [f \in [S -> Y] |-> PartitionBody(col, f, s)]]
           up(s) == ScanUp(col, s[1], s[2])
           down(s) == ScanDown(col, s[1], s[3])
           next(s) == <<Exchange(s[1], up(s), down(s)), up(s), down(s)>>
<1>0. n \in Nat /\ n = Len(col.val)
  BY DEF Column
<1>1. m = CHOOSE f : f = [s \in S |-> PartitionBody(col, f, s)]
  BY <1>0 DEF PartitionRows, PartitionBody, ScanUp, ScanDown
<1>2. mu \in [S -> Nat] /\ \A s \in S : mu[s] = s[3] - s[2]
  <2>1. \A s \in S : s[3] - s[2] \in Nat
    <3> TAKE s \in S
    <3>1. s[2] \in Nat /\ s[3] \in Nat /\ s[2] < s[3]
      BY <1>0, BetweenParts
    <3> QED BY <3>1
  <2> HIDE DEF S
  <2> QED BY <2>1
<1>3. ASSUME NEW s \in S
      PROVE  /\ down(s) \in 1 .. Len(s[1]) /\ 1 \in 1 .. Len(s[1]) /\ s[1] \in Seq(1 .. n)
             /\ ~ up(s) >= down(s) => next(s) \in S /\ mu[next(s)] < mu[s]
  <2>1. PICK rows, low, high : rows = s[1] /\ low = s[2] /\ high = s[3]
    OBVIOUS
  <2>2. /\ rows \in Seq(1 .. n) /\ low \in Nat /\ high \in Nat /\ Len(rows) \in Nat
        /\ 1 <= low /\ low < high /\ high <= Len(rows) + 1
    BY <1>0, <2>1, BetweenParts
  <2>3. PICK u, d, l : u = ScanUp(col, rows, low) /\ d = ScanDown(col, rows, high) /\ l = Len(rows)
    OBVIOUS
  <2>4. u \in low + 1 .. l + 1 /\ d \in 1 .. high - 1 /\ l \in Nat
    BY <2>2, <2>3, ScansStop
  <2>5. d \in 1 .. l /\ 1 \in 1 .. l
    BY <2>2, <2>3, <2>4
  <2>6. ASSUME ~ u >= d
        PROVE  <<Exchange(rows, u, d), u, d>> \in S /\ d - u < high - low
    <3>1. u \in 1 .. l /\ u \in Nat /\ d \in Nat /\ 1 <= u /\ u < d /\ d <= l + 1 /\ d - u < high - low
      BY <2>2, <2>3, <2>4, <2>5, <2>6
    <3>2. PICK t : t = Exchange(rows, u, d)
      OBVIOUS
    <3>3. t \in Seq(1 .. n) /\ Len(t) = l
      BY <2>2, <2>3, <2>5, <3>1, <3>2, ExchangeIs DEF Traded
    <3>4. <<t, u, d>> \in Between(n)
      BY <1>0, <3>1, <3>3, BetweenIs
    <3> QED BY <3>1, <3>2, <3>4
  <2>7. up(s) = u /\ down(s) = d /\ next(s) = <<Exchange(rows, u, d), u, d>>
    BY <2>1, <2>3
  <2> HIDE DEF S, mu, next, up, down
  <2>8. ASSUME ~ u >= d PROVE next(s) \in S /\ mu[next(s)] < mu[s]
    <3>1. next(s) \in S /\ d - u < high - low
      BY <2>6, <2>7, <2>8
    <3>2. mu[next(s)] = d - u /\ mu[s] = high - low
      BY <1>2, <2>1, <2>7, <3>1
    <3> QED BY <3>1, <3>2
  <2> QED BY <2>1, <2>2, <2>3, <2>5, <2>7, <2>8
<1>4. ASSUME NEW s \in S, NEW f \in [S -> X] PROVE PartitionBody(col, f, s) \in X
  <2>1. CASE up(s) >= down(s)
    <3>1. Exchange(s[1], 1, down(s)) \in Seq(1 .. n)
      BY <1>3, ExchangeIs
    <3>2. PartitionBody(col, f, s) = <<Exchange(s[1], 1, down(s)), down(s)>>
      BY <2>1 DEF PartitionBody
    <3>3. down(s) \in Nat
      <4> HIDE DEF down, S
      <4>1. down(s) \in 1 .. Len(s[1])
        BY <1>3
      <4> QED BY <4>1
    <3> QED BY <3>1, <3>2, <3>3 DEF RowLists
  <2>2. CASE ~ up(s) >= down(s)
    <3>1. PartitionBody(col, f, s) = f[next(s)]
      BY <2>2 DEF PartitionBody
    <3>2. next(s) \in S
      BY <2>2, <1>3
    <3> HIDE DEF S, X, next
    <3> QED BY <3>1, <3>2
  <2> QED BY <2>1, <2>2
<1>5. ASSUME NEW s \in S, NEW f, NEW g, \A t \in S : mu[t] < mu[s] => f[t] = g[t]
      PROVE  PartitionBody(col, f, s) = PartitionBody(col, g, s)
  <2>1. ~ up(s) >= down(s) => f[next(s)] = g[next(s)]
    <3> HIDE DEF S, mu, next, up, down
    <3> QED BY <1>3, <1>5
  <2> QED BY <2>1 DEF PartitionBody
<1> HIDE DEF S, X, mu, m, up, down, next
<1>7. Recursion(G, S, X, Y, mu)
  <2>1. \A f \in [S -> X] : f \in [S -> Y]
    OBVIOUS
  <2>2. \A s \in S : \A f \in [S -> Y] : G[s][f] = PartitionBody(col, f, s)
    OBVIOUS
  <2> HIDE DEF Y, G
  <2>3. X \subseteq Y
    BY DEF Y
  <2>4. \A s \in S : \A f \in [S -> X] : G[s][f] \in X
    BY <2>1, <2>2, <1>4
  <2>5. \A s \in S : \A f, g \in [S -> Y] :
          (\A t \in S : mu[t] < mu[s] => f[t] = g[t]) => G[s][f] = G[s][g]
    BY <2>2, <1>5
  <2> QED BY <2>3, <2>4, <2>5, <1>2 DEF Recursion
<1>8. <<<<>>, 0>> \in X
  <2>1. <<>> \in RowLists(n)
    BY DEF RowLists
  <2> QED BY <2>1 DEF X
<1>9. PICK f \in [S -> X] : f = [s \in S |-> G[s][f]]
  <2> HIDE DEF G, Y
  <2> QED BY <1>7, <1>8, RecursiveFunction
<1>10. f = [s \in S |-> PartitionBody(col, f, s)]
  <2>1. f \in [S -> Y]
    OBVIOUS
  <2> HIDE DEF Y
  <2>2. \A s \in S : G[s][f] = PartitionBody(col, f, s)
    BY <2>1
  <2> QED BY <1>9, <2>2
<1>11. m = [s \in S |-> PartitionBody(col, m, s)]
  <2> HIDE DEF G, Y
  <2> QED BY <1>1, <1>10
<1>12. m \in [S -> Y] /\ \A s \in S : m[s] = G[s][m]
  <2>1. m \in [S -> Y]
    BY <1>11
  <2> HIDE DEF Y
  <2>2. \A s \in S : G[s][m] = PartitionBody(col, m, s)
    BY <2>1
  <2> QED BY <1>11, <2>1, <2>2
<1>13. m \in [S -> X]
  <2> HIDE DEF G, Y
  <2> QED BY <1>7, <1>8, <1>12, RecursionTyped
<1>14. \A s \in S : m[s] = PartitionBody(col, m, s)
  BY <1>11
<1> QED BY <1>13, <1>14 DEF m, S, X

\* What the partition takes: the rows up to low do not come after the pivot, those
\* from high on do.
Partitionable(col, n, A, rows, low, high) ==
  /\ Column(col, n) /\ A \subseteq 1 .. n /\ Arranges(rows, A)
  /\ low \in Nat /\ high \in Nat /\ 1 <= low /\ low < high /\ high <= Len(rows) + 1
  /\ \A k \in 2 .. low : ~ After(col, rows[k], rows[1])
  /\ \A k \in high .. Len(rows) : After(col, rows[k], rows[1])

Partitioned(col, A, p) ==
  /\ Arranges(p[1], A) /\ p[2] \in 1 .. Len(p[1])
  /\ \A k \in 1 .. p[2] - 1 : ~ After(col, p[1][k], p[1][p[2]])
  /\ \A k \in p[2] + 1 .. Len(p[1]) : After(col, p[1][k], p[1][p[2]])

LEMMA PartitionStep ==
  ASSUME NEW col, NEW n, NEW A, NEW rows, NEW low, NEW high,
         Partitionable(col, n, A, rows, low, high),
         NEW up, NEW down, up = ScanUp(col, rows, low), down = ScanDown(col, rows, high)
  PROVE  /\ up >= down => Partitioned(col, A, <<Exchange(rows, 1, down), down>>)
         /\ ~ up >= down => /\ Partitionable(col, n, A, Exchange(rows, up, down), up, down)
                            /\ down - up < high - low
<1>1. /\ Column(col, n) /\ A \subseteq 1 .. n /\ Arranges(rows, A) /\ rows \in Seq(A)
      /\ low \in Nat /\ high \in Nat /\ 1 <= low /\ low < high /\ high <= Len(rows) + 1
      /\ \A k \in 2 .. low : ~ After(col, rows[k], rows[1])
      /\ \A k \in high .. Len(rows) : After(col, rows[k], rows[1])
  BY DEF Partitionable, Arranges
<1>2. rows \in Seq(1 .. n)
  BY <1>1, SeqMonotonic
<1>3. PICK l \in Nat : l = Len(rows)
  BY <1>2
<1>4. /\ up \in low + 1 .. l + 1
      /\ \A k \in low + 1 .. up - 1 : ~ After(col, rows[k], rows[1])
      /\ up <= l => After(col, rows[up], rows[1])
      /\ down \in 1 .. high - 1
      /\ \A k \in down + 1 .. high - 1 : After(col, rows[k], rows[1])
      /\ ~ After(col, rows[down], rows[1])
  BY <1>1, <1>2, <1>3, ScansStop
<1>5. \A k \in 2 .. up - 1 : ~ After(col, rows[k], rows[1])
  <2> TAKE k \in 2 .. up - 1
  <2>1. k \in 2 .. low \/ k \in low + 1 .. up - 1
    BY <1>1, <1>4
  <2> QED BY <2>1, <1>1, <1>4
<1>6. \A k \in down + 1 .. l : After(col, rows[k], rows[1])
  <2> TAKE k \in down + 1 .. l
  <2>1. k \in down + 1 .. high - 1 \/ k \in high .. Len(rows)
    BY <1>1, <1>3, <1>4
  <2> QED BY <2>1, <1>1, <1>4
<1>7. down \in 1 .. l /\ 1 \in 1 .. l /\ up \in 2 .. l + 1
  BY <1>1, <1>3, <1>4
<1>8. ASSUME up >= down PROVE Partitioned(col, A, <<Exchange(rows, 1, down), down>>)
  <2>1. PICK t : t = Exchange(rows, 1, down)
    OBVIOUS
  <2>2. Arranges(t, A)
    BY <1>1, <1>3, <1>7, <2>1, ExchangeArranges
  <2>3. Len(t) = l /\ \A r \in 1 .. l : t[r] = IF r = 1 THEN rows[down] ELSE IF r = down THEN rows[1] ELSE rows[r]
    <3>1. Traded(t, rows, 1, down)
      BY <1>2, <1>3, <1>7, <2>1, ExchangeIs
    <3> QED BY <3>1, <1>3 DEF Traded
  <2>4. t[down] = rows[1]
    BY <1>7, <2>3
  <2>5. ASSUME NEW k \in 1 .. down - 1 PROVE ~ After(col, t[k], rows[1])
    <3>1. k \in 1 .. l /\ k # down /\ (k # 1 => k \in 2 .. up - 1)
      BY <1>7, <1>8
    <3> QED BY <3>1, <2>3, <1>4, <1>5
  <2>6. ASSUME NEW k \in down + 1 .. l PROVE After(col, t[k], rows[1])
    <3>1. k \in 1 .. l /\ k # down /\ k # 1
      BY <1>7
    <3> QED BY <3>1, <2>3, <1>6
  <2>7. PICK p : p = <<t, down>>
    OBVIOUS
  <2>8. p[1] = t /\ p[2] = down
    BY <2>7
  <2>9. Partitioned(col, A, p)
    BY <1>7, <2>2, <2>3, <2>4, <2>5, <2>6, <2>8 DEF Partitioned
  <2> QED BY <2>1, <2>7, <2>9
<1>9. ASSUME ~ up >= down
      PROVE  /\ Partitionable(col, n, A, Exchange(rows, up, down), up, down)
             /\ down - up < high - low
  <2>1. PICK t : t = Exchange(rows, up, down)
    OBVIOUS
  <2>2. up \in 1 .. l /\ up < down /\ down <= l + 1 /\ up \in Nat /\ down \in Nat /\ 1 <= up
    BY <1>7, <1>9
  <2>3. Arranges(t, A)
    BY <1>1, <1>3, <1>7, <2>1, <2>2, ExchangeArranges
  <2>4. Len(t) = l /\ \A r \in 1 .. l : t[r] = IF r = up THEN rows[down] ELSE IF r = down THEN rows[up] ELSE rows[r]
    <3>1. Traded(t, rows, up, down)
      <4>1. down \in 1 .. Len(rows) /\ up \in 1 .. Len(rows)
        BY <1>3, <1>7, <2>2
      <4> QED BY <1>2, <4>1, <2>1, ExchangeIs
    <3> QED BY <3>1, <1>3 DEF Traded
  <2>5. t[1] = rows[1]
    BY <1>7, <2>2, <2>4
  <2>6. ASSUME NEW k \in 2 .. up PROVE ~ After(col, t[k], t[1])
    <3>1. k \in 1 .. l /\ k # down /\ (k # up => k \in 2 .. up - 1)
      BY <1>7, <2>2
    <3> QED BY <3>1, <2>4, <2>5, <1>4, <1>5
  <2>7. ASSUME NEW k \in down .. l PROVE After(col, t[k], t[1])
    <3>1. k \in 1 .. l /\ k # up /\ (k # down => k \in down + 1 .. l) /\ up <= l
      BY <1>7, <2>2
    <3> QED BY <3>1, <2>4, <2>5, <1>4, <1>6
  <2>8. down - up < high - low
    BY <1>1, <1>4, <2>2
  <2> QED BY <1>1, <2>1, <2>2, <2>3, <2>4, <2>6, <2>7, <2>8 DEF Partitionable
<1> QED BY <1>8, <1>9

\* A property of the partition, by the distance of the two places.
LEMMA PartitionInside ==
  ASSUME NEW col, NEW n, Column(col, n), NEW r \in Between(n)
  PROVE  /\ PartitionRows(col)[r][1] \in RowLists(n)
         /\ Len(PartitionRows(col)[r][1]) = Len(r[1])
         /\ PartitionRows(col)[r][2] \in 1 .. Len(r[1])
<1> DEFINE S == Between(n)
           m == PartitionRows(col)
           mu == [s \in S |-> s[3] - s[2]]
           Right(s) == Len(m[s][1]) = Len(s[1]) /\ m[s][2] \in 1 .. Len(s[1])
           T == {s \in S : ~ Right(s)}
<1>0. n \in Nat
  BY DEF Column
<1>1. m \in [S -> RowLists(n) \X Nat] /\ \A s \in S : m[s] = PartitionBody(col, m, s)
  BY PartitionRecursion
<1>2. mu \in [S -> Nat] /\ \A s \in S : mu[s] = s[3] - s[2]
  <2>1. \A s \in S : s[3] - s[2] \in Nat
    <3> TAKE s \in S
    <3>1. s[2] \in Nat /\ s[3] \in Nat /\ s[2] < s[3]
      BY <1>0, BetweenParts
    <3> QED BY <3>1
  <2> HIDE DEF S
  <2> QED BY <2>1
<1>3. ASSUME NEW s \in S, \A t \in S : mu[t] < mu[s] => Right(t)
      PROVE  Right(s)
  <2>1. PICK rows, low, high : rows = s[1] /\ low = s[2] /\ high = s[3]
    OBVIOUS
  <2>2. /\ rows \in Seq(1 .. n) /\ low \in Nat /\ high \in Nat /\ Len(rows) \in Nat
        /\ 1 <= low /\ low < high /\ high <= Len(rows) + 1
    BY <1>0, <2>1, BetweenParts
  <2>3. PICK u, d, l : u = ScanUp(col, rows, low) /\ d = ScanDown(col, rows, high) /\ l = Len(rows)
    OBVIOUS
  <2>4. u \in low + 1 .. l + 1 /\ d \in 1 .. high - 1 /\ l \in Nat
    BY <2>2, <2>3, ScansStop
  <2>5. d \in 1 .. l /\ 1 \in 1 .. l
    BY <2>2, <2>3, <2>4
  <2>6. m[s] = IF u >= d THEN <<Exchange(rows, 1, d), d>> ELSE m[<<Exchange(rows, u, d), u, d>>]
    BY <1>1, <2>1, <2>3 DEF PartitionBody
  <2> HIDE DEF S, mu, m
  <2>7. CASE u >= d
    <3>1. Len(Exchange(rows, 1, d)) = l
      BY <2>2, <2>3, <2>5, ExchangeIs DEF Traded
    <3> QED BY <2>1, <2>3, <2>5, <2>6, <2>7, <3>1
  <2>8. CASE ~ u >= d
    <3>1. u \in 1 .. l /\ u \in Nat /\ d \in Nat /\ 1 <= u /\ u < d /\ d <= l + 1 /\ d - u < high - low
      BY <2>2, <2>3, <2>4, <2>5, <2>8
    <3>2. PICK t : t = Exchange(rows, u, d)
      OBVIOUS
    <3>3. t \in Seq(1 .. n) /\ Len(t) = l
      BY <2>2, <2>3, <2>5, <3>1, <3>2, ExchangeIs DEF Traded
    <3>4. PICK v : v = <<t, u, d>>
      OBVIOUS
    <3>5. v \in S
      BY <1>0, <3>1, <3>3, <3>4, BetweenIs DEF S
    <3>6. v[1] = t /\ v[2] = u /\ v[3] = d
      BY <3>4
    <3>7. mu[v] < mu[s]
      BY <1>2, <2>1, <3>1, <3>5, <3>6
    <3>8. Right(v)
      BY <1>3, <3>5, <3>7
    <3> QED BY <2>1, <2>3, <2>6, <2>8, <3>2, <3>3, <3>4, <3>6, <3>8
  <2> QED BY <2>7, <2>8
<1>4. ASSUME T # {} PROVE FALSE
  <2>1. T \subseteq S
    OBVIOUS
  <2>2. PICK s \in T : \A t \in T : mu[s] <= mu[t]
    <3> HIDE DEF T, S, mu
    <3> QED BY <1>2, <1>4, <2>1, LeastByMeasure
  <2>3. s \in S /\ ~ Right(s)
    OBVIOUS
  <2> HIDE DEF S, mu, Right
  <2>4. \A t \in S : mu[t] < mu[s] => ~ mu[s] <= mu[t]
    BY <1>2, <2>3
  <2>5. \A t \in S : mu[t] < mu[s] => Right(t)
    BY <2>2, <2>4
  <2> QED BY <1>3, <2>3, <2>5
<1>5. Right(r)
  <2> HIDE DEF Right, S
  <2> QED BY <1>4 DEF S
<1>6. m[r] \in RowLists(n) \X Nat
  BY <1>1
<1> QED BY <1>5, <1>6

LEMMA PartitionRight ==
  ASSUME NEW col, NEW n, NEW A, NEW p, NEW i, NEW j, Partitionable(col, n, A, p, i, j)
  PROVE  Partitioned(col, A, PartitionRows(col)[<<p, i, j>>])
<1> DEFINE S == Between(n)
           m == PartitionRows(col)
           mu == [s \in S |-> s[3] - s[2]]
           Right(s) == Partitionable(col, n, A, s[1], s[2], s[3]) => Partitioned(col, A, m[s])
           T == {s \in S : ~ Right(s)}
<1>0. n \in Nat /\ Column(col, n)
  BY DEF Column, Partitionable
<1>1. \A s \in S : m[s] = PartitionBody(col, m, s)
  BY <1>0, PartitionRecursion
<1>2. mu \in [S -> Nat] /\ \A s \in S : mu[s] = s[3] - s[2]
  <2>1. \A s \in S : s[3] - s[2] \in Nat
    <3> TAKE s \in S
    <3>1. s[2] \in Nat /\ s[3] \in Nat /\ s[2] < s[3]
      BY <1>0, BetweenParts
    <3> QED BY <3>1
  <2> HIDE DEF S
  <2> QED BY <2>1
<1>3. ASSUME NEW s \in S, \A t \in S : mu[t] < mu[s] => Right(t),
             Partitionable(col, n, A, s[1], s[2], s[3])
      PROVE  Partitioned(col, A, m[s])
  <2>1. PICK rows, low, high : rows = s[1] /\ low = s[2] /\ high = s[3]
    OBVIOUS
  <2>2. PICK u, d : u = ScanUp(col, rows, low) /\ d = ScanDown(col, rows, high)
    OBVIOUS
  <2>3. /\ u >= d => Partitioned(col, A, <<Exchange(rows, 1, d), d>>)
        /\ ~ u >= d => /\ Partitionable(col, n, A, Exchange(rows, u, d), u, d)
                       /\ d - u < high - low
    <3>1. Partitionable(col, n, A, rows, low, high)
      BY <1>3, <2>1
    <3> QED BY <2>2, <3>1, PartitionStep
  <2>4. m[s] = IF u >= d THEN <<Exchange(rows, 1, d), d>> ELSE m[<<Exchange(rows, u, d), u, d>>]
    BY <1>1, <2>1, <2>2 DEF PartitionBody
  <2> HIDE DEF S, mu, m
  <2>5. CASE u >= d
    BY <2>3, <2>4, <2>5
  <2>6. CASE ~ u >= d
    <3>1. PICK t : t = Exchange(rows, u, d)
      OBVIOUS
    <3>2. PICK v : v = <<t, u, d>>
      OBVIOUS
    <3>3. v[1] = t /\ v[2] = u /\ v[3] = d
      BY <3>2
    <3>4. Partitionable(col, n, A, t, u, d) /\ d - u < high - low
      BY <2>3, <2>6, <3>1
    <3>5. t \in Seq(1 .. n) /\ u \in Nat /\ d \in Nat /\ 1 <= u /\ u < d /\ d <= Len(t) + 1
      <4>1. t \in Seq(A) /\ A \subseteq 1 .. n
        BY <3>4 DEF Partitionable, Arranges
      <4>2. t \in Seq(1 .. n)
        BY <4>1, SeqMonotonic
      <4> QED BY <3>4, <4>2 DEF Partitionable
    <3>6. v \in S
      BY <1>0, <3>2, <3>5, BetweenIs DEF S
    <3>7. mu[v] < mu[s]
      BY <1>2, <2>1, <3>3, <3>4, <3>6
    <3>8. Partitioned(col, A, m[v])
      BY <1>3, <3>3, <3>4, <3>6, <3>7
    <3> QED BY <2>4, <2>6, <3>1, <3>2, <3>8
  <2> QED BY <2>5, <2>6
<1>4. ASSUME T # {} PROVE FALSE
  <2>1. T \subseteq S
    OBVIOUS
  <2>2. PICK s \in T : \A t \in T : mu[s] <= mu[t]
    <3> HIDE DEF T, S, mu
    <3> QED BY <1>2, <1>4, <2>1, LeastByMeasure
  <2>3. s \in S /\ ~ Right(s)
    OBVIOUS
  <2> HIDE DEF S, mu, Right
  <2>4. \A t \in S : mu[t] < mu[s] => ~ mu[s] <= mu[t]
    BY <1>2, <2>3
  <2>5. \A t \in S : mu[t] < mu[s] => Right(t)
    BY <2>2, <2>4
  <2>6. Right(s)
    BY <1>3, <2>3, <2>5 DEF Right
  <2> QED BY <2>3, <2>6
<1>5. PICK r : r = <<p, i, j>>
  OBVIOUS
<1>6. r[1] = p /\ r[2] = i /\ r[3] = j
  BY <1>5
<1>7. r \in S
  <2>1. p \in Seq(A) /\ A \subseteq 1 .. n
    BY DEF Partitionable, Arranges
  <2>2. p \in Seq(1 .. n)
    BY <2>1, SeqMonotonic
  <2>3. i \in Nat /\ j \in Nat /\ 1 <= i /\ i < j /\ j <= Len(p) + 1
    BY DEF Partitionable
  <2> QED BY <1>0, <1>5, <2>2, <2>3, BetweenIs
<1>8. Right(r)
  <2> HIDE DEF Right, S
  <2> QED BY <1>4, <1>7
<1> QED BY <1>5, <1>6, <1>8

----------------------------------------------------------------------------
(* The quicksort.                                                          *)

AllEqual(col, rows) == \A r \in DOMAIN rows : ~ Differ(col, rows[r], rows[1])
Pivoted(col, rows) == PartitionRows(col)[<<rows, 1, Len(rows) + 1>>]
QuickSortBody(col, f, rows) ==
  LET p == Pivoted(col, rows)
  IN  IF AllEqual(col, rows) THEN rows
      ELSE f[SubSeq(p[1], 1, p[2] - 1)] \o <<p[1][p[2]]>> \o f[SubSeq(p[1], p[2] + 1, Len(rows))]

\* The parts around the pivot are shorter lists of rows.
Shorter(n, s, w, d) ==
  /\ w \in RowLists(n) /\ Len(w) = Len(s) /\ d \in 1 .. Len(s) /\ Len(s) \in Nat
  /\ FrontPart(w, d - 1) \in RowLists(n) /\ Len(FrontPart(w, d - 1)) < Len(s)
  /\ BackPart(w, d) \in RowLists(n) /\ Len(BackPart(w, d)) < Len(s)
  /\ <<w[d]>> \in RowLists(n)

LEMMA PivotInside ==
  ASSUME NEW col, NEW n, Column(col, n), NEW s \in RowLists(n), ~ AllEqual(col, s),
         NEW w, NEW d, w = Pivoted(col, s)[1], d = Pivoted(col, s)[2]
  PROVE  Shorter(n, s, w, d)
<1>0. n \in Nat
  BY DEF Column
<1>1. s \in Seq(1 .. n) /\ Len(s) \in Nat
  BY DEF RowLists
<1>2. Len(s) >= 1
  BY <1>1 DEF AllEqual
<1>3. PICK q : q = <<s, 1, Len(s) + 1>>
  OBVIOUS
<1>4. q[1] = s
  BY <1>3
<1>5. q \in Between(n)
  <2>1. 1 \in Nat /\ Len(s) + 1 \in Nat /\ 1 <= 1 /\ 1 < Len(s) + 1 /\ Len(s) + 1 <= Len(s) + 1
    BY <1>1, <1>2
  <2> QED BY <1>0, <1>1, <1>3, <2>1, BetweenIs
<1>6. w \in RowLists(n) /\ Len(w) = Len(s) /\ d \in 1 .. Len(s)
  BY <1>3, <1>4, <1>5, PartitionInside DEF Pivoted
<1>7. w \in Seq(1 .. n)
  BY <1>6 DEF RowLists
<1>8. d - 1 \in Nat /\ d - 1 <= Len(w) /\ d \in Nat /\ d <= Len(w) /\ d - 1 < Len(s) /\ Len(s) - d < Len(s)
  BY <1>1, <1>6
<1>9. /\ FrontPart(w, d - 1) \in Seq(1 .. n) /\ Len(FrontPart(w, d - 1)) = d - 1
      /\ BackPart(w, d) \in Seq(1 .. n) /\ Len(BackPart(w, d)) = Len(w) - d
  BY <1>7, <1>8, TwoHalves
<1>10. w[d] \in 1 .. n
  BY <1>6, <1>7, ElementOfSeq
<1>11. <<w[d]>> \in Seq(1 .. n)
  BY <1>10
<1> QED BY <1>1, <1>6, <1>8, <1>9, <1>11 DEF RowLists, Shorter

LEMMA QuickSortRecursion ==
  ASSUME NEW col, NEW n, Column(col, n)
  PROVE  /\ QuickSort(col) \in [RowLists(n) -> RowLists(n)]
         /\ \A s \in RowLists(n) : QuickSort(col)[s] = QuickSortBody(col, QuickSort(col), s)
<1> DEFINE S == RowLists(n)
           X == RowLists(n)
           m == QuickSort(col)
           Y == X \cup {m[s] : s \in S}
           mu == [s \in S |-> Len(s)]
           G == [s \in S |-> [f \in [S -> Y] |-> QuickSortBody(col, f, s)]]
           w(s) == Pivoted(col, s)[1]
           d(s) == Pivoted(col, s)[2]
<1>0. n \in Nat /\ n = Len(col.val)
  BY DEF Column
<1>1. m = CHOOSE f : f = [s \in S |-> QuickSortBody(col, f, s)]
  BY <1>0 DEF QuickSort, QuickSortBody, AllEqual, Pivoted
<1>2. mu \in [S -> Nat] /\ \A s \in S : mu[s] = Len(s)
  BY DEF RowLists
<1>3. ASSUME NEW s \in S, ~ AllEqual(col, s)
      PROVE  /\ SubSeq(w(s), 1, d(s) - 1) \in S /\ mu[SubSeq(w(s), 1, d(s) - 1)] < mu[s]
             /\ SubSeq(w(s), d(s) + 1, Len(s)) \in S /\ mu[SubSeq(w(s), d(s) + 1, Len(s))] < mu[s]
             /\ <<w(s)[d(s)]>> \in S
  <2>1. PICK v, k : v = w(s) /\ k = d(s)
    OBVIOUS
  <2>2. /\ Len(v) = Len(s)
        /\ FrontPart(v, k - 1) \in S /\ Len(FrontPart(v, k - 1)) < Len(s)
        /\ BackPart(v, k) \in S /\ Len(BackPart(v, k)) < Len(s)
        /\ <<v[k]>> \in S
    <3>1. Shorter(n, s, v, k)
      BY <1>3, <2>1, PivotInside
    <3> QED BY <3>1 DEF Shorter
  <2> HIDE DEF mu, w, d, S
  <2>3. FrontPart(v, k - 1) = SubSeq(w(s), 1, d(s) - 1) /\ BackPart(v, k) = SubSeq(w(s), d(s) + 1, Len(s))
    BY <2>1, <2>2 DEF FrontPart, BackPart
  <2>4. mu[FrontPart(v, k - 1)] < mu[s] /\ mu[BackPart(v, k)] < mu[s]
    BY <1>2, <2>2
  <2> QED BY <2>1, <2>2, <2>3, <2>4
<1>4. ASSUME NEW s \in S, NEW f \in [S -> X] PROVE QuickSortBody(col, f, s) \in X
  <2>1. \A r, q \in S : r \o q \in S
    BY ConcatProperties DEF RowLists
  <2>2. CASE AllEqual(col, s)
    BY <2>2 DEF QuickSortBody
  <2>3. CASE ~ AllEqual(col, s)
    <3>1. PICK front \in S, x \in S, back \in S :
            front = f[SubSeq(w(s), 1, d(s) - 1)] /\ x = <<w(s)[d(s)]>> /\ back = f[SubSeq(w(s), d(s) + 1, Len(s))]
      BY <2>3, <1>3
    <3> HIDE DEF S
    <3>2. front \o x \o back \in S
      BY <2>1
    <3> HIDE DEF X
    <3>3. QuickSortBody(col, f, s) = front \o x \o back
      BY <2>3, <3>1 DEF QuickSortBody
    <3> QED BY <3>2, <3>3 DEF X, S
  <2> QED BY <2>2, <2>3
<1>5. ASSUME NEW s \in S, NEW f, NEW g, \A t \in S : mu[t] < mu[s] => f[t] = g[t]
      PROVE  QuickSortBody(col, f, s) = QuickSortBody(col, g, s)
  <2>1. CASE AllEqual(col, s)
    BY <2>1 DEF QuickSortBody
  <2>2. CASE ~ AllEqual(col, s)
    <3>1. /\ f[SubSeq(w(s), 1, d(s) - 1)] = g[SubSeq(w(s), 1, d(s) - 1)]
          /\ f[SubSeq(w(s), d(s) + 1, Len(s))] = g[SubSeq(w(s), d(s) + 1, Len(s))]
      <4> HIDE DEF S, mu, w, d
      <4> QED BY <1>3, <1>5, <2>2
    <3> QED BY <3>1 DEF QuickSortBody
  <2> QED BY <2>1, <2>2
<1> HIDE DEF S, X, mu, m, w, d
<1>7. Recursion(G, S, X, Y, mu)
  <2>1. \A f \in [S -> X] : f \in [S -> Y]
    OBVIOUS
  <2>2. \A s \in S : \A f \in [S -> Y] : G[s][f] = QuickSortBody(col, f, s)
    OBVIOUS
  <2> HIDE DEF Y, G
  <2>3. X \subseteq Y
    BY DEF Y
  <2>4. \A s \in S : \A f \in [S -> X] : G[s][f] \in X
    BY <2>1, <2>2, <1>4
  <2>5. \A s \in S : \A f, g \in [S -> Y] :
          (\A t \in S : mu[t] < mu[s] => f[t] = g[t]) => G[s][f] = G[s][g]
    BY <2>2, <1>5
  <2> QED BY <2>3, <2>4, <2>5, <1>2 DEF Recursion
<1>8. <<>> \in X
  BY DEF X, RowLists
<1>9. PICK f \in [S -> X] : f = [s \in S |-> G[s][f]]
  <2> HIDE DEF G, Y
  <2> QED BY <1>7, <1>8, RecursiveFunction
<1>10. f = [s \in S |-> QuickSortBody(col, f, s)]
  <2>1. f \in [S -> Y]
    OBVIOUS
  <2> HIDE DEF Y
  <2>2. \A s \in S : G[s][f] = QuickSortBody(col, f, s)
    BY <2>1
  <2> QED BY <1>9, <2>2
<1>11. m = [s \in S |-> QuickSortBody(col, m, s)]
  <2> HIDE DEF G, Y
  <2> QED BY <1>1, <1>10
<1>12. m \in [S -> Y] /\ \A s \in S : m[s] = G[s][m]
  <2>1. m \in [S -> Y]
    BY <1>11
  <2> HIDE DEF Y
  <2>2. \A s \in S : G[s][m] = QuickSortBody(col, m, s)
    BY <2>1
  <2> QED BY <1>11, <2>1, <2>2
<1>13. m \in [S -> X]
  <2> HIDE DEF G, Y
  <2> QED BY <1>7, <1>8, <1>12, RecursionTyped
<1>14. \A s \in S : m[s] = QuickSortBody(col, m, s)
  BY <1>11
<1> QED BY <1>13, <1>14 DEF m, S, X

LEMMA PivotParts ==
  ASSUME NEW A, NEW s, Arranges(s, A), NEW k \in 1 .. Len(s)
  PROVE  /\ Arranges(FrontPart(s, k - 1), Part(s, 1, k - 1)) /\ Arranges(BackPart(s, k), Part(s, k + 1, Len(s)))
         /\ Part(s, 1, k - 1) \subseteq A /\ Part(s, k + 1, Len(s)) \subseteq A /\ s[k] \in A
         /\ Part(s, 1, k - 1) \cap {s[k]} = {}
         /\ (Part(s, 1, k - 1) \cup {s[k]}) \cap Part(s, k + 1, Len(s)) = {}
         /\ (Part(s, 1, k - 1) \cup {s[k]}) \cup Part(s, k + 1, Len(s)) = A
<1>1. s \in Seq(A) /\ Len(s) \in Nat /\ k \in Nat /\ k <= Len(s) /\ k - 1 \in Nat /\ k - 1 <= Len(s)
      /\ \A i, j \in 1 .. Len(s) : s[i] = s[j] => i = j
  BY DEF Arranges
<1>2. Arranges(FrontPart(s, k - 1), Part(s, 1, k - 1)) /\ Part(s, 1, k - 1) \subseteq A
  BY <1>1, HalvesListed
<1>3. /\ Arranges(BackPart(s, k), Part(s, k + 1, Len(s))) /\ Part(s, k + 1, Len(s)) \subseteq A
      /\ Part(s, 1, k) \cap Part(s, k + 1, Len(s)) = {}
      /\ Part(s, 1, k) \cup Part(s, k + 1, Len(s)) = A
  BY <1>1, HalvesListed
<1>4. Part(s, 1, k) = Part(s, 1, k - 1) \cup {s[k]}
  <2>1. \A i : i \in 1 .. k <=> i \in 1 .. k - 1 \/ i = k
    BY <1>1
  <2> QED BY <2>1 DEF Part
<1>5. s[k] \in A
  BY <1>1, ElementOfSeq
<1>6. s[k] \notin Part(s, 1, k - 1)
  <2>1. \A i \in 1 .. k - 1 : i \in 1 .. Len(s) /\ i # k
    BY <1>1
  <2> QED BY <1>1, <2>1 DEF Part
<1> QED BY <1>2, <1>3, <1>4, <1>5, <1>6

LEMMA EqualInOrder ==
  ASSUME NEW col, NEW n, NEW A, NEW s, Column(col, n), A \subseteq 1 .. n, Arranges(s, A), AllEqual(col, s)
  PROVE  InOrder(s, Good(col, n, FALSE))
<1>1. s \in Seq(1 .. n)
  BY SeqMonotonic DEF Arranges
<1>2. ASSUME NEW i \in 1 .. Len(s), NEW j \in 1 .. Len(s)
      PROVE  <<s[i], s[j]>> \in Good(col, n, FALSE)
  <2>1. s[i] \in 1 .. n /\ s[j] \in 1 .. n /\ s[1] \in 1 .. n /\ i \in DOMAIN s /\ j \in DOMAIN s
    <3>1. 1 \in 1 .. Len(s) /\ DOMAIN s = 1 .. Len(s)
      BY <1>1
    <3> QED BY <1>1, <3>1, ElementOfSeq
  <2>2. ~ Differ(col, s[i], s[1]) /\ ~ Differ(col, s[j], s[1])
    BY <2>1 DEF AllEqual
  <2>3. ~ Differ(col, s[i], s[j])
    BY <2>2 DEF Differ
  <2> QED BY <2>1, <2>3, ColumnOrder
<1> QED BY <1>2 DEF InOrder

LEMMA QuickSortSorts ==
  ASSUME NEW col, NEW n, NEW R, NEW r, NEW A, Sortable(col, n, FALSE, R, r, A)
  PROVE  Listed(QuickSort(col)[r], A, R)
<1> DEFINE S == RowLists(n)
           m == QuickSort(col)
           mu == [s \in S |-> Len(s)]
           Right(s) == \A C : Sortable(col, n, FALSE, R, s, C) => Listed(m[s], C, R)
           T == {s \in S : ~ Right(s)}
<1>0. n \in Nat /\ n = Len(col.val) /\ Column(col, n) /\ R = Good(col, n, FALSE)
  BY DEF Sortable, Column
<1>1. m \in [S -> S] /\ \A s \in S : m[s] = QuickSortBody(col, m, s)
  BY <1>0, QuickSortRecursion
<1>2. mu \in [S -> Nat] /\ \A s \in S : mu[s] = Len(s)
  BY DEF RowLists
<1>3. ASSUME NEW s \in S, \A t \in S : mu[t] < mu[s] => Right(t),
             NEW C, Sortable(col, n, FALSE, R, s, C)
      PROVE  Listed(m[s], C, R)
  <2>1. m[s] = QuickSortBody(col, m, s)
    BY <1>1
  <2>2. Arranges(s, C) /\ C \subseteq 1 .. n /\ Len(s) \in Nat /\ s \in Seq(1 .. n)
    BY <1>3 DEF Sortable, RowLists
  <2>3. CASE AllEqual(col, s)
    <3>1. InOrder(s, R)
      BY <1>0, <2>2, <2>3, EqualInOrder
    <3> QED BY <2>1, <2>2, <2>3, <3>1 DEF QuickSortBody, Listed
  <2>4. CASE ~ AllEqual(col, s)
    <3>0. PICK w, d : w = Pivoted(col, s)[1] /\ d = Pivoted(col, s)[2]
      OBVIOUS
    <3>1. PICK p : p = Pivoted(col, s) /\ p[1] = w /\ p[2] = d
      BY <3>0
    <3>2. /\ Len(w) = Len(s) /\ d \in 1 .. Len(s)
          /\ FrontPart(w, d - 1) \in S /\ Len(FrontPart(w, d - 1)) < Len(s)
          /\ BackPart(w, d) \in S /\ Len(BackPart(w, d)) < Len(s)
      <4>1. Column(col, n) /\ s \in RowLists(n)
        BY <1>0
      <4>2. Shorter(n, s, w, d)
        BY <2>4, <3>0, <4>1, PivotInside
      <4> QED BY <4>2 DEF Shorter
    <3>3. Partitioned(col, C, p)
      <4>1. Partitionable(col, n, C, s, 1, Len(s) + 1)
        BY <1>0, <2>2, <3>2 DEF Partitionable
      <4> QED BY <3>1, <4>1, PartitionRight DEF Pivoted
    <3>4. PICK u, v, x, U, V : /\ u = FrontPart(w, d - 1) /\ v = BackPart(w, d) /\ x = w[d]
                               /\ U = Part(w, 1, d - 1) /\ V = Part(w, d + 1, Len(w))
      OBVIOUS
    <3>5. /\ Arranges(u, U) /\ Arranges(v, V) /\ U \subseteq C /\ V \subseteq C /\ x \in C
          /\ U \cap {x} = {} /\ (U \cup {x}) \cap V = {} /\ (U \cup {x}) \cup V = C
      <4>1. Arranges(w, C)
        BY <3>1, <3>3 DEF Partitioned
      <4> QED BY <3>2, <3>4, <4>1, PivotParts
    <3>6. /\ \A a \in U : ~ After(col, a, x)
          /\ \A b \in V : After(col, b, x)
      BY <3>1, <3>3, <3>4 DEF Partitioned, Part
    <3>7. /\ \A a \in U : <<a, x>> \in R
          /\ \A b \in V : <<x, b>> \in R
          /\ \A a \in U, b \in V : <<a, b>> \in R
      <4>1. \A a \in U : <<a, x>> \in R
        <5> TAKE a \in U
        <5>1. a \in 1 .. n /\ x \in 1 .. n
          BY <2>2, <3>5
        <5> QED BY <1>0, <3>6, <5>1, ColumnOrder
      <4>2. \A b \in V : <<x, b>> \in R
        <5> TAKE b \in V
        <5>1. b \in 1 .. n /\ x \in 1 .. n
          BY <2>2, <3>5
        <5> QED BY <1>0, <3>6, <5>1, ColumnOrder
      <4>3. ASSUME NEW a \in U, NEW b \in V PROVE <<a, b>> \in R
        <5>1. b \in 1 .. n /\ x \in 1 .. n /\ a \in 1 .. n
          BY <2>2, <3>5
        <5> QED BY <1>0, <4>1, <4>2, <5>1, GoodTransitive
      <4> QED BY <4>1, <4>2, <4>3
    <3>8. mu[u] < mu[s] /\ mu[v] < mu[s] /\ u \in S /\ v \in S
      <4> HIDE DEF S, mu
      <4> QED BY <1>2, <3>2, <3>4
    <3> HIDE DEF S, mu, m, Right
    <3>9. Listed(m[u], U, R) /\ Listed(m[v], V, R)
      <4>1. Right(u) /\ Right(v)
        BY <1>3, <3>8
      <4>2. Sortable(col, n, FALSE, R, u, U) /\ Sortable(col, n, FALSE, R, v, V)
        BY <1>0, <2>2, <3>5 DEF Sortable
      <4> QED BY <4>1, <4>2 DEF Right
    <3>10. PICK f, g : f = m[u] /\ g = m[v]
      OBVIOUS
    <3>11. m[s] = f \o <<x>> \o g
      BY <2>1, <2>4, <3>1, <3>2, <3>4, <3>10 DEF QuickSortBody, FrontPart, BackPart
    <3>12. Arranges(f, U) /\ InOrder(f, R) /\ Arranges(g, V) /\ InOrder(g, R)
      BY <3>9, <3>10 DEF Listed
    <3>13. Arranges(<<x>>, {x}) /\ InOrder(<<x>>, R)
      BY SingleArranges
    <3>14. Arranges(f \o <<x>>, U \cup {x}) /\ InOrder(f \o <<x>>, R)
      <4>1. \A a \in U, b \in {x} : <<a, b>> \in R
        BY <3>7
      <4> QED BY <3>5, <3>12, <3>13, <4>1, ConcatArranges, ConcatInOrder
    <3>15. \A a \in U \cup {x}, b \in V : <<a, b>> \in R
      BY <3>7
    <3>16. Arranges(f \o <<x>> \o g, C) /\ InOrder(f \o <<x>> \o g, R)
      BY <3>5, <3>12, <3>14, <3>15, ConcatArranges, ConcatInOrder
    <3> QED BY <3>11, <3>16 DEF Listed
  <2> QED BY <2>3, <2>4
<1>4. ASSUME T # {} PROVE FALSE
  <2>1. T \subseteq S
    OBVIOUS
  <2>2. PICK s \in T : \A t \in T : mu[s] <= mu[t]
    <3> HIDE DEF T, S, mu
    <3> QED BY <1>2, <1>4, <2>1, LeastByMeasure
  <2>3. s \in S /\ ~ Right(s)
    OBVIOUS
  <2> HIDE DEF S, mu, Right
  <2>4. \A t \in S : mu[t] < mu[s] => ~ mu[s] <= mu[t]
    BY <1>2, <2>3
  <2>5. \A t \in S : mu[t] < mu[s] => Right(t)
    BY <2>2, <2>4
  <2>6. Right(s)
    <3>1. ASSUME NEW C, Sortable(col, n, FALSE, R, s, C) PROVE Listed(m[s], C, R)
      BY <1>3, <2>3, <2>5, <3>1
    <3> QED BY <3>1 DEF Right
  <2> QED BY <2>3, <2>6
<1>5. r \in S
  BY <1>0, ListHasRows DEF Sortable
<1>6. Right(r)
  <2> HIDE DEF Right, S
  <2> QED BY <1>4, <1>5
<1> QED BY <1>6

----------------------------------------------------------------------------
(* One column of a list.                                                   *)

LEMMA SortColumnSorts ==
  ASSUME NEW col, NEW n, NEW stable, NEW R, NEW s, NEW A, Sortable(col, n, stable, R, s, A),
         stable => col.isUp /\ col.type \in {"i32", "i64"}
  PROVE  Listed(SortColumn(col, s), A, R)
<1>1. /\ Column(col, n) /\ stable \in BOOLEAN /\ R = Good(col, n, stable)
      /\ A \subseteq 1 .. n /\ Arranges(s, A) /\ (stable => InOrder(s, Increasing))
  BY DEF Sortable
<1>2. s \in Seq(A) /\ Len(s) \in Nat
  BY <1>1 DEF Arranges
<1>3. ASSUME NEW r \in 2 .. Len(s)
      PROVE  r - 1 \in 1 .. Len(s) /\ r \in 1 .. Len(s) /\ s[r - 1] \in 1 .. n /\ s[r] \in 1 .. n
  <2>1. r - 1 \in 1 .. Len(s) /\ r \in 1 .. Len(s)
    BY <1>2
  <2> QED BY <2>1, <1>1, <1>2, ElementOfSeq
<1>4. \A a, b, c \in A : <<a, b>> \in R /\ <<b, c>> \in R => <<a, c>> \in R
  BY <1>1, GoodTransitive
<1>5. CASE Ascends(col, s) /\ col.isUp
  <2>1. \A r \in 2 .. Len(s) : <<s[r - 1], s[r]>> \in R
    <3> TAKE r \in 2 .. Len(s)
    <3>1. col.val[s[r - 1]] <= col.val[s[r]]
      BY <1>5 DEF Ascends
    <3>2. col.val[s[r - 1]] \in Int /\ col.val[s[r]] \in Int
      <4>1. s[r - 1] \in 1 .. n /\ s[r] \in 1 .. n
        BY <1>3
      <4>2. Column(col, n)
        BY <1>1
      <4> QED BY ONLY <4>1, <4>2, ColumnOrder
    <3>3. ~ After(col, s[r - 1], s[r])
      BY <1>5, <3>1, <3>2 DEF After
    <3>4. stable => s[r - 1] < s[r]
      <4>1. r - 1 < r
        OBVIOUS
      <4> QED BY <1>1, <1>3, <4>1 DEF InOrder, Increasing
    <3>5. After(col, s[r], s[r - 1]) \/ (stable => s[r - 1] < s[r])
      BY <3>4
    <3> QED BY <1>1, <1>3, <3>3, <3>5, ColumnOrder
  <2>2. InOrder(s, R)
    BY <1>2, <1>4, <2>1, NeighboursInOrder
  <2> QED BY <1>1, <1>5, <2>2 DEF SortColumn, Listed
<1>6. CASE Ascends(col, s) /\ ~ col.isUp
  <2> DEFINE Q == {p \in A \X A : col.val[p[1]] <= col.val[p[2]]}
  <2>1. \A a, b \in A : <<a, b>> \in Q <=> col.val[a] <= col.val[b]
    OBVIOUS
  <2>2. \A a \in A : a \in 1 .. n /\ col.val[a] \in Int
    BY <1>1, ColumnOrder
  <2> HIDE DEF Q
  <2>3. \A a, b, c \in A : <<a, b>> \in Q /\ <<b, c>> \in Q => <<a, c>> \in Q
    BY <2>1, <2>2
  <2>4. \A r \in 2 .. Len(s) : <<s[r - 1], s[r]>> \in Q
    <3> TAKE r \in 2 .. Len(s)
    <3>1. s[r - 1] \in A /\ s[r] \in A
      BY <1>2, <1>3, ElementOfSeq
    <3> QED BY <1>6, <2>1, <3>1 DEF Ascends
  <2>5. InOrder(s, Q)
    BY <1>2, <2>3, <2>4, NeighboursInOrder
  <2>6. \A a, b \in A : <<a, b>> \in Q => <<b, a>> \in R
    <3> TAKE a, b \in A
    <3> HAVE <<a, b>> \in Q
    <3>1. col.val[a] <= col.val[b]
      BY <2>1
    <3>2. ~ After(col, b, a) /\ a \in 1 .. n /\ b \in 1 .. n
      BY <1>6, <2>2, <3>1 DEF After
    <3> QED BY <1>1, <1>6, <3>2, ColumnOrder
  <2>7. Arranges(Reverse(s), A) /\ InOrder(Reverse(s), R)
    BY <1>1, <2>5, <2>6, ReverseArranges
  <2> QED BY <1>6, <2>7 DEF SortColumn, Listed
<1>7. CASE ~ Ascends(col, s) /\ col.type \in {"i32", "i64"}
  BY <1>7, MergeSortSorts DEF SortColumn
<1>8. CASE ~ Ascends(col, s) /\ ~ col.type \in {"i32", "i64"}
  <2>1. stable = FALSE
    BY <1>1, <1>8
  <2>2. Listed(QuickSort(col)[s], A, R)
    BY <2>1, QuickSortSorts
  <2> QED BY <1>8, <2>2 DEF SortColumn
<1> QED BY <1>5, <1>6, <1>7, <1>8

LEMMA SortColumnTyped ==
  ASSUME NEW col, NEW n, Column(col, n), NEW s \in RowLists(n)
  PROVE  SortColumn(col, s) \in RowLists(n)
<1>1. n \in Nat /\ n = Len(col.val)
  BY DEF Column
<1>2. MergeSort(col)[s] \in RowLists(n) /\ QuickSort(col)[s] \in RowLists(n)
  BY <1>1, MergeSortRecursion, QuickSortRecursion
<1>3. Reverse(s) \in RowLists(n)
  <2>1. s \in Seq(1 .. n) /\ Len(s) \in Nat
    BY DEF RowLists
  <2>2. \A k \in 1 .. Len(s) : s[Len(s) - k + 1] \in 1 .. n
    <3> TAKE k \in 1 .. Len(s)
    <3>1. Len(s) - k + 1 \in 1 .. Len(s)
      BY <2>1
    <3> QED BY <2>1, <3>1, ElementOfSeq
  <2>3. \A k : Len(s) - k + 1 = (Len(s) - k) + 1
    OBVIOUS
  <2> QED BY <2>1, <2>2 DEF Reverse, RowLists
<1> QED BY <1>2, <1>3 DEF SortColumn

----------------------------------------------------------------------------
(* The end of a run.                                                       *)

BisectBody(col, rows, f, s) ==
  LET first == s[1]
      end   == s[2]
      mid   == (first + end) \div 2
  IN  IF first >= end \/ ~ Differ(col, rows[1], rows[end - 1]) THEN end
      ELSE IF Differ(col, rows[1], rows[mid]) THEN f[<<first, mid>>]
      ELSE f[<<mid + 1, end>>]

\* What is left to search, at most.
Span(first, end) == IF first < end THEN end - first ELSE 0

LEMMA BisectInside ==
  ASSUME NEW first \in Nat, NEW end \in Nat, ~ first >= end, NEW mid, mid = (first + end) \div 2
  PROVE  /\ mid \in Nat /\ first <= mid /\ mid < end /\ mid + 1 \in Nat
         /\ Span(first, mid) < Span(first, end) /\ Span(mid + 1, end) < Span(first, end)
<1>1. mid \in Nat /\ first <= mid /\ mid < end
  OBVIOUS
<1> QED BY <1>1 DEF Span

LEMMA BisectRecursion ==
  ASSUME NEW col, NEW rows
  PROVE  /\ Bisect(col, rows) \in [Nat \X Nat -> Nat]
         /\ \A s \in Nat \X Nat : Bisect(col, rows)[s] = BisectBody(col, rows, Bisect(col, rows), s)
<1> DEFINE S == Nat \X Nat
           X == Nat
           m == Bisect(col, rows)
           Y == X \cup {m[s] : s \in S}
           mu == [s \in S |-> Span(s[1], s[2])]
           G == [s \in S |-> [f \in [S -> Y] |-> BisectBody(col, rows, f, s)]]
           mid(s) == (s[1] + s[2]) \div 2
<1>1. m = CHOOSE f : f = [s \in S |-> BisectBody(col, rows, f, s)]
  BY DEF Bisect, BisectBody
<1>2. mu \in [S -> Nat] /\ \A s \in S : mu[s] = Span(s[1], s[2])
  <2>1. \A s \in S : Span(s[1], s[2]) \in Nat
    BY DEF Span
  <2> QED BY <2>1
<1>3. ASSUME NEW s \in S, ~ s[1] >= s[2]
      PROVE  /\ <<s[1], mid(s)>> \in S /\ mu[<<s[1], mid(s)>>] < mu[s]
             /\ <<mid(s) + 1, s[2]>> \in S /\ mu[<<mid(s) + 1, s[2]>>] < mu[s]
  <2>0. PICK first \in Nat, end \in Nat : first = s[1] /\ end = s[2]
    OBVIOUS
  <2>1. PICK k : first = s[1] /\ end = s[2] /\ k = mid(s)
    BY <2>0
  <2>2. /\ k \in Nat /\ k + 1 \in Nat
        /\ Span(first, k) < Span(first, end) /\ Span(k + 1, end) < Span(first, end)
    BY <1>3, <2>1, BisectInside
  <2>3. PICK u, v : u = <<first, k>> /\ v = <<k + 1, end>>
    OBVIOUS
  <2>4. u \in S /\ v \in S /\ u[1] = first /\ u[2] = k /\ v[1] = k + 1 /\ v[2] = end
    BY <2>2, <2>3
  <2> HIDE DEF mu, mid, S
  <2>5. mu[u] < mu[s] /\ mu[v] < mu[s]
    BY <1>2, <2>1, <2>2, <2>4
  <2> QED BY <2>1, <2>3, <2>4, <2>5
<1>4. ASSUME NEW s \in S, NEW f \in [S -> X] PROVE BisectBody(col, rows, f, s) \in X
  <2>1. ~ s[1] >= s[2] => f[<<s[1], mid(s)>>] \in X /\ f[<<mid(s) + 1, s[2]>>] \in X
    BY <1>3
  <2>2. s[2] \in X
    OBVIOUS
  <2> HIDE DEF S, X
  <2> QED BY <2>1, <2>2 DEF BisectBody
<1>5. ASSUME NEW s \in S, NEW f, NEW g, \A t \in S : mu[t] < mu[s] => f[t] = g[t]
      PROVE  BisectBody(col, rows, f, s) = BisectBody(col, rows, g, s)
  <2>1. ~ s[1] >= s[2] => /\ f[<<s[1], mid(s)>>] = g[<<s[1], mid(s)>>]
                          /\ f[<<mid(s) + 1, s[2]>>] = g[<<mid(s) + 1, s[2]>>]
    <3> HIDE DEF S, mu, mid
    <3> QED BY <1>3, <1>5
  <2> QED BY <2>1 DEF BisectBody
<1> HIDE DEF S, X, mu, m, mid
<1>7. Recursion(G, S, X, Y, mu)
  <2>1. \A f \in [S -> X] : f \in [S -> Y]
    OBVIOUS
  <2>2. \A s \in S : \A f \in [S -> Y] : G[s][f] = BisectBody(col, rows, f, s)
    OBVIOUS
  <2> HIDE DEF Y, G
  <2>3. X \subseteq Y
    BY DEF Y
  <2>4. \A s \in S : \A f \in [S -> X] : G[s][f] \in X
    BY <2>1, <2>2, <1>4
  <2>5. \A s \in S : \A f, g \in [S -> Y] :
          (\A t \in S : mu[t] < mu[s] => f[t] = g[t]) => G[s][f] = G[s][g]
    BY <2>2, <1>5
  <2> QED BY <2>3, <2>4, <2>5, <1>2 DEF Recursion
<1>8. 0 \in X
  BY DEF X, X
<1>9. PICK f \in [S -> X] : f = [s \in S |-> G[s][f]]
  <2> HIDE DEF G, Y
  <2> QED BY <1>7, <1>8, RecursiveFunction
<1>10. f = [s \in S |-> BisectBody(col, rows, f, s)]
  <2>1. f \in [S -> Y]
    OBVIOUS
  <2> HIDE DEF Y
  <2>2. \A s \in S : G[s][f] = BisectBody(col, rows, f, s)
    BY <2>1
  <2> QED BY <1>9, <2>2
<1>11. m = [s \in S |-> BisectBody(col, rows, m, s)]
  <2> HIDE DEF G, Y
  <2> QED BY <1>1, <1>10
<1>12. m \in [S -> Y] /\ \A s \in S : m[s] = G[s][m]
  <2>1. m \in [S -> Y]
    BY <1>11
  <2> HIDE DEF Y
  <2>2. \A s \in S : G[s][m] = BisectBody(col, rows, m, s)
    BY <2>1
  <2> QED BY <1>11, <2>1, <2>2
<1>13. m \in [S -> X]
  <2> HIDE DEF G, Y
  <2> QED BY <1>7, <1>8, <1>12, RecursionTyped
<1>14. \A s \in S : m[s] = BisectBody(col, rows, m, s)
  BY <1>11
<1> QED BY <1>13, <1>14 DEF m, S, X

\* The places from a on differ from the first.
Apart(col, rows, a) == \A k \in a .. Len(rows) : Differ(col, rows[1], rows[k])
\* The places up to a do not.
Alike(col, rows, a) == \A k \in 1 .. a : ~ Differ(col, rows[1], rows[k])
\* Nothing that is like the first comes after something that differs.
Grouped(col, rows) ==
  \A k, l \in 1 .. Len(rows) : k <= l /\ Differ(col, rows[1], rows[k]) => Differ(col, rows[1], rows[l])

\* Where the search for the end may be.
Bisecting(col, rows, first, end) ==
  /\ first \in Nat /\ end \in Nat /\ Len(rows) \in Nat
  /\ 1 <= first /\ first <= end /\ 2 <= end /\ end <= Len(rows) + 1
  /\ Grouped(col, rows) => Alike(col, rows, first - 1) /\ Apart(col, rows, end)

EndsRun(col, rows, e) ==
  /\ e \in 2 .. Len(rows) + 1
  /\ Grouped(col, rows) => Alike(col, rows, e - 1) /\ Apart(col, rows, e)

LEMMA BisectStep ==
  ASSUME NEW col, NEW rows, NEW first, NEW end, Bisecting(col, rows, first, end),
         NEW mid, mid = (first + end) \div 2
  PROVE  /\ first >= end \/ ~ Differ(col, rows[1], rows[end - 1]) => EndsRun(col, rows, end)
         /\ ~ first >= end /\ Differ(col, rows[1], rows[mid]) => Bisecting(col, rows, first, mid)
         /\ ~ first >= end /\ ~ Differ(col, rows[1], rows[mid]) => Bisecting(col, rows, mid + 1, end)
<1>1. PICK n \in Nat : n = Len(rows)
  BY DEF Bisecting
<1>2. /\ first \in Nat /\ end \in Nat
      /\ 1 <= first /\ first <= end /\ 2 <= end /\ end <= n + 1
      /\ Grouped(col, rows) => Alike(col, rows, first - 1) /\ Apart(col, rows, end)
  BY <1>1 DEF Bisecting
<1>3. ASSUME first >= end \/ ~ Differ(col, rows[1], rows[end - 1]) PROVE EndsRun(col, rows, end)
  <2>1. end \in 2 .. n + 1
    BY <1>2
  <2>2. ASSUME Grouped(col, rows) PROVE Alike(col, rows, end - 1)
    <3>1. CASE first >= end
      BY <1>2, <2>2, <3>1
    <3>2. CASE ~ Differ(col, rows[1], rows[end - 1])
      <4>1. \A k \in 1 .. end - 1 : k \in 1 .. n /\ end - 1 \in 1 .. n /\ k <= end - 1
        BY <1>2
      <4> QED BY <1>1, <2>2, <3>2, <4>1 DEF Grouped, Alike
    <3> QED BY <1>3, <3>1, <3>2
  <2> QED BY <1>1, <1>2, <2>1, <2>2 DEF EndsRun
<1>4. ASSUME ~ first >= end
      PROVE  mid \in Nat /\ first <= mid /\ mid < end /\ mid \in 1 .. n
  <2>1. mid \in Nat /\ first <= mid /\ mid < end
    BY <1>2, <1>4, BisectInside
  <2> QED BY <1>2, <2>1
<1>5. ASSUME ~ first >= end, Differ(col, rows[1], rows[mid])
      PROVE  Bisecting(col, rows, first, mid)
  <2>1. mid # 1
    BY <1>5 DEF Differ
  <2>2. ASSUME Grouped(col, rows) PROVE Apart(col, rows, mid)
    <3>1. \A k \in mid .. n : k \in 1 .. n /\ mid <= k
      BY <1>4, <1>5
    <3> QED BY <1>1, <1>4, <1>5, <2>2, <3>1 DEF Grouped, Apart
  <2> QED BY <1>1, <1>2, <1>4, <1>5, <2>1, <2>2 DEF Bisecting
<1>6. ASSUME ~ first >= end, ~ Differ(col, rows[1], rows[mid])
      PROVE  Bisecting(col, rows, mid + 1, end)
  <2>2. ASSUME Grouped(col, rows) PROVE Alike(col, rows, (mid + 1) - 1)
    <3>1. \A k \in 1 .. (mid + 1) - 1 : k \in 1 .. n /\ k <= mid
      BY <1>4, <1>6
    <3> QED BY <1>1, <1>4, <1>6, <2>2, <3>1 DEF Grouped, Alike
  <2>3. mid + 1 \in Nat /\ 1 <= mid + 1 /\ mid + 1 <= end
    BY <1>2, <1>4, <1>6
  <2> QED BY <1>1, <1>2, <2>2, <2>3 DEF Bisecting
<1> QED BY <1>3, <1>5, <1>6

LEMMA BisectRight ==
  ASSUME NEW col, NEW rows, NEW i, NEW j, Bisecting(col, rows, i, j)
  PROVE  EndsRun(col, rows, Bisect(col, rows)[<<i, j>>])
<1> DEFINE S == Nat \X Nat
           m == Bisect(col, rows)
           mu == [s \in S |-> Span(s[1], s[2])]
           Right(s) == Bisecting(col, rows, s[1], s[2]) => EndsRun(col, rows, m[s])
           T == {s \in S : ~ Right(s)}
<1>1. \A s \in S : m[s] = BisectBody(col, rows, m, s)
  BY BisectRecursion
<1>2. mu \in [S -> Nat] /\ \A s \in S : mu[s] = Span(s[1], s[2])
  <2>1. \A s \in S : Span(s[1], s[2]) \in Nat
    BY DEF Span
  <2> QED BY <2>1
<1>3. ASSUME NEW s \in S, \A t \in S : mu[t] < mu[s] => Right(t),
             Bisecting(col, rows, s[1], s[2])
      PROVE  EndsRun(col, rows, m[s])
  <2>0. PICK first \in Nat, end \in Nat : first = s[1] /\ end = s[2]
    OBVIOUS
  <2>1. PICK k : first = s[1] /\ end = s[2] /\ k = (s[1] + s[2]) \div 2
    BY <2>0
  <2>2. /\ first >= end \/ ~ Differ(col, rows[1], rows[end - 1]) => EndsRun(col, rows, end)
        /\ ~ first >= end /\ Differ(col, rows[1], rows[k]) => Bisecting(col, rows, first, k)
        /\ ~ first >= end /\ ~ Differ(col, rows[1], rows[k]) => Bisecting(col, rows, k + 1, end)
    BY <1>3, <2>1, BisectStep
  <2>3. ~ first >= end => /\ k \in Nat /\ k + 1 \in Nat
                          /\ Span(first, k) < Span(first, end) /\ Span(k + 1, end) < Span(first, end)
    BY <2>1, BisectInside
  <2>4. PICK u, v : u = <<first, k>> /\ v = <<k + 1, end>>
    OBVIOUS
  <2>5. u[1] = first /\ u[2] = k /\ v[1] = k + 1 /\ v[2] = end
    BY <2>4
  <2>6. m[s] = IF first >= end \/ ~ Differ(col, rows[1], rows[end - 1]) THEN end
               ELSE IF Differ(col, rows[1], rows[k]) THEN m[u] ELSE m[v]
    BY <1>1, <2>1, <2>4 DEF BisectBody
  <2>7. ~ first >= end => u \in S /\ v \in S
    BY <2>3, <2>4
  <2> HIDE DEF mu, S, m
  <2>8. ~ first >= end => mu[u] < mu[s] /\ mu[v] < mu[s]
    BY <1>2, <2>1, <2>3, <2>5, <2>7
  <2>9. CASE first >= end \/ ~ Differ(col, rows[1], rows[end - 1])
    BY <2>2, <2>6, <2>9
  <2>10. CASE ~ first >= end /\ Differ(col, rows[1], rows[end - 1]) /\ Differ(col, rows[1], rows[k])
    <3>1. EndsRun(col, rows, m[u])
      BY <1>3, <2>2, <2>5, <2>7, <2>8, <2>10
    <3> QED BY <2>6, <2>10, <3>1
  <2>11. CASE ~ first >= end /\ Differ(col, rows[1], rows[end - 1]) /\ ~ Differ(col, rows[1], rows[k])
    <3>1. EndsRun(col, rows, m[v])
      BY <1>3, <2>2, <2>5, <2>7, <2>8, <2>11
    <3> QED BY <2>6, <2>11, <3>1
  <2> QED BY <2>9, <2>10, <2>11
<1>4. ASSUME T # {} PROVE FALSE
  <2>1. T \subseteq S
    OBVIOUS
  <2>2. PICK s \in T : \A t \in T : mu[s] <= mu[t]
    <3> HIDE DEF T, S, mu
    <3> QED BY <1>2, <1>4, <2>1, LeastByMeasure
  <2>3. s \in S /\ ~ Right(s)
    OBVIOUS
  <2> HIDE DEF S, mu, Right
  <2>4. \A t \in S : mu[t] < mu[s] => ~ mu[s] <= mu[t]
    BY <1>2, <2>3
  <2>5. \A t \in S : mu[t] < mu[s] => Right(t)
    BY <2>2, <2>4
  <2>6. Right(s)
    BY <1>3, <2>3, <2>5 DEF Right
  <2> QED BY <2>3, <2>6
<1>5. PICK r : r = <<i, j>>
  OBVIOUS
<1>6. r[1] = i /\ r[2] = j
  BY <1>5
<1>7. r \in S
  BY <1>5 DEF Bisecting
<1>8. Right(r)
  <2> HIDE DEF Right, S
  <2> QED BY <1>4, <1>7
<1> QED BY <1>5, <1>6, <1>8

\* Places up to a limit that are like their neighbours are like the first.
LEMMA AlikeUpto ==
  ASSUME NEW col, NEW rows, NEW n \in Nat, NEW b \in Nat, b <= n,
         \A r \in 2 .. b : ~ Differ(col, rows[r - 1], rows[r])
  PROVE  Alike(col, rows, b)
<1> DEFINE T == {k \in 1 .. b : Differ(col, rows[1], rows[k])}
<1>1. ASSUME T # {} PROVE FALSE
  <2>1. T \subseteq Nat
    OBVIOUS
  <2>2. PICK k \in T : \A l \in T : k <= l
    <3> HIDE DEF T
    <3> QED BY <1>1, <2>1, LeastNatural
  <2>3. k \in 1 .. b /\ Differ(col, rows[1], rows[k])
    OBVIOUS
  <2>4. k # 1
    BY <2>3 DEF Differ
  <2>5. k \in 2 .. b /\ k - 1 \in 1 .. b /\ ~ k <= k - 1
    BY <2>3, <2>4
  <2>6. ~ Differ(col, rows[1], rows[k - 1])
    BY <2>2, <2>5
  <2>7. ~ Differ(col, rows[k - 1], rows[k])
    BY <2>5
  <2> QED BY <2>3, <2>6, <2>7 DEF Differ
<1> QED BY <1>1 DEF Alike

LEMMA RunEndRight ==
  ASSUME NEW col, NEW X, NEW rows \in Seq(X), rows # <<>>
  PROVE  EndsRun(col, rows, RunEnd(col, rows))
<1> DEFINE n == Len(rows)
           changes == {r \in 2 .. n : r <= RunProbe /\ Differ(col, rows[r - 1], rows[r])}
<1>1. n \in Nat /\ n >= 1 /\ RunProbe \in Nat \ {0}
  BY OrderingAssumption DEF OrderingAssumption
<1>2. RunEnd(col, rows) = IF changes # {} THEN Min(changes)
                          ELSE IF n <= RunProbe THEN n + 1
                          ELSE Bisect(col, rows)[<<1, n + 1>>]
  BY DEF RunEnd
<1> HIDE DEF n
<1>3. CASE changes # {}
  <2>1. changes \subseteq Nat
    BY <1>1
  <2>2. PICK c : c = Min(changes)
    OBVIOUS
  <2>3. c \in changes /\ \A x \in changes : c <= x
    <3> HIDE DEF changes
    <3> QED BY <1>3, <2>1, <2>2, MinIs
  <2>4. c \in 2 .. n /\ c <= RunProbe /\ Differ(col, rows[c - 1], rows[c]) /\ c - 1 \in Nat /\ c - 1 <= n
    BY <1>1, <2>3
  <2>5. \A r \in 2 .. c - 1 : ~ Differ(col, rows[r - 1], rows[r])
    <3> TAKE r \in 2 .. c - 1
    <3>1. r \in 2 .. n /\ r <= RunProbe /\ ~ c <= r
      BY <1>1, <2>4
    <3> QED BY <2>3, <3>1
  <2>6. Alike(col, rows, c - 1)
    BY <1>1, <2>4, <2>5, AlikeUpto
  <2>7. Differ(col, rows[1], rows[c])
    <3>1. c - 1 \in 1 .. c - 1
      BY <2>4
    <3> QED BY <2>4, <2>6, <3>1 DEF Alike, Differ
  <2>8. ASSUME Grouped(col, rows) PROVE Apart(col, rows, c)
    <3>1. \A k \in c .. n : k \in 1 .. n /\ c \in 1 .. n /\ c <= k
      BY <1>1, <2>4
    <3> QED BY <2>7, <2>8, <3>1 DEF Grouped, Apart, n
  <2>9. c \in 2 .. n + 1
    BY <1>1, <2>4
  <2>10. EndsRun(col, rows, c)
    BY <2>6, <2>8, <2>9 DEF EndsRun, n
  <2> QED BY <1>2, <1>3, <2>2, <2>10
<1>4. CASE changes = {} /\ n <= RunProbe
  <2>1. \A r \in 2 .. n : ~ Differ(col, rows[r - 1], rows[r])
    <3> TAKE r \in 2 .. n
    <3>1. r <= RunProbe
      BY <1>1, <1>4
    <3> QED BY <1>4, <3>1
  <2>2. Alike(col, rows, n)
    <3>1. n <= n
      BY <1>1
    <3> QED BY <1>1, <2>1, <3>1, AlikeUpto
  <2>3. Apart(col, rows, n + 1) /\ (n + 1) - 1 = n /\ n + 1 \in 2 .. n + 1
    BY <1>1 DEF Apart, n
  <2>4. EndsRun(col, rows, n + 1)
    BY <2>2, <2>3 DEF EndsRun, n
  <2> QED BY <1>2, <1>4, <2>4
<1>5. CASE changes = {} /\ ~ n <= RunProbe
  <2>1. Alike(col, rows, 1 - 1) /\ Apart(col, rows, n + 1)
    BY <1>1 DEF Alike, Apart, n
  <2>2. Bisecting(col, rows, 1, n + 1)
    BY <1>1, <2>1 DEF Bisecting, n
  <2>3. EndsRun(col, rows, Bisect(col, rows)[<<1, n + 1>>])
    BY <2>2, BisectRight
  <2> QED BY <1>2, <1>5, <2>3
<1> QED BY <1>3, <1>4, <1>5

----------------------------------------------------------------------------
(* The runs of a column, which the columns that follow sort.               *)

SortRunsBody(col, next, f, rows) ==
  LET end == RunEnd(col, rows)
  IN  IF rows = <<>> THEN rows
      ELSE next[SubSeq(rows, 1, end - 1)] \o f[SubSeq(rows, end, Len(rows))]

\* The first run of a list and the rest.
Run(col, rows) == FrontPart(rows, RunEnd(col, rows) - 1)
Rest(col, rows) == BackPart(rows, RunEnd(col, rows) - 1)

LEMMA RunAndRest ==
  ASSUME NEW col, NEW n \in Nat, NEW s \in RowLists(n), s # <<>>
  PROVE  /\ Run(col, s) \in RowLists(n) /\ Rest(col, s) \in RowLists(n)
         /\ Len(Rest(col, s)) < Len(s)
         /\ Run(col, s) = SubSeq(s, 1, RunEnd(col, s) - 1)
         /\ Rest(col, s) = SubSeq(s, RunEnd(col, s), Len(s))
<1>1. s \in Seq(1 .. n) /\ Len(s) \in Nat
  BY DEF RowLists
<1>2. PICK e : e = RunEnd(col, s)
  OBVIOUS
<1>3. e \in 2 .. Len(s) + 1
  <2>1. EndsRun(col, s, e)
    BY <1>1, <1>2, RunEndRight
  <2> QED BY <2>1 DEF EndsRun
<1>4. e - 1 \in Nat /\ e - 1 <= Len(s) /\ (e - 1) + 1 = e /\ Len(s) - (e - 1) < Len(s)
  BY <1>1, <1>3
<1>5. /\ FrontPart(s, e - 1) \in Seq(1 .. n)
      /\ BackPart(s, e - 1) \in Seq(1 .. n) /\ Len(BackPart(s, e - 1)) = Len(s) - (e - 1)
  BY <1>1, <1>4, TwoHalves
<1>6. Run(col, s) = FrontPart(s, e - 1) /\ Rest(col, s) = BackPart(s, e - 1)
  BY <1>2 DEF Run, Rest
<1>7. FrontPart(s, e - 1) = SubSeq(s, 1, e - 1) /\ BackPart(s, e - 1) = SubSeq(s, e, Len(s))
  BY <1>4 DEF FrontPart, BackPart
<1> QED BY <1>2, <1>4, <1>5, <1>6, <1>7 DEF RowLists

LEMMA SortRunsRecursion ==
  ASSUME NEW col, NEW n, Column(col, n), NEW next \in [RowLists(n) -> RowLists(n)]
  PROVE  /\ SortRuns(col, next) \in [RowLists(n) -> RowLists(n)]
         /\ \A s \in RowLists(n) :
              SortRuns(col, next)[s] = SortRunsBody(col, next, SortRuns(col, next), s)
<1> DEFINE S == RowLists(n)
           X == RowLists(n)
           m == SortRuns(col, next)
           Y == X \cup {m[s] : s \in S}
           mu == [s \in S |-> Len(s)]
           G == [s \in S |-> [f \in [S -> Y] |-> SortRunsBody(col, next, f, s)]]
           rest(s) == SubSeq(s, RunEnd(col, s), Len(s))
           front(s) == SubSeq(s, 1, RunEnd(col, s) - 1)
<1>0. n \in Nat /\ n = Len(col.val)
  BY DEF Column
<1>1. m = CHOOSE f : f = [s \in S |-> SortRunsBody(col, next, f, s)]
  BY <1>0 DEF SortRuns, SortRunsBody
<1>2. mu \in [S -> Nat] /\ \A s \in S : mu[s] = Len(s)
  BY DEF RowLists
<1>3. ASSUME NEW s \in S, s # <<>>
      PROVE  front(s) \in S /\ rest(s) \in S /\ mu[rest(s)] < mu[s]
  <2>1. front(s) \in S /\ rest(s) \in S /\ Len(rest(s)) < Len(s)
    BY <1>0, <1>3, RunAndRest
  <2> HIDE DEF S, mu, rest, front
  <2> QED BY <1>2, <2>1
<1>4. ASSUME NEW s \in S, NEW f \in [S -> X] PROVE SortRunsBody(col, next, f, s) \in X
  <2>1. \A r, q \in S : r \o q \in S
    BY ConcatProperties DEF RowLists
  <2>2. s # <<>> => next[front(s)] \o f[rest(s)] \in S
    <3> HIDE DEF front, rest
    <3>1. s # <<>> => next[front(s)] \in S /\ f[rest(s)] \in S
      BY <1>3
    <3> HIDE DEF S
    <3> QED BY <2>1, <3>1
  <2> QED BY <2>2 DEF SortRunsBody
<1>5. ASSUME NEW s \in S, NEW f, NEW g, \A t \in S : mu[t] < mu[s] => f[t] = g[t]
      PROVE  SortRunsBody(col, next, f, s) = SortRunsBody(col, next, g, s)
  <2>1. s # <<>> => f[rest(s)] = g[rest(s)]
    <3> HIDE DEF S, mu, rest, front
    <3> QED BY <1>3, <1>5
  <2> QED BY <2>1 DEF SortRunsBody
<1> HIDE DEF S, X, mu, m, rest, front
<1>7. Recursion(G, S, X, Y, mu)
  <2>1. \A f \in [S -> X] : f \in [S -> Y]
    OBVIOUS
  <2>2. \A s \in S : \A f \in [S -> Y] : G[s][f] = SortRunsBody(col, next, f, s)
    OBVIOUS
  <2> HIDE DEF Y, G
  <2>3. X \subseteq Y
    BY DEF Y
  <2>4. \A s \in S : \A f \in [S -> X] : G[s][f] \in X
    BY <2>1, <2>2, <1>4
  <2>5. \A s \in S : \A f, g \in [S -> Y] :
          (\A t \in S : mu[t] < mu[s] => f[t] = g[t]) => G[s][f] = G[s][g]
    BY <2>2, <1>5
  <2> QED BY <2>3, <2>4, <2>5, <1>2 DEF Recursion
<1>8. <<>> \in X
  BY DEF X, RowLists
<1>9. PICK f \in [S -> X] : f = [s \in S |-> G[s][f]]
  <2> HIDE DEF G, Y
  <2> QED BY <1>7, <1>8, RecursiveFunction
<1>10. f = [s \in S |-> SortRunsBody(col, next, f, s)]
  <2>1. f \in [S -> Y]
    OBVIOUS
  <2> HIDE DEF Y
  <2>2. \A s \in S : G[s][f] = SortRunsBody(col, next, f, s)
    BY <2>1
  <2> QED BY <1>9, <2>2
<1>11. m = [s \in S |-> SortRunsBody(col, next, m, s)]
  <2> HIDE DEF G, Y
  <2> QED BY <1>1, <1>10
<1>12. m \in [S -> Y] /\ \A s \in S : m[s] = G[s][m]
  <2>1. m \in [S -> Y]
    BY <1>11
  <2> HIDE DEF Y
  <2>2. \A s \in S : G[s][m] = SortRunsBody(col, next, m, s)
    BY <2>1
  <2> QED BY <1>11, <2>1, <2>2
<1>13. m \in [S -> X]
  <2> HIDE DEF G, Y
  <2> QED BY <1>7, <1>8, <1>12, RecursionTyped
<1>14. \A s \in S : m[s] = SortRunsBody(col, next, m, s)
  BY <1>11
<1> QED BY <1>13, <1>14 DEF m, S, X

----------------------------------------------------------------------------
(* The order of the rows of several columns.                               *)

Columns(cols, n) == n \in Nat /\ Len(cols) \in Nat /\ \A k \in 1 .. Len(cols) : Column(cols[k], n)

\* Row a comes before row b by the first of the columns from c on in which they differ.
Precedes(cols, c, a, b) ==
  \E k \in c .. Len(cols) :
    /\ \A l \in c .. k - 1 : ~ Differ(cols[l], a, b)
    /\ After(cols[k], b, a)

LexGood(cols, n, c, stable) ==
  {p \in (1 .. n) \X (1 .. n) :
     ~ Precedes(cols, c, p[2], p[1]) /\ (Precedes(cols, c, p[1], p[2]) \/ (stable => p[1] < p[2]))}

LEMMA LexGoodIs ==
  ASSUME NEW cols, NEW n, NEW c, NEW stable, NEW a \in 1 .. n, NEW b \in 1 .. n
  PROVE  <<a, b>> \in LexGood(cols, n, c, stable) <=>
           ~ Precedes(cols, c, b, a) /\ (Precedes(cols, c, a, b) \/ (stable => a < b))
BY DEF LexGood

LEMMA PrecedesBy ==
  ASSUME NEW cols, NEW n, Columns(cols, n), NEW c \in 1 .. Len(cols), NEW a \in 1 .. n, NEW b \in 1 .. n
  PROVE  Precedes(cols, c, a, b) <=>
           After(cols[c], b, a) \/ (~ Differ(cols[c], a, b) /\ Precedes(cols, c + 1, a, b))
<1>1. Len(cols) \in Nat /\ c \in c .. Len(cols)
  BY DEF Columns
<1>2. ASSUME After(cols[c], b, a) PROVE Precedes(cols, c, a, b)
  <2>1. \A l \in c .. c - 1 : ~ Differ(cols[l], a, b)
    BY <1>1
  <2> QED BY <1>1, <1>2, <2>1 DEF Precedes
<1>3. ASSUME ~ Differ(cols[c], a, b), Precedes(cols, c + 1, a, b) PROVE Precedes(cols, c, a, b)
  <2>1. PICK k \in c + 1 .. Len(cols) :
          (\A l \in c + 1 .. k - 1 : ~ Differ(cols[l], a, b)) /\ After(cols[k], b, a)
    BY <1>3 DEF Precedes
  <2>2. k \in c .. Len(cols) /\ \A l \in c .. k - 1 : l = c \/ l \in c + 1 .. k - 1
    BY <1>1
  <2> QED BY <1>3, <2>1, <2>2 DEF Precedes
<1>4. ASSUME Precedes(cols, c, a, b), ~ After(cols[c], b, a)
      PROVE  ~ Differ(cols[c], a, b) /\ Precedes(cols, c + 1, a, b)
  <2>1. PICK k \in c .. Len(cols) :
          (\A l \in c .. k - 1 : ~ Differ(cols[l], a, b)) /\ After(cols[k], b, a)
    BY <1>4 DEF Precedes
  <2>2. k # c
    BY <1>4, <2>1
  <2>3. k \in c + 1 .. Len(cols) /\ c \in c .. k - 1 /\ \A l \in c + 1 .. k - 1 : l \in c .. k - 1
    BY <1>1, <2>2
  <2> QED BY <2>1, <2>3 DEF Precedes
<1> QED BY <1>2, <1>3, <1>4

\* A sort by the columns from c on.
SortsBy(cols, n, c, stable, next) ==
  /\ next \in [RowLists(n) -> RowLists(n)]
  /\ \A s \in RowLists(n) : \A A \in SUBSET (1 .. n) :
       Arranges(s, A) /\ (stable => InOrder(s, Increasing)) =>
         Listed(next[s], A, LexGood(cols, n, c, stable))

LEMMA OrderedIsGrouped ==
  ASSUME NEW col, NEW n, Column(col, n), NEW stable, NEW A \in SUBSET (1 .. n), NEW s,
         Listed(s, A, Good(col, n, stable))
  PROVE  Grouped(col, s)
<1>1. s \in Seq(A) /\ Len(s) \in Nat /\ InOrder(s, Good(col, n, stable))
  BY DEF Listed, Arranges
<1>2. \A k \in 1 .. Len(s) : s[k] \in 1 .. n
  BY <1>1, ElementOfSeq
<1>3. ASSUME NEW k \in 1 .. Len(s), NEW l \in 1 .. Len(s), k <= l, Differ(col, s[1], s[k])
      PROVE  Differ(col, s[1], s[l])
  <2>1. 1 \in 1 .. Len(s) /\ 1 < k
    <3>1. k # 1
      BY <1>3 DEF Differ
    <3> QED BY <1>1, <3>1
  <2>2. PICK a \in 1 .. n, b \in 1 .. n, d \in 1 .. n : a = s[1] /\ b = s[k] /\ d = s[l]
    BY <1>2, <2>1
  <2>3. <<a, b>> \in Good(col, n, stable)
    BY <1>1, <2>1, <2>2 DEF InOrder
  <2>4. ~ After(col, a, b) /\ After(col, b, a)
    BY <1>3, <2>2, <2>3, ColumnOrder
  <2>5. k = l \/ <<b, d>> \in Good(col, n, stable)
    BY <1>1, <1>3, <2>2 DEF InOrder
  <2>6. k = l \/ ~ After(col, b, d)
    BY <2>5, ColumnOrder
  <2>7. k = l \/ After(col, d, a)
    BY <2>4, <2>6, AfterTransitive
  <2> QED BY <1>3, <2>2, <2>7, ColumnOrder
<1> QED BY <1>3 DEF Grouped

\* The rows of a run and of the rest.
RunSplits(col, n, stable, s, A, h, U, V) ==
  /\ h \in Nat /\ h <= Len(s)
  /\ Arranges(Run(col, s), U) /\ Arranges(Rest(col, s), V)
  /\ U \subseteq A /\ V \subseteq A /\ U \cap V = {} /\ U \cup V = A
  /\ stable => InOrder(Run(col, s), Increasing)
  /\ InOrder(Rest(col, s), Good(col, n, stable))
  /\ \A a, b \in U : ~ Differ(col, a, b)
  /\ \A a \in U, b \in V : After(col, b, a)

LEMMA RunSplit ==
  ASSUME NEW col, NEW n, Column(col, n), NEW stable, NEW A \in SUBSET (1 .. n), NEW s, s # <<>>,
         Listed(s, A, Good(col, n, stable)),
         NEW h, NEW U, NEW V,
         h = RunEnd(col, s) - 1, U = Part(s, 1, h), V = Part(s, h + 1, Len(s))
  PROVE  RunSplits(col, n, stable, s, A, h, U, V)
<1>1. s \in Seq(A) /\ Len(s) \in Nat /\ Arranges(s, A) /\ InOrder(s, Good(col, n, stable))
  BY DEF Listed, Arranges
<1>2. \A k \in 1 .. Len(s) : s[k] \in 1 .. n
  BY <1>1, ElementOfSeq
<1>3. PICK e : e = RunEnd(col, s)
  OBVIOUS
<1>4. e \in 2 .. Len(s) + 1 /\ Alike(col, s, e - 1) /\ Apart(col, s, e)
  <2>1. EndsRun(col, s, e)
    BY <1>1, <1>3, RunEndRight
  <2>2. Grouped(col, s)
    BY OrderedIsGrouped
  <2> QED BY <2>1, <2>2 DEF EndsRun
<1>5. h \in Nat /\ h <= Len(s) /\ h >= 1 /\ h + 1 = e /\ h = e - 1
  BY <1>1, <1>3, <1>4
<1>6. /\ Arranges(FrontPart(s, h), U) /\ Arranges(BackPart(s, h), V)
      /\ InOrder(FrontPart(s, h), Good(col, n, stable)) /\ InOrder(BackPart(s, h), Good(col, n, stable))
      /\ U \subseteq A /\ V \subseteq A /\ U \cap V = {} /\ U \cup V = A
  BY <1>1, <1>5, HalvesListed
<1>7. PICK u, v : u = Run(col, s) /\ v = Rest(col, s) /\ u = FrontPart(s, h) /\ v = BackPart(s, h)
  BY DEF Run, Rest
<1>8. ASSUME NEW a \in U
      PROVE  a \in 1 .. n /\ ~ Differ(col, s[1], a) /\ \E k \in 1 .. h : a = s[k]
  <2>1. PICK k \in 1 .. h : a = s[k]
    BY DEF Part
  <2>2. k \in 1 .. Len(s)
    BY <1>1, <1>5
  <2> QED BY <1>2, <1>4, <1>5, <2>1, <2>2 DEF Alike
<1>9. ASSUME NEW b \in V
      PROVE  b \in 1 .. n /\ Differ(col, s[1], b) /\ \E k \in h + 1 .. Len(s) : b = s[k]
  <2>1. PICK k \in h + 1 .. Len(s) : b = s[k]
    BY DEF Part
  <2>2. k \in 1 .. Len(s) /\ k \in e .. Len(s)
    BY <1>1, <1>5
  <2> QED BY <1>2, <1>4, <2>1, <2>2 DEF Apart
<1>10. \A a, b \in U : ~ Differ(col, a, b)
  BY <1>8 DEF Differ
<1>11. ASSUME NEW a \in U, NEW b \in V PROVE After(col, b, a)
  <2>1. PICK k \in 1 .. h, l \in h + 1 .. Len(s) : a = s[k] /\ b = s[l]
    BY <1>8, <1>9
  <2>2. k \in 1 .. Len(s) /\ l \in 1 .. Len(s) /\ k < l
    BY <1>1, <1>5
  <2>3. <<a, b>> \in Good(col, n, stable)
    BY <1>1, <2>1, <2>2 DEF InOrder
  <2>4. Differ(col, a, b)
    <3>1. ~ Differ(col, s[1], a) /\ Differ(col, s[1], b)
      BY <1>8, <1>9
    <3> QED BY <3>1 DEF Differ
  <2> QED BY <1>8, <1>9, <2>3, <2>4, ColumnOrder
<1>12. ASSUME stable PROVE InOrder(u, Increasing)
  <2>1. u \in Seq(U) /\ InOrder(u, Good(col, n, stable))
    BY <1>6, <1>7 DEF Arranges
  <2>2. ASSUME NEW i \in 1 .. Len(u), NEW j \in 1 .. Len(u), i < j PROVE <<u[i], u[j]>> \in Increasing
    <3>1. PICK a \in U, b \in U : a = u[i] /\ b = u[j]
      BY <2>1, ElementOfSeq
    <3>2. <<a, b>> \in Good(col, n, stable) /\ ~ Differ(col, a, b) /\ a \in 1 .. n /\ b \in 1 .. n
      BY <1>8, <1>10, <2>1, <2>2, <3>1 DEF InOrder
    <3>3. a < b
      BY <1>12, <3>2, ColumnOrder
    <3>4. a \in Nat /\ b \in Nat
      BY <3>2
    <3> QED BY <3>1, <3>3, <3>4 DEF Increasing
  <2> QED BY <2>2 DEF InOrder
<1> QED BY <1>5, <1>6, <1>7, <1>10, <1>11, <1>12 DEF RunSplits

LEMMA SortRunsSorts ==
  ASSUME NEW cols, NEW n, Columns(cols, n), NEW c \in 1 .. Len(cols), NEW stable \in BOOLEAN,
         NEW next, SortsBy(cols, n, c + 1, stable, next),
         NEW A \in SUBSET (1 .. n), NEW r, Listed(r, A, Good(cols[c], n, stable))
  PROVE  Listed(SortRuns(cols[c], next)[r], A, LexGood(cols, n, c, stable))
<1> DEFINE S == RowLists(n)
           col == cols[c]
           m == SortRuns(col, next)
           R == Good(col, n, stable)
           Q == LexGood(cols, n, c, stable)
           mu == [s \in S |-> Len(s)]
           Right(s) == \A C \in SUBSET (1 .. n) : Listed(s, C, R) => Listed(m[s], C, Q)
           T == {s \in S : ~ Right(s)}
<1>0. n \in Nat /\ Column(col, n) /\ next \in [S -> S]
  BY DEF Columns, SortsBy
<1>1. m \in [S -> S] /\ \A s \in S : m[s] = SortRunsBody(col, next, m, s)
  BY <1>0, SortRunsRecursion
<1>2. mu \in [S -> Nat] /\ \A s \in S : mu[s] = Len(s)
  BY DEF RowLists
<1>3. ASSUME NEW s \in S, \A t \in S : mu[t] < mu[s] => Right(t),
             NEW C \in SUBSET (1 .. n), Listed(s, C, R)
      PROVE  Listed(m[s], C, Q)
  <2>1. m[s] = SortRunsBody(col, next, m, s)
    BY <1>1
  <2>2. CASE s = <<>>
    <3>1. InOrder(s, Q)
      BY <2>2, NoneArranges
    <3> QED BY <1>3, <2>1, <2>2, <3>1 DEF SortRunsBody, Listed
  <2>3. CASE s # <<>>
    <3>1. PICK h, U, V : h = RunEnd(col, s) - 1 /\ U = Part(s, 1, h) /\ V = Part(s, h + 1, Len(s))
      OBVIOUS
    <3>2. PICK u, v : u = Run(col, s) /\ v = Rest(col, s)
      OBVIOUS
    <3>3. u \in S /\ v \in S /\ Len(v) < Len(s) /\ m[s] = next[u] \o m[v]
      <4>1. /\ u \in S /\ v \in S /\ Len(v) < Len(s)
            /\ u = SubSeq(s, 1, RunEnd(col, s) - 1) /\ v = SubSeq(s, RunEnd(col, s), Len(s))
        BY <1>0, <2>3, <3>2, RunAndRest
      <4> QED BY <2>1, <2>3, <4>1 DEF SortRunsBody
    <3>4. RunSplits(col, n, stable, s, C, h, U, V)
      <4> HIDE DEF S, mu, m, Q, Right, col
      <4> QED BY <1>0, <1>3, <2>3, <3>1, RunSplit
    <3>5. /\ Arranges(u, U) /\ Arranges(v, V)
          /\ U \subseteq C /\ V \subseteq C /\ U \cap V = {} /\ U \cup V = C
          /\ stable => InOrder(u, Increasing)
          /\ InOrder(v, R)
          /\ \A a, b \in U : ~ Differ(col, a, b)
          /\ \A a \in U, b \in V : After(col, b, a)
      BY <3>2, <3>4 DEF RunSplits
    <3>6. mu[v] < mu[s]
      <4> HIDE DEF S, mu
      <4> QED BY <1>2, <3>3
    <3>7. Listed(next[u], U, LexGood(cols, n, c + 1, stable))
      <4>1. U \in SUBSET (1 .. n)
        BY <3>5
      <4> QED BY <3>3, <3>5, <4>1 DEF SortsBy
    <3> HIDE DEF S, mu, m, Right
    <3>8. Listed(m[v], V, Q)
      <4>1. Right(v) /\ V \in SUBSET (1 .. n)
        BY <1>3, <3>3, <3>5, <3>6
      <4>2. Listed(v, V, R)
        BY <3>5 DEF Listed
      <4> QED BY <4>1, <4>2 DEF Right
    <3>9. \A a, b \in U : <<a, b>> \in LexGood(cols, n, c + 1, stable) => <<a, b>> \in Q
      <4> TAKE a, b \in U
      <4> HAVE <<a, b>> \in LexGood(cols, n, c + 1, stable)
      <4>1. a \in 1 .. n /\ b \in 1 .. n /\ ~ Differ(col, a, b) /\ ~ Differ(col, b, a)
        BY <3>5
      <4>2. ~ After(col, a, b) /\ ~ After(col, b, a)
        BY <1>0, <4>1, ColumnOrder
      <4>3. ~ Precedes(cols, c + 1, b, a) /\ (Precedes(cols, c + 1, a, b) \/ (stable => a < b))
        BY <4>1, LexGoodIs
      <4>4. Precedes(cols, c, a, b) <=> Precedes(cols, c + 1, a, b)
        BY <4>1, <4>2, PrecedesBy
      <4>5. Precedes(cols, c, b, a) <=> Precedes(cols, c + 1, b, a)
        BY <4>1, <4>2, PrecedesBy
      <4> QED BY <4>1, <4>3, <4>4, <4>5, LexGoodIs
    <3>10. \A a \in U, b \in V : <<a, b>> \in Q
      <4> TAKE a \in U, b \in V
      <4>1. a \in 1 .. n /\ b \in 1 .. n /\ After(col, b, a)
        BY <3>5
      <4>2. ~ After(col, a, b) /\ Differ(col, b, a)
        BY <1>0, <4>1, ColumnOrder
      <4>3. Precedes(cols, c, a, b)
        BY <4>1, PrecedesBy
      <4>4. ~ Precedes(cols, c, b, a)
        BY <4>1, <4>2, PrecedesBy
      <4> QED BY <4>1, <4>3, <4>4, LexGoodIs
    <3>11. PICK f, g : f = next[u] /\ g = m[v]
      OBVIOUS
    <3> HIDE DEF Q
    <3>12. Arranges(f, U) /\ InOrder(f, Q) /\ Arranges(g, V) /\ InOrder(g, Q)
      <4>1. Arranges(f, U) /\ InOrder(f, LexGood(cols, n, c + 1, stable)) /\ Arranges(g, V) /\ InOrder(g, Q)
        BY <3>7, <3>8, <3>11 DEF Listed
      <4> QED BY <3>9, <4>1, OrderWeaker
    <3>13. Arranges(f \o g, C) /\ InOrder(f \o g, Q)
      BY <3>5, <3>10, <3>12, ConcatArranges, ConcatInOrder
    <3> QED BY <3>3, <3>11, <3>13 DEF Listed
  <2> QED BY <2>2, <2>3
<1>4. ASSUME T # {} PROVE FALSE
  <2>1. T \subseteq S
    OBVIOUS
  <2>2. PICK s \in T : \A t \in T : mu[s] <= mu[t]
    <3> HIDE DEF T, S, mu
    <3> QED BY <1>2, <1>4, <2>1, LeastByMeasure
  <2>3. s \in S /\ ~ Right(s)
    OBVIOUS
  <2> HIDE DEF S, mu, Right
  <2>4. \A t \in S : mu[t] < mu[s] => ~ mu[s] <= mu[t]
    BY <1>2, <2>3
  <2>5. \A t \in S : mu[t] < mu[s] => Right(t)
    BY <2>2, <2>4
  <2>6. Right(s)
    <3>1. ASSUME NEW C \in SUBSET (1 .. n), Listed(s, C, R) PROVE Listed(m[s], C, Q)
      BY <1>3, <2>3, <2>5, <3>1
    <3> QED BY <3>1 DEF Right
  <2> QED BY <2>3, <2>6
<1>5. r \in S
  BY <1>0, ListHasRows DEF Listed
<1>6. Right(r)
  <2> HIDE DEF Right, S
  <2> QED BY <1>4, <1>5
<1> QED BY <1>6

SortListBody(cols, f, k) ==
  LET col == cols[Len(cols) - k + 1]
  IN  IF k = 0 THEN [rows \in RowLists(Height(cols)) |-> rows]
      ELSE [rows \in RowLists(Height(cols)) |-> SortRuns(col, f[k - 1])[SortColumn(col, rows)]]

SortLevels(cols) == CHOOSE f : f = [k \in 0 .. Len(cols) |-> SortListBody(cols, f, k)]

LEMMA LevelColumn ==
  ASSUME NEW cols, NEW n, Columns(cols, n), NEW k \in 0 .. Len(cols), k # 0
  PROVE  /\ Len(cols) - k + 1 \in 1 .. Len(cols) /\ Column(cols[Len(cols) - k + 1], n)
         /\ k - 1 \in 0 .. Len(cols) /\ k - 1 < k
         /\ (Len(cols) - k + 1) + 1 = Len(cols) - (k - 1) + 1
<1>1. PICK m \in Nat : m = Len(cols)
  BY DEF Columns
<1>2. m - k + 1 \in 1 .. m /\ k - 1 \in 0 .. m /\ k - 1 < k /\ (m - k + 1) + 1 = m - (k - 1) + 1
  BY <1>1
<1> QED BY <1>1, <1>2 DEF Columns

LEMMA SortLevelsRecursion ==
  ASSUME NEW cols, NEW n, Columns(cols, n), n = Height(cols)
  PROVE  /\ SortLevels(cols) \in [0 .. Len(cols) -> [RowLists(n) -> RowLists(n)]]
         /\ \A k \in 0 .. Len(cols) : SortLevels(cols)[k] = SortListBody(cols, SortLevels(cols), k)
<1> DEFINE L == RowLists(n)
           S == 0 .. Len(cols)
           X == [L -> L]
           m == SortLevels(cols)
           Y == X \cup {m[s] : s \in S}
           mu == [s \in S |-> s]
           G == [s \in S |-> [f \in [S -> Y] |-> SortListBody(cols, f, s)]]
           col(s) == cols[Len(cols) - s + 1]
<1>0. n \in Nat /\ Len(cols) \in Nat
  BY DEF Columns
<1>1. m = CHOOSE f : f = [s \in S |-> SortListBody(cols, f, s)]
  BY DEF SortLevels
<1>2. mu \in [S -> Nat] /\ \A s \in S : mu[s] = s
  BY <1>0
<1>3. ASSUME NEW s \in S, s # 0
      PROVE  s - 1 \in S /\ mu[s - 1] < mu[s] /\ Column(col(s), n)
  <2>1. s - 1 \in S /\ s - 1 < s /\ Column(col(s), n)
    BY <1>3, LevelColumn
  <2> HIDE DEF S, mu, col
  <2> QED BY <1>2, <2>1
<1>4. ASSUME NEW s \in S, NEW f \in [S -> X] PROVE SortListBody(cols, f, s) \in X
  <2>1. CASE s = 0
    <3>1. [rows \in L |-> rows] \in X
      OBVIOUS
    <3> QED BY <2>1, <3>1 DEF SortListBody
  <2>2. CASE s # 0
    <3>1. PICK d, next : d = col(s) /\ next = f[s - 1]
      OBVIOUS
    <3>2. Column(d, n) /\ next \in [RowLists(n) -> RowLists(n)]
      BY <1>3, <2>2, <3>1
    <3>3. SortRuns(d, next) \in [RowLists(n) -> RowLists(n)]
      BY <3>2, SortRunsRecursion
    <3>4. \A rows \in RowLists(n) : SortRuns(d, next)[SortColumn(d, rows)] \in RowLists(n)
      BY <3>2, <3>3, SortColumnTyped
    <3>5. [rows \in RowLists(n) |-> SortRuns(d, next)[SortColumn(d, rows)]] \in X
      BY <3>4
    <3>6. SortListBody(cols, f, s) = [rows \in RowLists(n) |-> SortRuns(d, next)[SortColumn(d, rows)]]
      BY <2>2, <3>1 DEF SortListBody
    <3> QED BY <3>5, <3>6
  <2> QED BY <2>1, <2>2
<1>5. ASSUME NEW s \in S, NEW f, NEW g, \A t \in S : mu[t] < mu[s] => f[t] = g[t]
      PROVE  SortListBody(cols, f, s) = SortListBody(cols, g, s)
  <2>1. s # 0 => f[s - 1] = g[s - 1]
    <3> HIDE DEF S, mu
    <3> QED BY <1>3, <1>5
  <2> QED BY <2>1 DEF SortListBody
<1> HIDE DEF S, X, mu, m, col
<1>7. Recursion(G, S, X, Y, mu)
  <2>1. \A f \in [S -> X] : f \in [S -> Y]
    OBVIOUS
  <2>2. \A s \in S : \A f \in [S -> Y] : G[s][f] = SortListBody(cols, f, s)
    OBVIOUS
  <2> HIDE DEF Y, G
  <2>3. X \subseteq Y
    BY DEF Y
  <2>4. \A s \in S : \A f \in [S -> X] : G[s][f] \in X
    BY <2>1, <2>2, <1>4
  <2>5. \A s \in S : \A f, g \in [S -> Y] :
          (\A t \in S : mu[t] < mu[s] => f[t] = g[t]) => G[s][f] = G[s][g]
    BY <2>2, <1>5
  <2> QED BY <2>3, <2>4, <2>5, <1>2 DEF Recursion
<1>8. [rows \in L |-> rows] \in X
  BY DEF X, X
<1>9. PICK f \in [S -> X] : f = [s \in S |-> G[s][f]]
  <2> HIDE DEF G, Y
  <2> QED BY <1>7, <1>8, RecursiveFunction
<1>10. f = [s \in S |-> SortListBody(cols, f, s)]
  <2>1. f \in [S -> Y]
    OBVIOUS
  <2> HIDE DEF Y
  <2>2. \A s \in S : G[s][f] = SortListBody(cols, f, s)
    BY <2>1
  <2> QED BY <1>9, <2>2
<1>11. m = [s \in S |-> SortListBody(cols, m, s)]
  <2> HIDE DEF G, Y
  <2> QED BY <1>1, <1>10
<1>12. m \in [S -> Y] /\ \A s \in S : m[s] = G[s][m]
  <2>1. m \in [S -> Y]
    BY <1>11
  <2> HIDE DEF Y
  <2>2. \A s \in S : G[s][m] = SortListBody(cols, m, s)
    BY <2>1
  <2> QED BY <1>11, <2>1, <2>2
<1>13. m \in [S -> X]
  <2> HIDE DEF G, Y
  <2> QED BY <1>7, <1>8, <1>12, RecursionTyped
<1>14. \A s \in S : m[s] = SortListBody(cols, m, s)
  BY <1>11
<1> QED BY <1>13, <1>14 DEF m, S, X

LEMMA SortListIs ==
  ASSUME NEW cols
  PROVE  SortList(cols) = SortLevels(cols)[Len(cols)]
BY DEF SortList, SortLevels, SortListBody

AllStable(cols) == \A k \in 1 .. Len(cols) : cols[k].isUp /\ cols[k].type \in {"i32", "i64"}

LEMMA SortLevelsSort ==
  ASSUME NEW cols, NEW n, Columns(cols, n), n = Height(cols), NEW stable \in BOOLEAN, stable => AllStable(cols),
         NEW r \in 0 .. Len(cols)
  PROVE  SortsBy(cols, n, Len(cols) - r + 1, stable, SortLevels(cols)[r])
<1> DEFINE S == 0 .. Len(cols)
           m == SortLevels(cols)
           c(k) == Len(cols) - k + 1
           Right(k) == SortsBy(cols, n, c(k), stable, m[k])
           T == {k \in S : ~ Right(k)}
<1>0. n \in Nat /\ Len(cols) \in Nat
  BY DEF Columns
<1>1. m \in [S -> [RowLists(n) -> RowLists(n)]] /\ \A k \in S : m[k] = SortListBody(cols, m, k)
  BY SortLevelsRecursion
<1>2. Right(0)
  <2>1. 0 \in S /\ c(0) = Len(cols) + 1
    BY <1>0
  <2>2. m[0] = [rows \in RowLists(n) |-> rows]
    BY <1>1, <2>1 DEF SortListBody
  <2>3. \A a, b : ~ Precedes(cols, Len(cols) + 1, a, b)
    BY <1>0 DEF Precedes
  <2>4. ASSUME NEW s \in RowLists(n), NEW A \in SUBSET (1 .. n),
               Arranges(s, A), stable => InOrder(s, Increasing)
        PROVE  Listed(s, A, LexGood(cols, n, Len(cols) + 1, stable))
    <3>1. s \in Seq(A) /\ \A k \in 1 .. Len(s) : s[k] \in 1 .. n
      <4>1. s \in Seq(A)
        BY <2>4 DEF Arranges
      <4> QED BY <4>1, ElementOfSeq
    <3>2. ASSUME NEW i \in 1 .. Len(s), NEW j \in 1 .. Len(s), i < j
          PROVE  <<s[i], s[j]>> \in LexGood(cols, n, Len(cols) + 1, stable)
      <4>1. stable => s[i] < s[j]
        BY <2>4, <3>2 DEF InOrder, Increasing
      <4> QED BY <2>3, <3>1, <4>1, LexGoodIs
    <3> QED BY <2>4, <3>2 DEF Listed, InOrder
  <2>5. m[0] \in [RowLists(n) -> RowLists(n)] /\ \A s \in RowLists(n) : m[0][s] = s
    BY <1>1, <2>1, <2>2
  <2> QED BY <2>1, <2>4, <2>5 DEF SortsBy
<1>3. ASSUME NEW k \in S, k # 0, Right(k - 1) PROVE Right(k)
  <2>1. /\ c(k) \in 1 .. Len(cols) /\ Column(cols[c(k)], n) /\ k - 1 \in S /\ c(k) + 1 = c(k - 1)
    BY <1>3, LevelColumn
  <2>2. PICK d, e, next : d = cols[c(k)] /\ e = c(k) /\ next = m[k - 1]
    OBVIOUS
  <2>3. e \in 1 .. Len(cols) /\ d = cols[e] /\ Column(d, n) /\ next \in [RowLists(n) -> RowLists(n)]
        /\ SortsBy(cols, n, e + 1, stable, next)
    BY <1>1, <1>3, <2>1, <2>2
  <2>4. m[k] = [rows \in RowLists(n) |-> SortRuns(d, next)[SortColumn(d, rows)]]
    BY <1>1, <1>3, <2>2 DEF SortListBody
  <2>5. ASSUME NEW s \in RowLists(n), NEW A \in SUBSET (1 .. n),
               Arranges(s, A), stable => InOrder(s, Increasing)
        PROVE  Listed(m[k][s], A, LexGood(cols, n, e, stable))
    <3>1. Sortable(d, n, stable, Good(d, n, stable), s, A)
      BY <2>3, <2>5 DEF Sortable
    <3>2. stable => d.isUp /\ d.type \in {"i32", "i64"}
      BY <2>3 DEF AllStable
    <3>3. Listed(SortColumn(d, s), A, Good(d, n, stable))
      BY <3>1, <3>2, SortColumnSorts
    <3>4. Listed(SortRuns(d, next)[SortColumn(d, s)], A, LexGood(cols, n, e, stable))
      BY <2>3, <3>3, SortRunsSorts
    <3> QED BY <2>4, <3>4
  <2>6. m[k] \in [RowLists(n) -> RowLists(n)]
    BY <1>1
  <2> QED BY <2>2, <2>5, <2>6 DEF SortsBy
<1>4. ASSUME T # {} PROVE FALSE
  <2>1. T \subseteq Nat
    BY <1>0
  <2>2. PICK k \in T : \A l \in T : k <= l
    <3> HIDE DEF T
    <3> QED BY <1>4, <2>1, LeastNatural
  <2>3. k \in S /\ ~ Right(k)
    OBVIOUS
  <2>4. k # 0
    BY <1>2, <2>3
  <2>5. k - 1 \in S /\ ~ k <= k - 1
    BY <1>0, <2>3, <2>4
  <2> HIDE DEF S, Right
  <2>6. Right(k - 1)
    BY <2>2, <2>5
  <2> QED BY <1>3, <2>3, <2>4, <2>6
<1>5. Right(r)
  <2> HIDE DEF Right
  <2> QED BY <1>4
<1> QED BY <1>5

LEMMA RowsArrange ==
  ASSUME NEW n \in Nat
  PROVE  /\ Rows(n) \in RowLists(n) /\ Arranges(Rows(n), 1 .. n) /\ InOrder(Rows(n), Increasing)
         /\ Len(Rows(n)) = n /\ \A r \in 1 .. n : Rows(n)[r] = r
<1>1. Rows(n) \in Seq(1 .. n) /\ Len(Rows(n)) = n /\ \A r \in 1 .. n : Rows(n)[r] = r
  BY DEF Rows
<1>2. Arranges(Rows(n), 1 .. n)
  BY <1>1 DEF Arranges
<1>3. InOrder(Rows(n), Increasing)
  BY <1>1 DEF InOrder, Increasing
<1> QED BY <1>1, <1>2, <1>3 DEF RowLists

LEMMA SortListSorts ==
  ASSUME NEW cols, NEW n, Columns(cols, n), n = Height(cols), NEW stable \in BOOLEAN, stable => AllStable(cols)
  PROVE  Listed(SortList(cols)[Rows(n)], 1 .. n, LexGood(cols, n, 1, stable))
<1>1. Len(cols) \in Nat /\ n \in Nat
  BY DEF Columns
<1>2. Len(cols) \in 0 .. Len(cols) /\ Len(cols) - Len(cols) + 1 = 1
  BY <1>1
<1>3. SortsBy(cols, n, 1, stable, SortList(cols))
  BY <1>2, SortLevelsSort, SortListIs
<1>4. 1 .. n \in SUBSET (1 .. n)
  OBVIOUS
<1> QED BY <1>1, <1>3, <1>4, RowsArrange DEF SortsBy

----------------------------------------------------------------------------
(* Digits.                                                                 *)

LEMMA DivMod ==
  ASSUME NEW a \in Int, NEW b \in Nat \ {0}
  PROVE  /\ a \div b \in Int /\ a % b \in Int /\ 0 <= a % b /\ a % b < b
         /\ a = b * (a \div b) + (a % b)
OBVIOUS

LEMMA MultiplesApart ==
  ASSUME NEW b \in Nat \ {0}, NEW q \in Int, NEW p \in Int, q < p
  PROVE  b * q + b <= b * p
OBVIOUS

LEMMA DivIs ==
  ASSUME NEW a \in Int, NEW b \in Nat \ {0}, NEW q \in Int, NEW r \in Int, 0 <= r, r < b, a = b * q + r
  PROVE  a \div b = q /\ a % b = r
<1>1. PICK p \in Int, t \in Int : p = a \div b /\ t = a % b /\ 0 <= t /\ t < b /\ a = b * p + t
  BY DivMod
<1>2. ~ p < q
  <2>1. p < q => b * p + b <= b * q
    BY MultiplesApart
  <2> QED BY <1>1, <2>1
<1>3. ~ q < p
  <2>1. q < p => b * q + b <= b * p
    BY MultiplesApart
  <2> QED BY <1>1, <2>1
<1>4. p = q
  BY <1>2, <1>3
<1> QED BY <1>1, <1>4

LEMMA PowerIs ==
  /\ Power \in [Nat -> Nat \ {0}] /\ Power[0] = 1
  /\ \A j \in Nat : Power[j + 1] = Base * Power[j]
<1> DEFINE Body(f, s) == IF s = 0 THEN 1 ELSE Base * f[s - 1]
           S == Nat
           X == Nat \ {0}
           m == Power
           Y == X \cup {m[s] : s \in S}
           mu == [s \in S |-> s]
           G == [s \in S |-> [f \in [S -> Y] |-> Body(f, s)]]
<1>0. Base \in Nat \ {0, 1}
  BY OrderingAssumption DEF OrderingAssumption
<1>1. m = CHOOSE f : f = [s \in S |-> Body(f, s)]
  BY DEF Power
<1>2. mu \in [S -> Nat] /\ \A s \in S : mu[s] = s
  OBVIOUS
<1>4. ASSUME NEW s \in S, NEW f \in [S -> X] PROVE Body(f, s) \in X
  <2>1. CASE s = 0
    BY <2>1
  <2>2. CASE s # 0
    <3>1. PICK x \in X : x = f[s - 1]
      BY <2>2
    <3>2. Base * x \in X
      BY <1>0
    <3> QED BY <2>2, <3>1, <3>2
  <2> QED BY <2>1, <2>2
<1>5. ASSUME NEW s \in S, NEW f, NEW g, \A t \in S : mu[t] < mu[s] => f[t] = g[t]
      PROVE  Body(f, s) = Body(g, s)
  <2>1. s # 0 => f[s - 1] = g[s - 1]
    <3>1. s # 0 => s - 1 \in S /\ mu[s - 1] < mu[s]
      OBVIOUS
    <3> HIDE DEF S, mu
    <3> QED BY <1>5, <3>1
  <2> QED BY <2>1
<1> HIDE DEF S, X, mu, m, Body
<1>7. Recursion(G, S, X, Y, mu)
  <2>1. \A f \in [S -> X] : f \in [S -> Y]
    OBVIOUS
  <2>2. \A s \in S : \A f \in [S -> Y] : G[s][f] = Body(f, s)
    OBVIOUS
  <2> HIDE DEF Y, G
  <2>3. X \subseteq Y
    BY DEF Y
  <2>4. \A s \in S : \A f \in [S -> X] : G[s][f] \in X
    BY <2>1, <2>2, <1>4
  <2>5. \A s \in S : \A f, g \in [S -> Y] :
          (\A t \in S : mu[t] < mu[s] => f[t] = g[t]) => G[s][f] = G[s][g]
    BY <2>2, <1>5
  <2> QED BY <2>3, <2>4, <2>5, <1>2 DEF Recursion
<1>8. 1 \in X
  BY DEF X, X
<1>9. PICK f \in [S -> X] : f = [s \in S |-> G[s][f]]
  <2> HIDE DEF G, Y
  <2> QED BY <1>7, <1>8, RecursiveFunction
<1>10. f = [s \in S |-> Body(f, s)]
  <2>1. f \in [S -> Y]
    OBVIOUS
  <2> HIDE DEF Y
  <2>2. \A s \in S : G[s][f] = Body(f, s)
    BY <2>1
  <2> QED BY <1>9, <2>2
<1>11. m = [s \in S |-> Body(m, s)]
  <2> HIDE DEF G, Y
  <2> QED BY <1>1, <1>10
<1>12. m \in [S -> Y] /\ \A s \in S : m[s] = G[s][m]
  <2>1. m \in [S -> Y]
    BY <1>11
  <2> HIDE DEF Y
  <2>2. \A s \in S : G[s][m] = Body(m, s)
    BY <2>1
  <2> QED BY <1>11, <2>1, <2>2
<1>13. m \in [S -> X]
  <2> HIDE DEF G, Y
  <2> QED BY <1>7, <1>8, <1>12, RecursionTyped
<1>14. \A s \in S : m[s] = Body(m, s)
  BY <1>11
<1> QED BY <1>13, <1>14 DEF m, S, X, Body

LEMMA ShiftRecursion ==
  ASSUME NEW x \in Int
  PROVE  /\ Shift(x) \in [Nat -> Int] /\ Shift(x)[0] = x
         /\ \A j \in Nat : Shift(x)[j + 1] = Shift(x)[j] \div Base
<1> DEFINE Body(f, s) == IF s = 0 THEN x ELSE f[s - 1] \div Base
           S == Nat
           X == Int
           m == Shift(x)
           Y == X \cup {m[s] : s \in S}
           mu == [s \in S |-> s]
           G == [s \in S |-> [f \in [S -> Y] |-> Body(f, s)]]
<1>0. Base \in Nat \ {0, 1}
  BY OrderingAssumption DEF OrderingAssumption
<1>1. m = CHOOSE f : f = [s \in S |-> Body(f, s)]
  BY DEF Shift
<1>2. mu \in [S -> Nat] /\ \A s \in S : mu[s] = s
  OBVIOUS
<1>4. ASSUME NEW s \in S, NEW f \in [S -> X] PROVE Body(f, s) \in X
  <2>1. CASE s = 0
    BY <2>1
  <2>2. CASE s # 0
    <3>1. PICK y \in X : y = f[s - 1]
      BY <2>2
    <3>2. y \div Base \in X
      BY <1>0
    <3> QED BY <2>2, <3>1, <3>2
  <2> QED BY <2>1, <2>2
<1>5. ASSUME NEW s \in S, NEW f, NEW g, \A t \in S : mu[t] < mu[s] => f[t] = g[t]
      PROVE  Body(f, s) = Body(g, s)
  <2>1. s # 0 => f[s - 1] = g[s - 1]
    <3>1. s # 0 => s - 1 \in S /\ mu[s - 1] < mu[s]
      OBVIOUS
    <3> HIDE DEF S, mu
    <3> QED BY <1>5, <3>1
  <2> QED BY <2>1
<1> HIDE DEF S, X, mu, m, Body
<1>7. Recursion(G, S, X, Y, mu)
  <2>1. \A f \in [S -> X] : f \in [S -> Y]
    OBVIOUS
  <2>2. \A s \in S : \A f \in [S -> Y] : G[s][f] = Body(f, s)
    OBVIOUS
  <2> HIDE DEF Y, G
  <2>3. X \subseteq Y
    BY DEF Y
  <2>4. \A s \in S : \A f \in [S -> X] : G[s][f] \in X
    BY <2>1, <2>2, <1>4
  <2>5. \A s \in S : \A f, g \in [S -> Y] :
          (\A t \in S : mu[t] < mu[s] => f[t] = g[t]) => G[s][f] = G[s][g]
    BY <2>2, <1>5
  <2> QED BY <2>3, <2>4, <2>5, <1>2 DEF Recursion
<1>8. x \in X
  BY DEF X, X
<1>9. PICK f \in [S -> X] : f = [s \in S |-> G[s][f]]
  <2> HIDE DEF G, Y
  <2> QED BY <1>7, <1>8, RecursiveFunction
<1>10. f = [s \in S |-> Body(f, s)]
  <2>1. f \in [S -> Y]
    OBVIOUS
  <2> HIDE DEF Y
  <2>2. \A s \in S : G[s][f] = Body(f, s)
    BY <2>1
  <2> QED BY <1>9, <2>2
<1>11. m = [s \in S |-> Body(m, s)]
  <2> HIDE DEF G, Y
  <2> QED BY <1>1, <1>10
<1>12. m \in [S -> Y] /\ \A s \in S : m[s] = G[s][m]
  <2>1. m \in [S -> Y]
    BY <1>11
  <2> HIDE DEF Y
  <2>2. \A s \in S : G[s][m] = Body(m, s)
    BY <2>1
  <2> QED BY <1>11, <2>1, <2>2
<1>13. m \in [S -> X]
  <2> HIDE DEF G, Y
  <2> QED BY <1>7, <1>8, <1>12, RecursionTyped
<1>14. \A s \in S : m[s] = Body(m, s)
  BY <1>11
<1> QED BY <1>13, <1>14 DEF m, S, X, Body

\* A division by a product.
LEMMA DivTwice ==
  ASSUME NEW x \in Int, NEW p \in Nat \ {0}, NEW b \in Nat \ {0}
  PROVE  /\ (x \div p) \div b = x \div (b * p)
         /\ x % (b * p) = (x % p) + p * ((x \div p) % b)
<1>1. PICK q \in Int, r \in Int : q = x \div p /\ r = x % p /\ 0 <= r /\ r < p /\ x = p * q + r
  BY DivMod
<1>2. PICK t \in Int, d \in Int : t = q \div b /\ d = q % b /\ 0 <= d /\ d < b /\ q = b * t + d
  BY DivMod
<1>3. p * d + r \in Int /\ 0 <= p * d + r /\ p * d + r < b * p
  <2>1. p * d + p <= p * b
    BY <1>2, MultiplesApart
  <2>2. 0 <= p * d
    BY <1>2
  <2>3. p * d \in Int /\ p * b = b * p /\ b * p \in Int
    OBVIOUS
  <2> QED BY <1>1, <2>1, <2>2, <2>3
<1>4. x = (b * p) * t + (p * d + r)
  <2>1. p * (b * t + d) = (b * p) * t + p * d
    OBVIOUS
  <2>2. (b * p) * t \in Int /\ p * d \in Int
    OBVIOUS
  <2>3. p * q = (b * p) * t + p * d
    BY ONLY <1>2, <2>1
  <2>4. p * q \in Int
    OBVIOUS
  <2>5. PICK k \in Int, l \in Int, n \in Int : k = p * q /\ l = (b * p) * t /\ n = p * d
    BY ONLY <2>2, <2>4
  <2>6. x = k + r /\ k = l + n
    BY ONLY <1>1, <2>3, <2>5
  <2>7. x = l + (n + r)
    BY <2>6
  <2> QED BY ONLY <2>5, <2>7
<1>5. b * p \in Nat \ {0}
  OBVIOUS
<1>6. x \div (b * p) = t /\ x % (b * p) = p * d + r
  <2>1. PICK w \in Nat \ {0}, u \in Int : w = b * p /\ u = p * d + r
    BY <1>3, <1>5
  <2>2. 0 <= u /\ u < w /\ x = w * t + u
    BY ONLY <1>3, <1>4, <2>1
  <2>3. x \div w = t /\ x % w = u
    BY ONLY <2>1, <2>2, <1>2, DivIs
  <2> QED BY ONLY <2>1, <2>3
<1>7. x % (b * p) = r + p * d
  <2>1. p * d \in Int
    OBVIOUS
  <2> QED BY <1>1, <1>6, <2>1
<1> QED BY <1>1, <1>2, <1>6, <1>7

LEMMA ShiftIs ==
  ASSUME NEW x \in Int, NEW i \in Nat
  PROVE  Shift(x)[i] = x \div Power[i]
<1> DEFINE Right(j) == Shift(x)[j] = x \div Power[j]
           T == {j \in Nat : ~ Right(j)}
<1>0. Base \in Nat \ {0}
  BY OrderingAssumption DEF OrderingAssumption
<1>1. Right(0)
  <2>1. x \div 1 = x
    OBVIOUS
  <2> QED BY <2>1, ShiftRecursion, PowerIs
<1>2. ASSUME NEW j \in Nat, Right(j) PROVE Right(j + 1)
  <2>1. PICK p \in Nat \ {0} : p = Power[j]
    BY PowerIs
  <2>2. (x \div p) \div Base = x \div (Base * p)
    BY <1>0, DivTwice
  <2> QED BY <1>2, <2>1, <2>2, ShiftRecursion, PowerIs
<1>3. ASSUME T # {} PROVE FALSE
  <2>1. T \subseteq Nat
    OBVIOUS
  <2>2. PICK k \in T : \A l \in T : k <= l
    <3> HIDE DEF T
    <3> QED BY <1>3, <2>1, LeastNatural
  <2>3. k \in Nat /\ ~ Right(k)
    OBVIOUS
  <2>4. k # 0
    BY <1>1, <2>3
  <2>5. k - 1 \in Nat /\ ~ k <= k - 1 /\ (k - 1) + 1 = k
    BY <2>3, <2>4
  <2> HIDE DEF Right
  <2>6. Right(k - 1)
    BY <2>2, <2>5
  <2> QED BY <1>2, <2>3, <2>5, <2>6
<1> QED BY <1>3

\* A number by its lower digits and the one above.
LEMMA DigitAbove ==
  ASSUME NEW x \in Int, NEW j \in Nat
  PROVE  /\ x % Power[j + 1] = (x % Power[j]) + Power[j] * Digit(x, j)
         /\ Power[j] \in Nat \ {0} /\ Digit(x, j) \in Int
         /\ x % Power[j] \in Int /\ 0 <= x % Power[j] /\ x % Power[j] < Power[j]
<1>0. Base \in Nat \ {0}
  BY OrderingAssumption DEF OrderingAssumption
<1>1. PICK p \in Nat \ {0} : p = Power[j]
  BY PowerIs
<1>2. Power[j + 1] = Base * p
  BY <1>1, PowerIs
<1>3. Digit(x, j) = (x \div p) % Base
  BY <1>1, ShiftIs DEF Digit
<1>4. x % (Base * p) = (x % p) + p * ((x \div p) % Base)
  BY <1>0, DivTwice
<1>5. (x \div p) % Base \in Int
  BY <1>0
<1>6. x % p \in Int /\ 0 <= x % p /\ x % p < p
  BY DivMod
<1> QED BY <1>1, <1>2, <1>3, <1>4, <1>5, <1>6

\* Numbers are compared by the upper digit first.
LEMMA CompareDigits ==
  ASSUME NEW x \in Int, NEW y \in Int, NEW j \in Nat
  PROVE  /\ Digit(x, j) < Digit(y, j) => x % Power[j + 1] < y % Power[j + 1]
         /\ Digit(x, j) = Digit(y, j) =>
              /\ x % Power[j + 1] < y % Power[j + 1] <=> x % Power[j] < y % Power[j]
              /\ x % Power[j + 1] = y % Power[j + 1] <=> x % Power[j] = y % Power[j]
<1>1. PICK p \in Nat \ {0} : p = Power[j]
  BY DigitAbove
<1>2. PICK a \in Int, b \in Int, u \in Int, w \in Int :
        a = x % p /\ b = y % p /\ u = Digit(x, j) /\ w = Digit(y, j)
  BY <1>1, DigitAbove
<1>3. x % Power[j + 1] = a + p * u /\ y % Power[j + 1] = b + p * w /\ 0 <= a /\ a < p /\ 0 <= b /\ b < p
  BY <1>1, <1>2, DigitAbove
<1>4. p * u \in Int /\ p * w \in Int
  OBVIOUS
<1>5. u < w => p * u + p <= p * w
  BY MultiplesApart
<1>6. u < w => a + p * u < b + p * w
  BY <1>3, <1>4, <1>5
<1>7. u = w => (a + p * u < b + p * w <=> a < b) /\ (a + p * u = b + p * w <=> a = b)
  BY <1>4
<1> QED BY <1>1, <1>2, <1>3, <1>6, <1>7

----------------------------------------------------------------------------
(* One pass of the radix sort.                                             *)

\* The places of a list of digits that a pass puts before place k, and k.
Upto(d, n, k) == {l \in 1 .. n : d[l] < d[k] \/ (d[l] = d[k] /\ l <= k)}

LEMMA UptoGrows ==
  ASSUME NEW n \in Nat, NEW d \in [1 .. n -> Int], NEW k \in 1 .. n
  PROVE  /\ IsFiniteSet(Upto(d, n, k)) /\ Cardinality(Upto(d, n, k)) \in 1 .. n
         /\ \A l \in 1 .. n : d[k] < d[l] \/ (d[k] = d[l] /\ k < l) =>
              Cardinality(Upto(d, n, k)) < Cardinality(Upto(d, n, l))
<1>1. IsFiniteSet(1 .. n) /\ Cardinality(1 .. n) = n
  BY FS_Interval
<1>2. \A l \in 1 .. n : /\ IsFiniteSet(Upto(d, n, l)) /\ Cardinality(Upto(d, n, l)) \in Nat
                        /\ Cardinality(Upto(d, n, l)) <= n
  <2> TAKE l \in 1 .. n
  <2>1. Upto(d, n, l) \in SUBSET (1 .. n)
    BY DEF Upto
  <2>2. IsFiniteSet(Upto(d, n, l)) /\ Cardinality(Upto(d, n, l)) <= n
    BY <1>1, <2>1, FS_Subset
  <2> QED BY <2>2, FS_CardinalityType
<1>3. Cardinality(Upto(d, n, k)) # 0
  <2>1. k \in Upto(d, n, k)
    BY DEF Upto
  <2> QED BY <1>2, <2>1, FS_EmptySet
<1>4. ASSUME NEW l \in 1 .. n, d[k] < d[l] \/ (d[k] = d[l] /\ k < l)
      PROVE  Cardinality(Upto(d, n, k)) < Cardinality(Upto(d, n, l))
  <2>1. d[k] \in Int /\ d[l] \in Int
    OBVIOUS
  <2>2. Upto(d, n, k) \in SUBSET Upto(d, n, l)
    <3> SUFFICES ASSUME NEW i \in Upto(d, n, k) PROVE i \in Upto(d, n, l)
      OBVIOUS
    <3>1. i \in 1 .. n /\ d[i] \in Int /\ (d[i] < d[k] \/ (d[i] = d[k] /\ i <= k))
      BY DEF Upto
    <3>2. d[i] < d[l] \/ (d[i] = d[l] /\ i <= l)
      BY <1>4, <2>1, <3>1
    <3> QED BY <3>1, <3>2 DEF Upto
  <2>3. l \in Upto(d, n, l) /\ l \notin Upto(d, n, k)
    BY <1>4, <2>1 DEF Upto
  <2>4. Cardinality(Upto(d, n, k)) <= Cardinality(Upto(d, n, l))
        /\ Cardinality(Upto(d, n, k)) # Cardinality(Upto(d, n, l))
    BY <1>2, <2>2, <2>3, FS_Subset
  <2>5. Cardinality(Upto(d, n, k)) \in Nat /\ Cardinality(Upto(d, n, l)) \in Nat
    BY <1>2
  <2> QED BY <2>4, <2>5
<1>5. Cardinality(Upto(d, n, k)) \in 1 .. n
  BY <1>2, <1>3
<1> QED BY <1>2, <1>4, <1>5

\* The number of a place after the pass.
Ranked(n, d, rank) ==
  /\ rank \in [1 .. n -> 1 .. n]
  /\ \A k, l \in 1 .. n : rank[k] = rank[l] => k = l
  /\ \A k, l \in 1 .. n : rank[k] < rank[l] => d[k] < d[l] \/ (d[k] = d[l] /\ k < l)
  /\ \A p \in 1 .. n : \E k \in 1 .. n : rank[k] = p

LEMMA RankBijection ==
  ASSUME NEW n \in Nat, NEW d \in [1 .. n -> Int], NEW rank,
         rank = [k \in 1 .. n |-> Cardinality(Upto(d, n, k))]
  PROVE  Ranked(n, d, rank)
<1>1. rank \in [1 .. n -> 1 .. n] /\ \A k \in 1 .. n : rank[k] = Cardinality(Upto(d, n, k))
  BY UptoGrows
<1>2. \A k, l \in 1 .. n : d[k] < d[l] \/ (d[k] = d[l] /\ k < l) => rank[k] < rank[l]
  BY <1>1, UptoGrows
<1>3. ASSUME NEW k \in 1 .. n, NEW l \in 1 .. n
      PROVE  /\ rank[k] = rank[l] => k = l
             /\ rank[k] < rank[l] => d[k] < d[l] \/ (d[k] = d[l] /\ k < l)
  <2>1. rank[k] \in Int /\ rank[l] \in Int /\ d[k] \in Int /\ d[l] \in Int
    BY <1>1
  <2>2. \/ d[k] < d[l] \/ (d[k] = d[l] /\ k < l)
        \/ d[l] < d[k] \/ (d[l] = d[k] /\ l < k)
        \/ k = l
    BY <2>1
  <2> QED BY <1>2, <2>1, <2>2
<1>4. rank \in Injection(1 .. n, 1 .. n)
  <2>1. DOMAIN rank = 1 .. n /\ rank \in [1 .. n -> 1 .. n]
    BY <1>1
  <2>2. \A k, l \in 1 .. n : rank[k] = rank[l] => k = l
    BY <1>3
  <2> QED BY ONLY <2>1, <2>2 DEF Injection, IsInjective
<1>5. IsFiniteSet(1 .. n)
  BY FS_Interval
<1>6. rank \in Surjection(1 .. n, 1 .. n)
  BY <1>4, <1>5, FS_Injection
<1> QED BY <1>1, <1>3, <1>6 DEF Surjection, Ranked


\* What a pass does.
Passed(v, rows, j, t) ==
  /\ Len(t) = Len(rows)
  /\ \E from \in [1 .. Len(rows) -> 1 .. Len(rows)] :
       /\ \A p \in 1 .. Len(rows) : t[p] = rows[from[p]]
       /\ \A k \in 1 .. Len(rows) : \E p \in 1 .. Len(rows) : from[p] = k
       /\ \A p, q \in 1 .. Len(rows) : p < q =>
            \/ Digit(v[rows[from[p]]], j) < Digit(v[rows[from[q]]], j)
            \/ Digit(v[rows[from[p]]], j) = Digit(v[rows[from[q]]], j) /\ from[p] < from[q]

LEMMA PassIs ==
  ASSUME NEW v \in Seq(Int), NEW rows \in Seq(1 .. Len(v)), NEW j \in Nat
  PROVE  Passed(v, rows, j, Pass(v, rows, j)) /\ Pass(v, rows, j) \in Seq(1 .. Len(v))
<1>1. PICK n \in Nat : n = Len(rows)
  OBVIOUS
<1>2. DOMAIN rows = 1 .. n /\ \A k \in 1 .. n : rows[k] \in 1 .. Len(v)
  BY <1>1
<1> DEFINE d == [k \in 1 .. n |-> Digit(v[rows[k]], j)]
           rank == [k \in 1 .. n |-> Cardinality(Upto(d, n, k))]
           from == [p \in 1 .. n |-> CHOOSE k \in DOMAIN rows : Place(v, rows, j, k) = p]
           t == [p \in 1 .. n |-> rows[from[p]]]
<1>3. d \in [1 .. n -> Int] /\ \A k \in 1 .. n : d[k] = Digit(v[rows[k]], j)
  <2>1. \A k \in 1 .. n : Digit(v[rows[k]], j) \in Int
    <3> TAKE k \in 1 .. n
    <3>1. v[rows[k]] \in Int
      BY <1>2
    <3> QED BY <3>1, DigitAbove
  <2> QED BY <2>1
<1>4. \A k \in 1 .. n : Place(v, rows, j, k) = rank[k]
  <2>1. \A k \in 1 .. n : {l \in DOMAIN rows : \/ Digit(v[rows[l]], j) < Digit(v[rows[k]], j)
                                               \/ Digit(v[rows[l]], j) = Digit(v[rows[k]], j) /\ l <= k}
                          = Upto(d, n, k)
    <3> HIDE DEF d
    <3> QED BY <1>2, <1>3 DEF Upto
  <2> HIDE DEF d
  <2> QED BY <2>1 DEF Place
<1>5. /\ rank \in [1 .. n -> 1 .. n]
      /\ \A k, l \in 1 .. n : rank[k] = rank[l] => k = l
      /\ \A k, l \in 1 .. n : rank[k] < rank[l] => d[k] < d[l] \/ (d[k] = d[l] /\ k < l)
      /\ \A p \in 1 .. n : \E k \in 1 .. n : rank[k] = p
  <2> HIDE DEF d
  <2>1. rank = [k \in 1 .. n |-> Cardinality(Upto(d, n, k))]
    OBVIOUS
  <2> HIDE DEF rank
  <2>2. Ranked(n, d, rank)
    BY <1>3, <2>1, RankBijection
  <2> QED BY <2>2 DEF Ranked
<1> HIDE DEF rank, d
<1>6. /\ from \in [1 .. n -> 1 .. n] /\ \A p \in 1 .. n : rank[from[p]] = p
  <2>1. \A p \in 1 .. n : \E k \in DOMAIN rows : Place(v, rows, j, k) = p
    <3> TAKE p \in 1 .. n
    <3>1. PICK k \in 1 .. n : rank[k] = p
      BY <1>5
    <3>2. k \in DOMAIN rows /\ Place(v, rows, j, k) = p
      BY <1>2, <1>4, <3>1
    <3> QED BY <3>2
  <2>2. \A p \in 1 .. n : from[p] \in DOMAIN rows /\ Place(v, rows, j, from[p]) = p
    BY <2>1
  <2> QED BY <1>2, <1>4, <2>2
<1>7. \A k \in 1 .. n : from[rank[k]] = k
  <2> TAKE k \in 1 .. n
  <2>1. PICK p \in 1 .. n : p = rank[k]
    BY <1>5
  <2>2. PICK l \in 1 .. n : l = from[p]
    BY <1>6
  <2>3. rank[l] = rank[k]
    BY <1>6, <2>1, <2>2
  <2>4. l = k
    BY <1>5, <2>3
  <2> QED BY <2>1, <2>2, <2>4
<1>8. t \in Seq(1 .. Len(v)) /\ Len(t) = n
  <2> HIDE DEF from
  <2>1. \A p \in 1 .. n : rows[from[p]] \in 1 .. Len(v)
    BY <1>2, <1>6
  <2>2. t \in [1 .. n -> 1 .. Len(v)]
    BY <2>1
  <2> HIDE DEF t
  <2> QED BY ONLY <2>2, n \in Nat
<1>9. Pass(v, rows, j) = t
  <2>1. [p \in DOMAIN rows |-> rows[CHOOSE k \in DOMAIN rows : Place(v, rows, j, k) = p]] = t
    BY <1>2
  <2>2. SubSeq(t, 1, n) = t
    <3> HIDE DEF t
    <3> QED BY <1>8
  <2> HIDE DEF t
  <2> QED BY <1>1, <2>1, <2>2 DEF Pass
<1>10. \A p \in 1 .. n : t[p] = rows[from[p]]
  OBVIOUS
<1> HIDE DEF t, from
<1>11. \A k \in 1 .. n : \E p \in 1 .. n : from[p] = k
  BY <1>5, <1>7
<1>12. ASSUME NEW p \in 1 .. n, NEW q \in 1 .. n, p < q
       PROVE  \/ Digit(v[rows[from[p]]], j) < Digit(v[rows[from[q]]], j)
              \/ Digit(v[rows[from[p]]], j) = Digit(v[rows[from[q]]], j) /\ from[p] < from[q]
  <2>1. PICK k \in 1 .. n, l \in 1 .. n : k = from[p] /\ l = from[q]
    BY <1>6
  <2>2. rank[k] < rank[l]
    BY <1>6, <1>12, <2>1
  <2>3. d[k] < d[l] \/ (d[k] = d[l] /\ k < l)
    BY <1>5, <2>2
  <2> QED BY <1>3, <2>1, <2>3
<1>13. Passed(v, rows, j, t)
  BY <1>1, <1>6, <1>8, <1>10, <1>11, <1>12 DEF Passed
<1> QED BY <1>8, <1>9, <1>13

\* Row a may stand before row b after the passes by the j lower digits.
LowGood(v, j) ==
  {p \in (1 .. Len(v)) \X (1 .. Len(v)) :
     \/ v[p[1]] % Power[j] < v[p[2]] % Power[j]
     \/ v[p[1]] % Power[j] = v[p[2]] % Power[j] /\ p[1] < p[2]}

LEMMA PassSorts ==
  ASSUME NEW v \in Seq(Int), NEW rows, NEW j \in Nat, NEW A, A = 1 .. Len(v), Listed(rows, A, LowGood(v, j))
  PROVE  Listed(Pass(v, rows, j), A, LowGood(v, j + 1))
<1>1. rows \in Seq(A) /\ Arranges(rows, A) /\ InOrder(rows, LowGood(v, j))
  BY DEF Listed, Arranges
<1>2. PICK n \in Nat : n = Len(rows)
  BY <1>1
<1>3. PICK t : t = Pass(v, rows, j)
  OBVIOUS
<1>4. Passed(v, rows, j, t) /\ t \in Seq(A)
  BY <1>1, <1>3, PassIs
<1>5. PICK from \in [1 .. n -> 1 .. n] :
       /\ \A p \in 1 .. n : t[p] = rows[from[p]]
       /\ \A k \in 1 .. n : \E p \in 1 .. n : from[p] = k
       /\ \A p, q \in 1 .. n : p < q =>
            \/ Digit(v[rows[from[p]]], j) < Digit(v[rows[from[q]]], j)
            \/ Digit(v[rows[from[p]]], j) = Digit(v[rows[from[q]]], j) /\ from[p] < from[q]
  BY <1>2, <1>4 DEF Passed
<1>6. Len(t) = n
  BY <1>2, <1>4 DEF Passed
<1>7. /\ \A k \in 1 .. n : rows[k] \in A
      /\ \A k, l \in 1 .. n : rows[k] = rows[l] => k = l
      /\ \A a \in A : \E k \in 1 .. n : rows[k] = a
  <2>1. Arranges(rows, A) /\ n = Len(rows) /\ n \in Nat
    BY <1>1, <1>2
  <2> QED BY ONLY <2>1 DEF Arranges
<1>8. ASSUME NEW p \in 1 .. n, NEW q \in 1 .. n, t[p] = t[q] PROVE p = q
  <2>1. PICK k \in 1 .. n, l \in 1 .. n : k = from[p] /\ l = from[q]
    OBVIOUS
  <2>9. t[p] = rows[k] /\ t[q] = rows[l]
    BY <1>5, <2>1
  <2>2. k = l
    BY <1>7, <1>8, <2>9
  <2>3. ~ k < l /\ ~ l < k
    BY <2>2
  <2>4. rows[k] \in A
    BY <1>7
  <2>5. PICK x \in Int : x = Digit(v[rows[k]], j)
    <3>1. v[rows[k]] \in Int
      BY <2>4
    <3> QED BY <3>1, DigitAbove
  <2>6. ~ x < x
    OBVIOUS
  <2>7. ~ p < q
    BY <1>5, <2>1, <2>2, <2>3, <2>5, <2>6
  <2>8. ~ q < p
    BY <1>5, <2>1, <2>2, <2>3, <2>5, <2>6
  <2> QED BY <2>7, <2>8
<1>9. \A a \in A : \E p \in 1 .. n : t[p] = a
  <2> TAKE a \in A
  <2>1. PICK k \in 1 .. n : rows[k] = a
    BY <1>7
  <2>2. PICK p \in 1 .. n : from[p] = k
    BY <1>5
  <2> QED BY <1>5, <2>1, <2>2
<1>10. ASSUME NEW p \in 1 .. n, NEW q \in 1 .. n, p < q
       PROVE  <<t[p], t[q]>> \in LowGood(v, j + 1)
  <2>1. PICK k \in 1 .. n, l \in 1 .. n : k = from[p] /\ l = from[q]
    OBVIOUS
  <2>2. PICK a \in A, b \in A : a = rows[k] /\ b = rows[l] /\ a = t[p] /\ b = t[q]
    <3>1. rows[k] \in A /\ rows[l] \in A
      BY <1>7
    <3>2. t[p] = rows[k] /\ t[q] = rows[l]
      BY <1>5, <2>1
    <3> QED BY <3>1, <3>2
  <2>3. Digit(v[a], j) < Digit(v[b], j) \/ (Digit(v[a], j) = Digit(v[b], j) /\ k < l)
    <3>1. \/ Digit(v[rows[from[p]]], j) < Digit(v[rows[from[q]]], j)
          \/ Digit(v[rows[from[p]]], j) = Digit(v[rows[from[q]]], j) /\ from[p] < from[q]
      BY <1>5, <1>10
    <3> QED BY <2>1, <2>2, <3>1
  <2>4. PICK x \in Int, y \in Int : x = v[a] /\ y = v[b]
    <3>1. v[a] \in Int /\ v[b] \in Int
      BY <2>2, ElementOfSeq
    <3> QED BY <3>1
  <2>5. CASE Digit(x, j) < Digit(y, j)
    <3>1. x % Power[j + 1] < y % Power[j + 1]
      BY <2>5, CompareDigits
    <3> QED BY <2>2, <2>4, <3>1 DEF LowGood
  <2>6. CASE Digit(x, j) = Digit(y, j) /\ k < l
    <3>1. <<a, b>> \in LowGood(v, j)
      BY <1>1, <1>2, <2>2, <2>6 DEF InOrder
    <3>2. x % Power[j] < y % Power[j] \/ (x % Power[j] = y % Power[j] /\ a < b)
      BY <2>4, <3>1 DEF LowGood
    <3>3. x % Power[j + 1] < y % Power[j + 1] \/ (x % Power[j + 1] = y % Power[j + 1] /\ a < b)
      BY <2>6, <3>2, CompareDigits
    <3> QED BY <2>2, <2>4, <3>3 DEF LowGood
  <2> QED BY <2>3, <2>4, <2>5, <2>6
<1>11. Arranges(t, A)
  BY <1>4, <1>6, <1>8, <1>9 DEF Arranges
<1>12. InOrder(t, LowGood(v, j + 1))
  BY <1>6, <1>10 DEF InOrder
<1> QED BY <1>3, <1>11, <1>12 DEF Listed

PassesBody(v, f, j) == IF j = 0 THEN Rows(Len(v)) ELSE Pass(v, f[j - 1], j - 1)
Passes(v) == CHOOSE f : f = [j \in Nat |-> PassesBody(v, f, j)]
DigitsOf(v, long) ==
  IF long /\ \E r \in DOMAIN v : Shift(v[r])[Digits] > 0 THEN 2 * Digits ELSE Digits

LEMMA RadixSortIs ==
  ASSUME NEW v, NEW long
  PROVE  RadixSort(v, long) = Passes(v)[DigitsOf(v, long)]
BY DEF RadixSort, Passes, PassesBody, DigitsOf

LEMMA PassesRecursion ==
  ASSUME NEW v \in Seq(Int)
  PROVE  /\ Passes(v) \in [Nat -> RowLists(Len(v))]
         /\ \A j \in Nat : Passes(v)[j] = PassesBody(v, Passes(v), j)
<1> DEFINE S == Nat
           X == RowLists(Len(v))
           m == Passes(v)
           Y == X \cup {m[s] : s \in S}
           mu == [s \in S |-> s]
           G == [s \in S |-> [f \in [S -> Y] |-> PassesBody(v, f, s)]]
<1>1. m = CHOOSE f : f = [s \in S |-> PassesBody(v, f, s)]
  BY DEF Passes
<1>2. mu \in [S -> Nat] /\ \A s \in S : mu[s] = s
  OBVIOUS
<1>4. ASSUME NEW s \in S, NEW f \in [S -> X] PROVE PassesBody(v, f, s) \in X
  <2>1. CASE s = 0
    <3>1. Rows(Len(v)) \in X
      BY RowsArrange
    <3> QED BY <2>1, <3>1 DEF PassesBody
  <2>2. CASE s # 0
    <3>1. s - 1 \in Nat
      BY <2>2
    <3>2. PICK rows \in X : rows = f[s - 1]
      BY <3>1
    <3>3. Pass(v, rows, s - 1) \in X
      BY <3>1, PassIs DEF RowLists
    <3> QED BY <2>2, <3>2, <3>3 DEF PassesBody
  <2> QED BY <2>1, <2>2
<1>5. ASSUME NEW s \in S, NEW f, NEW g, \A t \in S : mu[t] < mu[s] => f[t] = g[t]
      PROVE  PassesBody(v, f, s) = PassesBody(v, g, s)
  <2>1. s # 0 => f[s - 1] = g[s - 1]
    <3>1. s # 0 => s - 1 \in S /\ mu[s - 1] < mu[s]
      OBVIOUS
    <3> HIDE DEF S, mu
    <3> QED BY <1>5, <3>1
  <2> QED BY <2>1 DEF PassesBody
<1> HIDE DEF S, X, mu, m
<1>7. Recursion(G, S, X, Y, mu)
  <2>1. \A f \in [S -> X] : f \in [S -> Y]
    OBVIOUS
  <2>2. \A s \in S : \A f \in [S -> Y] : G[s][f] = PassesBody(v, f, s)
    OBVIOUS
  <2> HIDE DEF Y, G
  <2>3. X \subseteq Y
    BY DEF Y
  <2>4. \A s \in S : \A f \in [S -> X] : G[s][f] \in X
    BY <2>1, <2>2, <1>4
  <2>5. \A s \in S : \A f, g \in [S -> Y] :
          (\A t \in S : mu[t] < mu[s] => f[t] = g[t]) => G[s][f] = G[s][g]
    BY <2>2, <1>5
  <2> QED BY <2>3, <2>4, <2>5, <1>2 DEF Recursion
<1>8. <<>> \in X
  BY DEF X, RowLists
<1>9. PICK f \in [S -> X] : f = [s \in S |-> G[s][f]]
  <2> HIDE DEF G, Y
  <2> QED BY <1>7, <1>8, RecursiveFunction
<1>10. f = [s \in S |-> PassesBody(v, f, s)]
  <2>1. f \in [S -> Y]
    OBVIOUS
  <2> HIDE DEF Y
  <2>2. \A s \in S : G[s][f] = PassesBody(v, f, s)
    BY <2>1
  <2> QED BY <1>9, <2>2
<1>11. m = [s \in S |-> PassesBody(v, m, s)]
  <2> HIDE DEF G, Y
  <2> QED BY <1>1, <1>10
<1>12. m \in [S -> Y] /\ \A s \in S : m[s] = G[s][m]
  <2>1. m \in [S -> Y]
    BY <1>11
  <2> HIDE DEF Y
  <2>2. \A s \in S : G[s][m] = PassesBody(v, m, s)
    BY <2>1
  <2> QED BY <1>11, <2>1, <2>2
<1>13. m \in [S -> X]
  <2> HIDE DEF G, Y
  <2> QED BY <1>7, <1>8, <1>12, RecursionTyped
<1>14. \A s \in S : m[s] = PassesBody(v, m, s)
  BY <1>11
<1> QED BY <1>13, <1>14 DEF m, S, X

LEMMA PassesSort ==
  ASSUME NEW v \in Seq(Int), NEW i \in Nat
  PROVE  Listed(Passes(v)[i], 1 .. Len(v), LowGood(v, i))
<1> DEFINE A == 1 .. Len(v)
           m == Passes(v)
           Right(j) == Listed(m[j], A, LowGood(v, j))
           T == {j \in Nat : ~ Right(j)}
<1>1. \A j \in Nat : m[j] = PassesBody(v, m, j)
  BY PassesRecursion
<1>2. Right(0)
  <2>1. m[0] = Rows(Len(v))
    BY <1>1 DEF PassesBody
  <2>2. Power[0] = 1
    BY PowerIs
  <2>3. \A a, b \in A : <<a, b>> \in Increasing => <<a, b>> \in LowGood(v, 0)
    <3> TAKE a, b \in A
    <3> HAVE <<a, b>> \in Increasing
    <3>1. a < b
      BY DEF Increasing
    <3>2. PICK x \in Int, y \in Int : x = v[a] /\ y = v[b]
      <4>1. v[a] \in Int /\ v[b] \in Int
        BY ElementOfSeq
      <4> QED BY <4>1
    <3>3. x % 1 = 0 /\ y % 1 = 0
      OBVIOUS
    <3> QED BY <2>2, <3>1, <3>2, <3>3 DEF LowGood
  <2>4. Arranges(Rows(Len(v)), A) /\ InOrder(Rows(Len(v)), Increasing)
    BY RowsArrange
  <2> HIDE DEF A, m
  <2>5. InOrder(Rows(Len(v)), LowGood(v, 0))
    BY <2>3, <2>4, OrderWeaker
  <2> QED BY <2>1, <2>4, <2>5 DEF Listed
<1>3. ASSUME NEW j \in Nat, Right(j) PROVE Right(j + 1)
  <2>1. m[j + 1] = Pass(v, m[j], j)
    <3>1. j + 1 \in Nat /\ j + 1 # 0 /\ (j + 1) - 1 = j
      OBVIOUS
    <3> QED BY <1>1, <3>1 DEF PassesBody
  <2>2. PICK rows, t : rows = m[j] /\ t = m[j + 1]
    OBVIOUS
  <2>3. Listed(Pass(v, rows, j), A, LowGood(v, j + 1))
    BY <1>3, <2>2, PassSorts
  <2> QED BY <2>1, <2>2, <2>3
<1>4. ASSUME T # {} PROVE FALSE
  <2>1. T \subseteq Nat
    OBVIOUS
  <2>2. PICK k \in T : \A l \in T : k <= l
    <3> HIDE DEF T
    <3> QED BY <1>4, <2>1, LeastNatural
  <2>3. k \in Nat /\ ~ Right(k)
    OBVIOUS
  <2>4. k # 0
    BY <1>2, <2>3
  <2>5. k - 1 \in Nat /\ ~ k <= k - 1 /\ (k - 1) + 1 = k
    BY <2>3, <2>4
  <2> HIDE DEF Right
  <2>6. Right(k - 1)
    BY <2>2, <2>5
  <2> QED BY <1>3, <2>3, <2>5, <2>6
<1>5. Right(i)
  <2> HIDE DEF Right
  <2> QED BY <1>4
<1> QED BY <1>5

\* The digits are those of two factors.
LEMMA PowerSum ==
  ASSUME NEW a \in Nat, NEW i \in Nat
  PROVE  Power[a + i] = Power[a] * Power[i]
<1> DEFINE Right(j) == Power[a + j] = Power[a] * Power[j]
           T == {j \in Nat : ~ Right(j)}
<1>1. PICK p \in Nat \ {0} : p = Power[a]
  BY PowerIs
<1>2. Right(0)
  <2>1. a + 0 = a /\ p * 1 = p
    OBVIOUS
  <2> QED BY <1>1, <2>1, PowerIs
<1>3. ASSUME NEW j \in Nat, Right(j) PROVE Right(j + 1)
  <2>1. PICK q \in Nat \ {0} : q = Power[j]
    BY PowerIs
  <2>2. PICK b \in Nat : b = Base
    BY OrderingAssumption DEF OrderingAssumption
  <2>3. Power[j + 1] = b * q
    BY <2>1, <2>2, PowerIs
  <2>4. Power[(a + j) + 1] = b * (p * q)
    <3>1. Power[a + j] = p * q /\ a + j \in Nat
      BY <1>1, <1>3, <2>1
    <3> QED BY <2>2, <3>1, PowerIs
  <2>5. b * (p * q) = p * (b * q) /\ (a + j) + 1 = a + (j + 1)
    OBVIOUS
  <2> QED BY <1>1, <2>3, <2>4, <2>5
<1>4. ASSUME T # {} PROVE FALSE
  <2>1. T \subseteq Nat
    OBVIOUS
  <2>2. PICK k \in T : \A l \in T : k <= l
    <3> HIDE DEF T
    <3> QED BY <1>4, <2>1, LeastNatural
  <2>3. k \in Nat /\ ~ Right(k)
    OBVIOUS
  <2>4. k # 0
    BY <1>2, <2>3
  <2>5. k - 1 \in Nat /\ ~ k <= k - 1 /\ (k - 1) + 1 = k
    BY <2>3, <2>4
  <2> HIDE DEF Right
  <2>6. Right(k - 1)
    BY <2>2, <2>5
  <2> QED BY <1>3, <2>3, <2>5, <2>6
<1>5. Right(i)
  <2> HIDE DEF Right
  <2> QED BY <1>4
<1> QED BY <1>5

LEMMA HalfIs == Half \in Nat \ {0} /\ Power[Digits] = Half /\ Power[2 * Digits] = Half * Half
<1>1. Digits \in Nat /\ 2 * Digits = Digits + Digits
  BY OrderingAssumption DEF OrderingAssumption
<1>2. Power[2 * Digits] = Power[Digits] * Power[Digits]
  BY <1>1, PowerSum
<1> QED BY <1>1, <1>2, PowerIs DEF Half

\* Numbers below a power are all digits.
LEMMA SmallMod ==
  ASSUME NEW x \in Int, NEW p \in Nat \ {0}, 0 <= x, x < p
  PROVE  x % p = x
<1>1. x = p * 0 + x
  OBVIOUS
<1> QED BY <1>1, DivIs

\* Numbers that the digits of a radix sort tell in full.
AllDigits(v, long) ==
  \A r \in 1 .. Len(v) : 0 <= v[r] /\ v[r] < IF long THEN Half * Half ELSE Half

LEMMA DigitsSuffice ==
  ASSUME NEW v \in Seq(Int), NEW long \in BOOLEAN, AllDigits(v, long), NEW r \in 1 .. Len(v)
  PROVE  v[r] % Power[DigitsOf(v, long)] = v[r]
<1>1. PICK x \in Int : x = v[r]
  <2>1. v[r] \in Int
    BY ElementOfSeq
  <2> QED BY <2>1
<1>2. PICK h \in Nat \ {0} : h = Half /\ Power[Digits] = h /\ Power[2 * Digits] = h * h
  BY HalfIs
<1>3. 0 <= x /\ x < IF long THEN h * h ELSE h
  BY <1>1, <1>2 DEF AllDigits
<1>4. CASE long /\ \E q \in DOMAIN v : Shift(v[q])[Digits] > 0
  <2>1. h * h \in Nat \ {0}
    OBVIOUS
  <2>2. x % (h * h) = x
    BY <1>3, <1>4, <2>1, SmallMod
  <2> QED BY <1>1, <1>2, <1>4, <2>2 DEF DigitsOf
<1>5. CASE ~ (long /\ \E q \in DOMAIN v : Shift(v[q])[Digits] > 0)
  <2>1. x < h
    <3>1. CASE ~ long
      BY <1>3, <3>1
    <3>2. CASE long
      <4>1. ~ Shift(x)[Digits] > 0
        BY <1>1, <1>5, <3>2
      <4>2. Shift(x)[Digits] = x \div h
        BY <1>2, ShiftIs, OrderingAssumption DEF OrderingAssumption
      <4>3. PICK q \in Int : q = x \div h
        OBVIOUS
      <4>4. PICK t \in Int : t < h /\ x = h * q + t
        BY <4>3, DivMod
      <4>5. ~ q > 0
        BY <4>1, <4>2, <4>3
      <4>6. h * q <= 0
        BY <4>5
      <4>7. h * q \in Int
        OBVIOUS
      <4> QED BY <4>4, <4>6, <4>7
    <3> QED BY <3>1, <3>2
  <2>2. x % h = x
    BY <1>3, <2>1, SmallMod
  <2>3. DigitsOf(v, long) = Digits
    BY <1>5 DEF DigitsOf
  <2> QED BY <1>1, <1>2, <2>2, <2>3
<1> QED BY <1>4, <1>5

LEMMA RadixSortLists ==
  ASSUME NEW v \in Seq(Int), NEW long \in BOOLEAN
  PROVE  Listed(RadixSort(v, long), 1 .. Len(v), LowGood(v, DigitsOf(v, long)))
<1>1. DigitsOf(v, long) \in Nat
  BY OrderingAssumption DEF OrderingAssumption, DigitsOf
<1> QED BY <1>1, PassesSort, RadixSortIs

\* Row a may stand before row b: it does not have the greater number and, of equal
\* ones, comes first.
UpGood(v) ==
  {p \in (1 .. Len(v)) \X (1 .. Len(v)) : v[p[1]] < v[p[2]] \/ (v[p[1]] = v[p[2]] /\ p[1] < p[2])}
\* Equal ones stay as they are.
SameStay(v) == {p \in (1 .. Len(v)) \X (1 .. Len(v)) : v[p[1]] = v[p[2]] => p[1] < p[2]}

LEMMA RadixSortUp ==
  ASSUME NEW v \in Seq(Int), NEW long \in BOOLEAN, AllDigits(v, long)
  PROVE  Listed(RadixSort(v, long), 1 .. Len(v), UpGood(v))
<1>1. PICK s, p, A : s = RadixSort(v, long) /\ p = Power[DigitsOf(v, long)] /\ A = 1 .. Len(v)
  OBVIOUS
<1>2. Arranges(s, A) /\ InOrder(s, LowGood(v, DigitsOf(v, long)))
  BY <1>1, RadixSortLists DEF Listed
<1>3. \A a \in A : v[a] % p = v[a]
  BY <1>1, DigitsSuffice
<1>4. \A a, b \in A : <<a, b>> \in LowGood(v, DigitsOf(v, long)) => <<a, b>> \in UpGood(v)
  <2> TAKE a, b \in A
  <2> HAVE <<a, b>> \in LowGood(v, DigitsOf(v, long))
  <2>1. v[a] % p < v[b] % p \/ (v[a] % p = v[b] % p /\ a < b)
    BY <1>1 DEF LowGood
  <2>2. v[a] < v[b] \/ (v[a] = v[b] /\ a < b)
    BY <1>3, <2>1
  <2> QED BY <1>1, <2>2 DEF UpGood
<1>5. InOrder(s, UpGood(v))
  BY <1>2, <1>4, OrderWeaker
<1> QED BY <1>1, <1>2, <1>5 DEF Listed

LEMMA RadixSorts ==
  ASSUME NEW col, NEW n, Column(col, n), NEW long \in BOOLEAN, AllDigits(col.val, long),
         NEW stable \in BOOLEAN, stable => col.isUp
  PROVE  Listed(Radix(col.val, long, col.isUp), 1 .. n, Good(col, n, stable))
<1>1. PICK v, s, A : v = col.val /\ s = RadixSort(v, long) /\ A = 1 .. n
  OBVIOUS
<1>2. v \in Seq(Int) /\ Len(v) = n /\ \A a \in A : v[a] \in Int
  <2>1. v \in Seq(Int) /\ Len(v) = n
    BY <1>1 DEF Column
  <2> QED BY <1>1, <2>1, ElementOfSeq
<1>3. Arranges(s, A) /\ InOrder(s, UpGood(v))
  BY <1>1, <1>2, RadixSortUp DEF Listed
<1>4. CASE col.isUp
  <2>1. \A a, b \in A : <<a, b>> \in UpGood(v) => <<a, b>> \in Good(col, n, stable)
    <3> TAKE a, b \in A
    <3> HAVE <<a, b>> \in UpGood(v)
    <3>1. v[a] < v[b] \/ (v[a] = v[b] /\ a < b)
      BY DEF UpGood
    <3>2. ~ After(col, a, b) /\ (After(col, b, a) \/ a < b)
      BY <1>1, <1>2, <1>4, <3>1 DEF After
    <3> QED BY <1>1, <3>2, ColumnOrder
  <2>2. InOrder(s, Good(col, n, stable))
    BY <1>3, <2>1, OrderWeaker
  <2> QED BY <1>1, <1>3, <1>4, <2>2 DEF Radix, Listed
<1>5. CASE ~ col.isUp
  <2>1. \A a, b \in A : <<a, b>> \in UpGood(v) => <<b, a>> \in Good(col, n, stable)
    <3> TAKE a, b \in A
    <3> HAVE <<a, b>> \in UpGood(v)
    <3>1. v[a] < v[b] \/ (v[a] = v[b] /\ a < b)
      BY DEF UpGood
    <3>2. ~ After(col, b, a)
      BY <1>1, <1>2, <1>5, <3>1 DEF After
    <3> QED BY <1>1, <1>5, <3>2, ColumnOrder
  <2>2. Arranges(Reverse(s), A) /\ InOrder(Reverse(s), Good(col, n, stable))
    BY <1>3, <2>1, ReverseArranges
  <2> QED BY <1>1, <1>5, <2>2 DEF Radix, Listed
<1> QED BY <1>4, <1>5

LEMMA RadixStable ==
  ASSUME NEW v \in Seq(Int), NEW long \in BOOLEAN
  PROVE  Listed(Radix(v, long, TRUE), 1 .. Len(v), SameStay(v))
<1>1. PICK s, A : s = RadixSort(v, long) /\ A = 1 .. Len(v)
  OBVIOUS
<1>2. Arranges(s, A) /\ InOrder(s, LowGood(v, DigitsOf(v, long)))
  BY <1>1, RadixSortLists DEF Listed
<1>3. \A a, b \in A : <<a, b>> \in LowGood(v, DigitsOf(v, long)) => <<a, b>> \in SameStay(v)
  <2> TAKE a, b \in A
  <2> HAVE <<a, b>> \in LowGood(v, DigitsOf(v, long))
  <2>1. PICK p \in Nat \ {0} : p = Power[DigitsOf(v, long)]
    <3>1. DigitsOf(v, long) \in Nat
      BY OrderingAssumption DEF OrderingAssumption, DigitsOf
    <3> QED BY <3>1, PowerIs
  <2>2. v[a] % p < v[b] % p \/ (v[a] % p = v[b] % p /\ a < b)
    BY <2>1 DEF LowGood
  <2>3. v[a] \in Int /\ v[b] \in Int
    BY <1>1, ElementOfSeq
  <2>4. v[a] = v[b] => a < b
    <3>1. PICK x \in Int, y \in Int : x = v[a] % p /\ y = v[b] % p
      BY <2>3, DivMod
    <3>2. x < y \/ (x = y /\ a < b)
      BY <2>2, <3>1
    <3>3. v[a] = v[b] => x = y
      BY <3>1
    <3> QED BY <3>2, <3>3
  <2> QED BY <1>1, <2>4 DEF SameStay
<1>4. InOrder(s, SameStay(v))
  BY <1>2, <1>3, OrderWeaker
<1> QED BY <1>1, <1>2, <1>4 DEF Radix, Listed

----------------------------------------------------------------------------
(* @order.                                                                 *)

LEMMA OperandColumns ==
  ASSUME NEW cols, Operand(cols), NEW n, n = Height(cols)
  PROVE  /\ Columns(cols, n) /\ DOMAIN cols = 1 .. Len(cols)
         /\ \A k \in 1 .. Len(cols) : \A r \in 1 .. n :
              /\ cols[k].val[r] \in Int
              /\ cols[k].type = "i32" => -Half <= 2 * cols[k].val[r] /\ 2 * cols[k].val[r] < Half
              /\ cols[k].type = "i64" =>
                   -(Half * Half) <= 2 * cols[k].val[r] /\ 2 * cols[k].val[r] < Half * Half
<1> DEFINE C == [type : {"i32", "i64", "other"}, val : Seq(Int), isUp : BOOLEAN]
<1>1. cols \in Seq(C) /\ Len(cols) \in Nat /\ DOMAIN cols = 1 .. Len(cols)
  <2>1. cols \in Seq(C)
    BY DEF Operand
  <2> HIDE DEF C
  <2> QED BY <2>1
<1>2. \A k \in 1 .. Len(cols) : cols[k] \in C
  <2> HIDE DEF C
  <2> QED BY <1>1, ElementOfSeq
<1>3. \A k \in 1 .. Len(cols) : Len(cols[k].val) = n /\ cols[k].val \in Seq(Int)
  BY <1>1, <1>2 DEF Operand
<1>4. n \in Nat
  <2>1. CASE cols = <<>>
    BY <2>1 DEF Height
  <2>2. CASE cols # <<>>
    <3>1. 1 \in 1 .. Len(cols)
      <4> HIDE DEF C
      <4> QED BY <1>1, <2>2
    <3> QED BY <1>3, <3>1
  <2> QED BY <2>1, <2>2
<1>5. Columns(cols, n)
  BY <1>1, <1>2, <1>3, <1>4 DEF Columns, Column
<1>6. ASSUME NEW k \in 1 .. Len(cols), NEW r \in 1 .. n
      PROVE  /\ cols[k].val[r] \in Int
             /\ cols[k].type = "i32" => -Half <= 2 * cols[k].val[r] /\ 2 * cols[k].val[r] < Half
             /\ cols[k].type = "i64" =>
                  -(Half * Half) <= 2 * cols[k].val[r] /\ 2 * cols[k].val[r] < Half * Half
  <2>1. cols[k].val \in Seq(Int) /\ r \in DOMAIN cols[k].val /\ k \in DOMAIN cols
    BY <1>1, <1>3
  <2>2. cols[k].val[r] \in Int
    BY <2>1
  <2> QED BY <2>1, <2>2 DEF Operand
<1> QED BY <1>1, <1>5, <1>6

\* The operators of the properties, for any list of columns.
KeyedBy(cols, r, q) == \A k \in DOMAIN cols : cols[k].val[r] = cols[k].val[q]
TakesDigits(cols) == Packs(cols) \/ (Len(cols) = 1 /\ cols[1].type # "other")
NoneNegative(cols) == \A k \in DOMAIN cols : \A r \in DOMAIN cols[k].val : cols[k].val[r] >= 0

LEMMA NoneNegativeIs ==
  ASSUME NEW cols, Operand(cols), NEW n, n = Height(cols), NoneNegative(cols),
         NEW k \in 1 .. Len(cols), NEW r \in 1 .. n
  PROVE  cols[k].val[r] >= 0
<1>1. Columns(cols, n) /\ DOMAIN cols = 1 .. Len(cols)
  BY OperandColumns
<1>2. cols[k].val \in Seq(Int) /\ Len(cols[k].val) = n
  BY <1>1 DEF Columns, Column
<1>3. r \in DOMAIN cols[k].val /\ k \in DOMAIN cols
  BY <1>1, <1>2
<1> QED BY <1>3 DEF NoneNegative

\* The order of a column that orders the rows as the list does.
LEMMA GoodIsLex ==
  ASSUME NEW cols, NEW col, NEW n, Column(col, n), NEW stable, NEW A \in SUBSET (1 .. n), NEW s,
         Listed(s, A, Good(col, n, stable)),
         \A a, b \in 1 .. n : After(col, b, a) <=> Precedes(cols, 1, a, b)
  PROVE  Listed(s, A, LexGood(cols, n, 1, stable))
<1>1. \A a, b \in A : <<a, b>> \in Good(col, n, stable) => <<a, b>> \in LexGood(cols, n, 1, stable)
  <2> TAKE a, b \in A
  <2> HAVE <<a, b>> \in Good(col, n, stable)
  <2>1. a \in 1 .. n /\ b \in 1 .. n
    OBVIOUS
  <2>2. ~ After(col, a, b) /\ (After(col, b, a) \/ (stable => a < b))
    BY <2>1, ColumnOrder
  <2>3. ~ Precedes(cols, 1, b, a) /\ (Precedes(cols, 1, a, b) \/ (stable => a < b))
    BY <2>1, <2>2
  <2> QED BY <2>1, <2>3, LexGoodIs
<1>2. Arranges(s, A) /\ InOrder(s, Good(col, n, stable))
  BY DEF Listed
<1>3. s \in Seq(A) /\ \A i \in 1 .. Len(s) : s[i] \in A
  BY <1>2 DEF Arranges
<1>4. InOrder(s, LexGood(cols, n, 1, stable))
  <2>1. ASSUME NEW i \in 1 .. Len(s), NEW j \in 1 .. Len(s), i < j
        PROVE  <<s[i], s[j]>> \in LexGood(cols, n, 1, stable)
    <3>1. <<s[i], s[j]>> \in Good(col, n, stable)
      BY <1>2, <2>1 DEF InOrder
    <3> QED BY <1>1, <1>3, <3>1
  <2> QED BY <2>1 DEF InOrder
<1> QED BY <1>2, <1>4 DEF Listed

LEMMA OneColumn ==
  ASSUME NEW cols, NEW n, Columns(cols, n), Len(cols) = 1, NEW a \in 1 .. n, NEW b \in 1 .. n
  PROVE  After(cols[1], b, a) <=> Precedes(cols, 1, a, b)
<1>1. ~ Precedes(cols, 2, a, b)
  BY DEF Precedes
<1>2. 1 \in 1 .. Len(cols) /\ 1 + 1 = 2
  OBVIOUS
<1>3. Precedes(cols, 1, a, b) <=>
        After(cols[1], b, a) \/ (~ Differ(cols[1], a, b) /\ Precedes(cols, 1 + 1, a, b))
  BY <1>2, PrecedesBy
<1> QED BY <1>1, <1>2, <1>3

LEMMA TwoColumns ==
  ASSUME NEW cols, NEW n, Columns(cols, n), Len(cols) = 2, NEW a \in 1 .. n, NEW b \in 1 .. n
  PROVE  Precedes(cols, 1, a, b) <=>
           After(cols[1], b, a) \/ (~ Differ(cols[1], a, b) /\ After(cols[2], b, a))
<1>1. ~ Precedes(cols, 3, a, b)
  BY DEF Precedes
<1>2. 1 \in 1 .. Len(cols) /\ 1 + 1 = 2 /\ 2 \in 1 .. Len(cols) /\ 2 + 1 = 3
  OBVIOUS
<1>3. Precedes(cols, 1, a, b) <=>
        After(cols[1], b, a) \/ (~ Differ(cols[1], a, b) /\ Precedes(cols, 1 + 1, a, b))
  BY <1>2, PrecedesBy
<1>4. Precedes(cols, 2, a, b) <=>
        After(cols[2], b, a) \/ (~ Differ(cols[2], a, b) /\ Precedes(cols, 2 + 1, a, b))
  BY <1>2, PrecedesBy
<1> QED BY <1>1, <1>2, <1>3, <1>4

\* Two digits each below h are compared as the number they make.
LEMMA PairOrder ==
  ASSUME NEW h \in Nat \ {0}, NEW x \in Int, NEW y \in Int, NEW u \in Int, NEW w \in Int,
         0 <= y, y < h, 0 <= w, w < h
  PROVE  x * h + y < u * h + w <=> x < u \/ (x = u /\ y < w)
<1>1. x * h = h * x /\ u * h = h * u /\ h * x \in Int /\ h * u \in Int
  OBVIOUS
<1>2. x < u => h * x + h <= h * u
  BY MultiplesApart
<1>3. u < x => h * u + h <= h * x
  BY MultiplesApart
<1>4. PICK k \in Int, l \in Int : k = x * h /\ l = u * h
  BY <1>1
<1>5. CASE x < u
  <2>1. k + h <= l
    BY <1>1, <1>2, <1>4, <1>5
  <2>2. k + y < l + w
    BY <2>1
  <2> QED BY ONLY <1>4, <1>5, <2>2
<1>6. CASE u < x
  <2>1. l + h <= k
    BY <1>1, <1>3, <1>4, <1>6
  <2>2. ~ k + y < l + w
    BY <2>1
  <2>3. ~ x < u /\ x # u
    BY <1>6
  <2> QED BY ONLY <1>4, <2>2, <2>3
<1>7. CASE x = u
  <2>1. k = l
    BY <1>4, <1>7
  <2>2. k + y < l + w <=> y < w
    BY <2>1
  <2>3. ~ x < u
    BY <1>7
  <2> QED BY ONLY <1>4, <1>7, <2>2, <2>3
<1> QED BY <1>5, <1>6, <1>7

LEMMA PackedIs ==
  ASSUME NEW cols, Operand(cols), NEW n, n = Height(cols), Packs(cols)
  PROVE  /\ Packed(cols) \in Seq(Int) /\ Len(Packed(cols)) = n /\ n \in Nat
         /\ \A r \in 1 .. n : Packed(cols)[r] = IF cols[2].val[r] < 0 THEN cols[2].val[r]
                                                ELSE cols[1].val[r] * Half + cols[2].val[r]
<1>1. Columns(cols, n) /\ Len(cols) = 2 /\ n \in Nat
  BY OperandColumns DEF Columns, Packs
<1>2. 1 \in 1 .. Len(cols) /\ 2 \in 1 .. Len(cols)
  BY <1>1
<1>3. \A r \in 1 .. n : cols[1].val[r] \in Int /\ cols[2].val[r] \in Int
  BY <1>2, OperandColumns
<1>4. Half \in Int
  BY HalfIs
<1>5. Packed(cols) = [r \in 1 .. n |-> IF cols[2].val[r] < 0 THEN cols[2].val[r]
                                       ELSE cols[1].val[r] * Half + cols[2].val[r]]
  BY DEF Packed
<1>6. \A r \in 1 .. n : (IF cols[2].val[r] < 0 THEN cols[2].val[r]
                         ELSE cols[1].val[r] * Half + cols[2].val[r]) \in Int
  <2> TAKE r \in 1 .. n
  <2>1. PICK x \in Int, y \in Int : x = cols[1].val[r] /\ y = cols[2].val[r]
    BY <1>3
  <2>2. x * Half + y \in Int
    BY <1>4
  <2> QED BY <2>1, <2>2
<1>7. Packed(cols) \in [1 .. n -> Int]
  BY <1>5, <1>6
<1> QED BY <1>1, <1>5, <1>7

LEMMA PackedColumn ==
  ASSUME NEW cols, Operand(cols), NEW n, n = Height(cols), Packs(cols), NoneNegative(cols),
         NEW col, col = [type |-> "i64", val |-> Packed(cols), isUp |-> cols[1].isUp]
  PROVE  /\ Column(col, n) /\ AllDigits(col.val, TRUE)
         /\ \A a, b \in 1 .. n : After(col, b, a) <=> Precedes(cols, 1, a, b)
<1>1. Columns(cols, n) /\ Len(cols) = 2 /\ n \in Nat
  BY OperandColumns DEF Columns, Packs
<1>2. 1 \in 1 .. Len(cols) /\ 2 \in 1 .. Len(cols)
  BY <1>1
<1>3. cols[1].isUp \in BOOLEAN /\ cols[2].isUp = cols[1].isUp /\ cols[1].type = "i32" /\ cols[2].type = "i32"
  <2>1. cols[1].isUp \in BOOLEAN
    BY <1>1, <1>2 DEF Columns, Column
  <2> QED BY <2>1 DEF Packs
<1>4. Column(col, n)
  <2>1. Packed(cols) \in Seq(Int) /\ Len(Packed(cols)) = n
    BY PackedIs
  <2> QED BY <1>1, <1>3, <2>1 DEF Column
<1>5. Half \in Nat \ {0}
  BY HalfIs
<1>6. \A r \in 1 .. n : /\ cols[1].val[r] \in Int /\ cols[2].val[r] \in Int
                        /\ 0 <= cols[1].val[r] /\ 2 * cols[1].val[r] < Half
                        /\ 0 <= cols[2].val[r] /\ 2 * cols[2].val[r] < Half
  <2> TAKE r \in 1 .. n
  <2>1. /\ cols[1].val[r] \in Int /\ cols[2].val[r] \in Int
        /\ 2 * cols[1].val[r] < Half /\ 2 * cols[2].val[r] < Half
    BY <1>2, <1>3, OperandColumns
  <2>2. cols[1].val[r] >= 0 /\ cols[2].val[r] >= 0
    BY <1>2, NoneNegativeIs
  <2> QED BY <2>1, <2>2
<1>7. \A r \in 1 .. n : col.val[r] = cols[1].val[r] * Half + cols[2].val[r]
  <2> TAKE r \in 1 .. n
  <2>1. Packed(cols)[r] = IF cols[2].val[r] < 0 THEN cols[2].val[r]
                          ELSE cols[1].val[r] * Half + cols[2].val[r]
    BY PackedIs
  <2>2. ~ cols[2].val[r] < 0
    BY <1>6
  <2> QED BY <2>1, <2>2
<1>8. \A r \in 1 .. n : 0 <= col.val[r] /\ col.val[r] < Half * Half
  <2> TAKE r \in 1 .. n
  <2>1. PICK x \in Int, y \in Int : x = cols[1].val[r] /\ y = cols[2].val[r]
    BY <1>6
  <2>2. PICK h \in Nat \ {0} : h = Half
    BY <1>5
  <2>3. 0 <= x /\ 2 * x < h /\ 0 <= y /\ 2 * y < h
    BY <1>6, <2>1, <2>2
  <2>4. h * 0 = 0 /\ x * h = h * x /\ h * h \in Int /\ h * x \in Int
    OBVIOUS
  <2>5. 0 <= h * x
    <3>1. CASE x = 0
      BY <3>1, <2>4
    <3>2. CASE 0 < x
      <4>1. h * 0 + h <= h * x
        BY <3>2, MultiplesApart
      <4> QED BY <4>1, <2>4
    <3> QED BY <2>3, <3>1, <3>2
  <2>6. h * x + h <= h * h
    <3>1. x < h
      BY <2>3
    <3> QED BY <3>1, MultiplesApart
  <2>7. PICK k \in Int, q \in Int : k = h * x /\ q = h * h
    BY <2>4
  <2>8. 0 <= k + y /\ k + y < q
    BY <2>3, <2>5, <2>6, <2>7
  <2>9. col.val[r] = k + y
    BY <1>7, <2>1, <2>2, <2>4, <2>7
  <2> QED BY <2>2, <2>7, <2>8, <2>9
<1>9. AllDigits(col.val, TRUE)
  <2>1. Len(col.val) = n
    BY <1>4 DEF Column
  <2> QED BY <1>8, <2>1 DEF AllDigits
<1>10. ASSUME NEW a \in 1 .. n, NEW b \in 1 .. n
       PROVE  After(col, b, a) <=> Precedes(cols, 1, a, b)
  <2>1. Precedes(cols, 1, a, b) <=>
           After(cols[1], b, a) \/ (~ Differ(cols[1], a, b) /\ After(cols[2], b, a))
    BY <1>1, TwoColumns
  <2>2. PICK x \in Int, y \in Int, u \in Int, w \in Int :
          x = cols[1].val[a] /\ y = cols[2].val[a] /\ u = cols[1].val[b] /\ w = cols[2].val[b]
    BY <1>6
  <2>3. PICK h \in Nat \ {0} : h = Half
    BY <1>5
  <2>4. 0 <= y /\ y < h /\ 0 <= w /\ w < h
    BY <1>6, <2>2, <2>3
  <2>5. x * h + y < u * h + w <=> x < u \/ (x = u /\ y < w)
    BY <2>4, PairOrder
  <2>6. u * h + w < x * h + y <=> u < x \/ (u = x /\ w < y)
    BY <2>4, PairOrder
  <2>7. PICK i \in Int, j \in Int : i = x * h + y /\ j = u * h + w
    OBVIOUS
  <2>8. col.val[a] = i /\ col.val[b] = j
    BY <1>7, <2>2, <2>3, <2>7
  <2>9. i < j <=> x < u \/ (x = u /\ y < w)
    BY ONLY <2>5, <2>7
  <2>10. j < i <=> u < x \/ (u = x /\ w < y)
    BY ONLY <2>6, <2>7
  <2>11. col.isUp = cols[1].isUp
    OBVIOUS
  <2>12. CASE cols[1].isUp
    <3>1. After(col, b, a) <=> i < j
      BY <2>8, <2>11, <2>12 DEF After
    <3>2. (After(cols[1], b, a) <=> x < u) /\ (After(cols[2], b, a) <=> y < w)
      BY <2>2, <2>12, <1>3 DEF After
    <3>3. ~ Differ(cols[1], a, b) <=> x = u
      BY <2>2 DEF Differ
    <3> QED BY ONLY <2>1, <2>9, <3>1, <3>2, <3>3
  <2>13. CASE ~ cols[1].isUp
    <3>1. After(col, b, a) <=> j < i
      BY <2>8, <2>11, <2>13 DEF After
    <3>2. (After(cols[1], b, a) <=> u < x) /\ (After(cols[2], b, a) <=> w < y)
      BY <2>2, <2>13, <1>3 DEF After
    <3>3. ~ Differ(cols[1], a, b) <=> u = x
      BY <2>2 DEF Differ
    <3> QED BY ONLY <2>1, <2>10, <3>1, <3>2, <3>3
  <2> QED BY <2>12, <2>13
<1> QED BY <1>4, <1>9, <1>10

\* @order sorts where the digits that it looks at tell the rows apart.
LEMMA OrderBySorts ==
  ASSUME NEW cols, Operand(cols), NEW n, n = Height(cols), TakesDigits(cols) => NoneNegative(cols),
         NEW stable \in BOOLEAN, stable => AllStable(cols)
  PROVE  Listed(OrderBy(cols), 1 .. n, LexGood(cols, n, 1, stable))
<1>1. Columns(cols, n)
  BY OperandColumns
<1>2. n \in Nat /\ Len(cols) \in Nat
  BY <1>1 DEF Columns
<1>3. CASE Packs(cols)
  <2>1. PICK col : col = [type |-> "i64", val |-> Packed(cols), isUp |-> cols[1].isUp]
    OBVIOUS
  <2>2. NoneNegative(cols)
    BY <1>3 DEF TakesDigits
  <2>3. /\ Column(col, n) /\ AllDigits(col.val, TRUE)
        /\ \A a, b \in 1 .. n : After(col, b, a) <=> Precedes(cols, 1, a, b)
    BY <1>3, <2>1, <2>2, PackedColumn
  <2>4. stable => col.isUp
    <3>1. 1 \in 1 .. Len(cols)
      BY <1>3 DEF Packs
    <3> QED BY <2>1, <3>1 DEF AllStable
  <2>5. Listed(Radix(col.val, TRUE, col.isUp), 1 .. n, Good(col, n, stable))
    BY <2>3, <2>4, RadixSorts
  <2>6. OrderBy(cols) = Radix(col.val, TRUE, col.isUp)
    BY <1>3, <2>1 DEF OrderBy
  <2> QED BY <2>3, <2>5, <2>6, GoodIsLex
<1>4. CASE ~ Packs(cols) /\ Len(cols) = 1
  <2>1. PICK col : col = cols[1]
    OBVIOUS
  <2>2. 1 \in 1 .. Len(cols) /\ Column(col, n)
    BY <1>1, <1>4, <2>1 DEF Columns
  <2>3. \A a, b \in 1 .. n : After(col, b, a) <=> Precedes(cols, 1, a, b)
    BY <1>1, <1>4, <2>1, OneColumn
  <2>4. stable => col.isUp /\ col.type \in {"i32", "i64"}
    BY <2>1, <2>2 DEF AllStable
  <2>5. OrderBy(cols) = OrderVector(col)
    BY <1>4, <2>1 DEF OrderBy
  <2>6. col.val \in Seq(Int) /\ Len(col.val) = n /\ col.type \in {"i32", "i64", "other"}
    BY <2>2 DEF Column
  <2>7. ASSUME col.type # "other" PROVE \A r \in 1 .. n : col.val[r] \in Int /\ 0 <= col.val[r]
    <3>1. NoneNegative(cols)
      BY <1>4, <2>1, <2>7 DEF TakesDigits
    <3>2. \A r \in 1 .. n : cols[1].val[r] >= 0
      BY <3>1, <2>2, NoneNegativeIs
    <3>3. \A r \in 1 .. n : cols[1].val[r] \in Int
      BY <2>2, OperandColumns
    <3> QED BY <2>1, <3>2, <3>3
  <2>8. PICK h \in Nat : h = Half
    BY HalfIs
  <2>9. PICK hh \in Nat : hh = Half * Half
    BY <2>8
  <2>10. CASE col.type = "i32"
    <3>1. \A r \in 1 .. n : 2 * col.val[r] < Half
      BY <2>1, <2>2, <2>10, OperandColumns
    <3>2. AllDigits(col.val, FALSE)
      BY <2>6, <2>7, <2>8, <2>10, <3>1 DEF AllDigits
    <3>3. OrderBy(cols) = Radix(col.val, FALSE, col.isUp)
      BY <2>5, <2>10 DEF OrderVector
    <3>4. Listed(Radix(col.val, FALSE, col.isUp), 1 .. n, Good(col, n, stable))
      BY <2>2, <2>4, <3>2, RadixSorts
    <3> QED BY <2>2, <2>3, <3>3, <3>4, GoodIsLex
  <2>11. CASE col.type = "i64"
    <3>1. \A r \in 1 .. n : 2 * col.val[r] < Half * Half
      BY <2>1, <2>2, <2>11, OperandColumns
    <3>2. AllDigits(col.val, TRUE)
      <4>1. \A r \in 1 .. n : 0 <= col.val[r] /\ col.val[r] < hh
        <5> TAKE r \in 1 .. n
        <5>1. 2 * col.val[r] < hh
          BY <3>1, <2>9
        <5>2. col.val[r] \in Int /\ 0 <= col.val[r]
          BY <2>7, <2>11
        <5> QED BY <5>1, <5>2
      <4> QED BY <4>1, <2>6, <2>9 DEF AllDigits
    <3>3. OrderBy(cols) = Radix(col.val, TRUE, col.isUp)
      BY <2>5, <2>11 DEF OrderVector
    <3>4. Listed(Radix(col.val, TRUE, col.isUp), 1 .. n, Good(col, n, stable))
      BY <2>2, <2>4, <3>2, RadixSorts
    <3> QED BY <2>2, <2>3, <3>3, <3>4, GoodIsLex
  <2>12. CASE col.type = "other"
    <3>1. PICK R, A, s : R = Good(col, n, stable) /\ A = 1 .. n /\ s = Rows(n)
      OBVIOUS
    <3>2. Arranges(s, A) /\ InOrder(s, Increasing)
      BY <1>2, <3>1, RowsArrange
    <3>3. Sortable(col, n, stable, R, s, A)
      BY <2>2, <3>1, <3>2 DEF Sortable
    <3>4. ~ stable
      BY <2>4, <2>12
    <3>5. Listed(QuickSort(col)[s], A, R)
      BY ONLY <3>3, <3>4, QuickSortSorts
    <3>6. OrderBy(cols) = QuickSort(col)[s]
      BY <2>5, <2>6, <2>12, <3>1 DEF OrderVector
    <3>7. Listed(OrderBy(cols), 1 .. n, Good(col, n, stable))
      BY <3>1, <3>5, <3>6
    <3> QED BY <2>2, <2>3, <3>7, GoodIsLex
  <2> QED BY <2>6, <2>10, <2>11, <2>12
<1>5. CASE ~ Packs(cols) /\ Len(cols) # 1
  <2>1. OrderBy(cols) = SortList(cols)[Rows(n)]
    BY <1>5 DEF OrderBy
  <2>2. Listed(SortList(cols)[Rows(n)], 1 .. n, LexGood(cols, n, 1, stable))
    BY <1>1, SortListSorts
  <2> QED BY <2>1, <2>2
<1> QED BY <1>3, <1>4, <1>5

LEMMA ListedWeaker ==
  ASSUME NEW A, NEW s, NEW R, NEW Q, Listed(s, A, R),
         \A a, b \in A : <<a, b>> \in R => <<a, b>> \in Q
  PROVE  Listed(s, A, Q)
BY OrderWeaker DEF Listed

LEMMA ListedRows ==
  ASSUME NEW n \in Nat, NEW s, NEW R, Listed(s, 1 .. n, R)
  PROVE  /\ Len(s) = n /\ DOMAIN s = 1 .. n /\ s \in Seq(1 .. n)
         /\ \A i \in 1 .. n : s[i] \in 1 .. n
         /\ \A r \in 1 .. n : \E i \in 1 .. n : s[i] = r
         /\ \A i, j \in 1 .. n : s[i] = s[j] => i = j
         /\ \A i, j \in 1 .. n : i < j => <<s[i], s[j]>> \in R
<1>1. PICK A : A = 1 .. n
  OBVIOUS
<1>2. Arranges(s, A) /\ InOrder(s, R)
  BY <1>1 DEF Listed
<1>3. Len(s) = Cardinality(A)
  BY ONLY <1>2, ArrangesCount
<1>4. Cardinality(A) = n
  <2>1. Cardinality(1 .. n) = n
    BY FS_Interval
  <2> QED BY <2>1, <1>1
<1>5. Len(s) = n
  BY <1>3, <1>4
<1>6. s \in Seq(1 .. n)
  BY <1>1, <1>2 DEF Arranges
<1>7. DOMAIN s = 1 .. n /\ \A i \in 1 .. n : s[i] \in 1 .. n
  BY <1>5, <1>6
<1>8. /\ \A r \in 1 .. n : \E i \in 1 .. n : s[i] = r
      /\ \A i, j \in 1 .. n : s[i] = s[j] => i = j
  BY <1>1, <1>2, <1>5 DEF Arranges
<1>9. \A i, j \in 1 .. n : i < j => <<s[i], s[j]>> \in R
  BY <1>2, <1>5 DEF InOrder
<1> QED BY <1>5, <1>6, <1>7, <1>8, <1>9

\* Rows with equal values stay in the order of their numbers.
EqualStay(cols, n) == {p \in (1 .. n) \X (1 .. n) : KeyedBy(cols, p[1], p[2]) => p[1] < p[2]}

LEMMA OrderByKeepsEqual ==
  ASSUME NEW cols, Operand(cols), NEW n, n = Height(cols),
         \A k \in DOMAIN cols : cols[k].isUp /\ cols[k].type # "other"
  PROVE  Listed(OrderBy(cols), 1 .. n, EqualStay(cols, n))
<1>1. Columns(cols, n) /\ DOMAIN cols = 1 .. Len(cols)
  BY OperandColumns
<1>2. n \in Nat /\ Len(cols) \in Nat
  BY <1>1 DEF Columns
<1>3. PICK A : A = 1 .. n
  OBVIOUS
<1>4. \A k \in 1 .. Len(cols) : cols[k].isUp /\ cols[k].type \in {"i32", "i64"} /\ Column(cols[k], n)
  BY <1>1 DEF Columns, Column
<1>5. CASE Packs(cols)
  <2>1. PICK v : v = Packed(cols)
    OBVIOUS
  <2>2. v \in Seq(Int) /\ Len(v) = n
    BY <1>5, <2>1, PackedIs
  <2>3. OrderBy(cols) = Radix(v, TRUE, TRUE)
    <3>1. 1 \in 1 .. Len(cols) /\ cols[1].isUp \in BOOLEAN
      BY <1>4, <1>5 DEF Packs, Column
    <3>2. cols[1].isUp = TRUE
      BY <1>4, <3>1
    <3> QED BY <1>5, <2>1, <3>2 DEF OrderBy
  <2>4. Listed(Radix(v, TRUE, TRUE), 1 .. n, SameStay(v))
    BY <2>2, RadixStable
  <2>5. \A a, b \in A : <<a, b>> \in SameStay(v) => <<a, b>> \in EqualStay(cols, n)
    <3> TAKE a, b \in A
    <3>1. a \in 1 .. n /\ b \in 1 .. n
      BY <1>3
    <3>2. ASSUME KeyedBy(cols, a, b) PROVE v[a] = v[b]
      <4>1. 1 \in DOMAIN cols /\ 2 \in DOMAIN cols
        BY <1>1, <1>5 DEF Packs
      <4>2. cols[1].val[a] = cols[1].val[b] /\ cols[2].val[a] = cols[2].val[b]
        BY <3>2, <4>1 DEF KeyedBy
      <4>3. /\ v[a] = IF cols[2].val[a] < 0 THEN cols[2].val[a]
                      ELSE cols[1].val[a] * Half + cols[2].val[a]
            /\ v[b] = IF cols[2].val[b] < 0 THEN cols[2].val[b]
                      ELSE cols[1].val[b] * Half + cols[2].val[b]
        BY <1>5, <2>1, <3>1, PackedIs
      <4> QED BY <4>2, <4>3
    <3> QED BY <2>2, <3>1, <3>2 DEF SameStay, EqualStay
  <2>6. Listed(OrderBy(cols), A, SameStay(v))
    BY <1>3, <2>3, <2>4
  <2>7. Listed(OrderBy(cols), A, EqualStay(cols, n))
    BY <2>5, <2>6, ListedWeaker
  <2> QED BY <1>3, <2>7
<1>6. CASE ~ Packs(cols) /\ Len(cols) = 1
  <2>1. PICK v : v = cols[1].val
    OBVIOUS
  <2>2. /\ v \in Seq(Int) /\ Len(v) = n /\ cols[1].isUp = TRUE /\ cols[1].type \in {"i32", "i64"}
        /\ 1 \in DOMAIN cols
    <3>1. 1 \in 1 .. Len(cols)
      BY <1>6
    <3> QED BY <1>1, <1>4, <2>1, <3>1 DEF Column
  <2>3. PICK long \in BOOLEAN : OrderBy(cols) = Radix(v, long, TRUE)
    BY <1>6, <2>1, <2>2 DEF OrderBy, OrderVector
  <2>4. Listed(Radix(v, long, TRUE), 1 .. n, SameStay(v))
    BY <2>2, RadixStable
  <2>5. \A a, b \in A : <<a, b>> \in SameStay(v) => <<a, b>> \in EqualStay(cols, n)
    <3> TAKE a, b \in A
    <3>1. a \in 1 .. n /\ b \in 1 .. n
      BY <1>3
    <3>2. KeyedBy(cols, a, b) => v[a] = v[b]
      BY <2>1, <2>2 DEF KeyedBy
    <3> QED BY <2>2, <3>1, <3>2 DEF SameStay, EqualStay
  <2>6. Listed(OrderBy(cols), A, SameStay(v))
    BY <1>3, <2>3, <2>4
  <2>7. Listed(OrderBy(cols), A, EqualStay(cols, n))
    BY <2>5, <2>6, ListedWeaker
  <2> QED BY <1>3, <2>7
<1>7. CASE ~ Packs(cols) /\ Len(cols) # 1
  <2>1. AllStable(cols)
    BY <1>4 DEF AllStable
  <2>2. ~ TakesDigits(cols)
    BY <1>7 DEF TakesDigits
  <2>3. PICK stable \in BOOLEAN : stable
    OBVIOUS
  <2>4. Listed(OrderBy(cols), A, LexGood(cols, n, 1, stable))
    BY <1>3, <2>1, <2>2, <2>3, OrderBySorts
  <2>5. \A a, b \in A : <<a, b>> \in LexGood(cols, n, 1, stable) => <<a, b>> \in EqualStay(cols, n)
    <3> TAKE a, b \in A
    <3>1. a \in 1 .. n /\ b \in 1 .. n
      BY <1>3
    <3>2. ASSUME KeyedBy(cols, a, b) PROVE ~ Precedes(cols, 1, a, b)
      <4>1. \A k \in 1 .. Len(cols) : ~ After(cols[k], b, a)
        <5> TAKE k \in 1 .. Len(cols)
        <5>1. cols[k].val[a] = cols[k].val[b] /\ cols[k].isUp
          BY <1>1, <1>4, <3>2 DEF KeyedBy
        <5>2. cols[k].val[a] \in Int
          BY <3>1, OperandColumns
        <5> QED BY <5>1, <5>2 DEF After
      <4> QED BY <4>1 DEF Precedes
    <3>3. <<a, b>> \in LexGood(cols, n, 1, stable) => Precedes(cols, 1, a, b) \/ a < b
      BY <2>3, <3>1, LexGoodIs
    <3> QED BY <3>1, <3>2, <3>3 DEF EqualStay
  <2>6. Listed(OrderBy(cols), A, EqualStay(cols, n))
    BY <2>4, <2>5, ListedWeaker
  <2> QED BY <1>3, <2>6
<1> QED BY <1>5, <1>6, <1>7

----------------------------------------------------------------------------
(* @group.                                                                 *)

\* Between equal rows of a list there are no others.
Gathered(cols, s, n) ==
  \A i, j, k \in 1 .. n : i <= j /\ j <= k /\ SameRow(cols, s[i], s[k]) => SameRow(cols, s[i], s[j])

LEMMA NeitherPrecedes ==
  ASSUME NEW cols, Operand(cols), NEW n, n = Height(cols), NEW a \in 1 .. n, NEW b \in 1 .. n,
         ~ Precedes(cols, 1, a, b), ~ Precedes(cols, 1, b, a)
  PROVE  SameRow(cols, a, b)
<1>1. Columns(cols, n) /\ DOMAIN cols = 1 .. Len(cols)
  BY OperandColumns
<1>2. Len(cols) \in Nat
  BY <1>1 DEF Columns
<1> DEFINE T == {k \in 1 .. Len(cols) : Differ(cols[k], a, b)}
<1>3. ASSUME T # {} PROVE FALSE
  <2>1. T \subseteq Nat
    OBVIOUS
  <2>2. PICK k \in T : \A l \in T : k <= l
    <3> HIDE DEF T
    <3> QED BY <1>3, <2>1, LeastNatural
  <2>3. k \in 1 .. Len(cols) /\ Differ(cols[k], a, b)
    OBVIOUS
  <2>4. \A l \in 1 .. k - 1 : ~ Differ(cols[l], a, b) /\ ~ Differ(cols[l], b, a)
    <3> TAKE l \in 1 .. k - 1
    <3>1. l \in 1 .. Len(cols) /\ ~ k <= l
      BY <1>2, <2>3
    <3>2. l \notin T
      BY <2>2, <3>1
    <3>3. ~ Differ(cols[l], a, b)
      BY <3>1, <3>2
    <3> QED BY <3>3 DEF Differ
  <2>5. cols[k].val[a] \in Int /\ cols[k].val[b] \in Int
    BY <2>3, OperandColumns
  <2>6. After(cols[k], a, b) \/ After(cols[k], b, a)
    BY <2>3, <2>5 DEF Differ, After
  <2>7. After(cols[k], b, a) => Precedes(cols, 1, a, b)
    BY <2>3, <2>4 DEF Precedes
  <2>8. After(cols[k], a, b) => Precedes(cols, 1, b, a)
    BY <2>3, <2>4 DEF Precedes
  <2> QED BY <2>6, <2>7, <2>8
<1>4. \A k \in DOMAIN cols : ~ Differ(cols[k], a, b)
  BY <1>1, <1>3
<1> QED BY <1>4 DEF SameRow

LEMMA PrecedesSame ==
  ASSUME NEW cols, Operand(cols), NEW a, NEW b, NEW c, SameRow(cols, a, c), Precedes(cols, 1, c, b)
  PROVE  Precedes(cols, 1, a, b)
<1>1. DOMAIN cols = 1 .. Len(cols) /\ Len(cols) \in Nat
  BY OperandColumns DEF Columns
<1>2. PICK k \in 1 .. Len(cols) : (\A l \in 1 .. k - 1 : ~ Differ(cols[l], c, b)) /\ After(cols[k], b, c)
  BY DEF Precedes
<1>3. \A l \in 1 .. Len(cols) : cols[l].val[a] = cols[l].val[c]
  BY <1>1 DEF SameRow, Differ
<1>4. \A l \in 1 .. k - 1 : ~ Differ(cols[l], a, b)
  <2> TAKE l \in 1 .. k - 1
  <2>1. l \in 1 .. Len(cols) /\ ~ Differ(cols[l], c, b)
    BY <1>1, <1>2
  <2> QED BY <2>1, <1>3 DEF Differ
<1>5. After(cols[k], b, a)
  BY <1>2, <1>3 DEF After
<1> QED BY <1>4, <1>5 DEF Precedes

LEMMA SortedGathers ==
  ASSUME NEW cols, Operand(cols), NEW n, n = Height(cols), NEW s,
         Listed(s, 1 .. n, LexGood(cols, n, 1, FALSE))
  PROVE  Gathered(cols, s, n)
<1>1. n \in Nat
  BY OperandColumns DEF Columns
<1>2. PICK R, no : R = LexGood(cols, n, 1, no) /\ no = FALSE
  OBVIOUS
<1>3. Listed(s, 1 .. n, R)
  BY <1>2
<1>4. /\ \A i \in 1 .. n : s[i] \in 1 .. n
      /\ \A i, j \in 1 .. n : i < j => <<s[i], s[j]>> \in R
  BY ONLY <1>1, <1>3, ListedRows
<1>5. \A i, j \in 1 .. n : i < j => ~ Precedes(cols, 1, s[j], s[i])
  <2> TAKE i, j \in 1 .. n
  <2> HAVE i < j
  <2>1. PICK a \in 1 .. n, b \in 1 .. n : a = s[i] /\ b = s[j]
    BY <1>4
  <2>2. <<a, b>> \in LexGood(cols, n, 1, no)
    BY <1>2, <1>4, <2>1
  <2>3. ~ Precedes(cols, 1, b, a)
    BY <2>2, LexGoodIs
  <2> QED BY <2>1, <2>3
<1>6. ASSUME NEW i \in 1 .. n, NEW j \in 1 .. n, NEW k \in 1 .. n, i <= j, j <= k,
             SameRow(cols, s[i], s[k])
      PROVE  SameRow(cols, s[i], s[j])
  <2>1. CASE i = j
    BY <2>1 DEF SameRow, Differ
  <2>2. CASE j = k
    BY <2>2, <1>6
  <2>3. CASE i < j /\ j < k
    <3>1. ~ Precedes(cols, 1, s[j], s[i]) /\ ~ Precedes(cols, 1, s[k], s[j])
      BY <1>5, <2>3
    <3>2. PICK a \in 1 .. n, b \in 1 .. n, c \in 1 .. n : a = s[i] /\ b = s[j] /\ c = s[k]
      BY <1>4
    <3>3. SameRow(cols, c, a)
      BY <1>6, <3>2 DEF SameRow, Differ
    <3>4. ~ Precedes(cols, 1, a, b)
      BY <3>1, <3>2, <3>3, PrecedesSame
    <3> QED BY <3>1, <3>2, <3>4, NeitherPrecedes
  <2> QED BY <1>6, <2>1, <2>2, <2>3
<1> QED BY <1>6 DEF Gathered

\* Numbers in the range of h numbers are told apart by their remainder.
LEMMA RemainderTells ==
  ASSUME NEW h \in Nat \ {0}, NEW x \in Int, NEW y \in Int, x % h = y % h,
         -h <= 2 * x, 2 * x < h, -h <= 2 * y, 2 * y < h
  PROVE  x = y
<1>1. PICK p \in Int, r \in Int : p = x \div h /\ r = x % h /\ x = h * p + r
  BY DivMod
<1>2. PICK q \in Int : y = h * q + r
  <2>1. y \div h \in Int /\ y = h * (y \div h) + (y % h)
    BY DivMod
  <2>2. y % h = r
    BY <1>1
  <2> QED BY <2>1, <2>2
<1>3. PICK k \in Int, l \in Int : k = h * p /\ l = h * q
  OBVIOUS
<1>4. x = k + r /\ y = l + r
  BY <1>1, <1>2, <1>3
<1>5. ~ p < q
  <2>1. ASSUME p < q PROVE FALSE
    <3>1. k + h <= l
      BY <1>3, <2>1, MultiplesApart
    <3> QED BY <1>4, <3>1
  <2> QED BY <2>1
<1>6. ~ q < p
  <2>1. ASSUME q < p PROVE FALSE
    <3>1. l + h <= k
      BY <1>3, <2>1, MultiplesApart
    <3> QED BY <1>4, <3>1
  <2> QED BY <2>1
<1>7. p = q
  BY <1>5, <1>6
<1> QED BY <1>3, <1>4, <1>7

\* A single column of i32, negative ones among them.
LEMMA DigitsGather ==
  ASSUME NEW cols, Operand(cols), NEW n, n = Height(cols), Len(cols) = 1,
         cols[1].type = "i32", cols[1].isUp
  PROVE  Gathered(cols, OrderBy(cols), n)
<1>1. Columns(cols, n) /\ DOMAIN cols = 1 .. Len(cols)
  BY OperandColumns
<1>2. n \in Nat /\ 1 \in 1 .. Len(cols) /\ Column(cols[1], n) /\ DOMAIN cols = {1}
  BY <1>1 DEF Columns
<1>3. PICK v, long : v = cols[1].val /\ long = FALSE
  OBVIOUS
<1>4. v \in Seq(Int) /\ Len(v) = n /\ long \in BOOLEAN
  BY <1>2, <1>3 DEF Column
<1>5. OrderBy(cols) = RadixSort(v, long)
  <2>1. ~ Packs(cols)
    BY DEF Packs
  <2> QED BY <2>1, <1>3 DEF OrderBy, OrderVector, Radix
<1>6. PICK s, R, h : s = OrderBy(cols) /\ R = LowGood(v, DigitsOf(v, long)) /\ h = Power[DigitsOf(v, long)]
  OBVIOUS
<1>7. h = Half /\ h \in Nat \ {0}
  <2>1. DigitsOf(v, long) = Digits
    BY <1>3 DEF DigitsOf
  <2> QED BY <2>1, <1>6, HalfIs
<1>8. Listed(s, 1 .. n, R)
  BY <1>4, <1>5, <1>6, RadixSortLists
<1>9. /\ \A i \in 1 .. n : s[i] \in 1 .. n
      /\ \A i, j \in 1 .. n : i < j => <<s[i], s[j]>> \in R
  BY ONLY <1>2, <1>8, ListedRows
<1>10. \A a \in 1 .. n : v[a] \in Int /\ -h <= 2 * v[a] /\ 2 * v[a] < h
  BY <1>2, <1>3, <1>7, OperandColumns
<1>11. \A a \in 1 .. n : v[a] % h \in Int
  BY <1>7, <1>10, DivMod
<1>12. \A i, j \in 1 .. n : i < j => v[s[i]] % h <= v[s[j]] % h
  <2> TAKE i, j \in 1 .. n
  <2> HAVE i < j
  <2>1. PICK a \in 1 .. n, b \in 1 .. n : a = s[i] /\ b = s[j]
    BY <1>9
  <2>2. <<a, b>> \in R
    BY <1>9, <2>1
  <2>3. v[a] % h < v[b] % h \/ v[a] % h = v[b] % h
    BY <2>2, <1>6 DEF LowGood
  <2>4. v[a] % h <= v[b] % h
    BY <2>3, <1>11
  <2> QED BY <2>1, <2>4
<1>13. \A a, b \in 1 .. n : SameRow(cols, a, b) <=> v[a] = v[b]
  BY <1>2, <1>3 DEF SameRow, Differ
<1>14. ASSUME NEW i \in 1 .. n, NEW j \in 1 .. n, NEW k \in 1 .. n, i <= j, j <= k,
              SameRow(cols, s[i], s[k])
       PROVE  SameRow(cols, s[i], s[j])
  <2>1. CASE i = j
    BY <2>1 DEF SameRow, Differ
  <2>2. CASE j = k
    BY <2>2, <1>14
  <2>3. CASE i < j /\ j < k
    <3>1. PICK a \in 1 .. n, b \in 1 .. n, c \in 1 .. n : a = s[i] /\ b = s[j] /\ c = s[k]
      BY <1>9
    <3>2. v[a] % h <= v[b] % h /\ v[b] % h <= v[c] % h
      BY <1>12, <2>3, <3>1
    <3>3. v[a] = v[c]
      BY <1>13, <1>14, <3>1
    <3>4. v[a] % h = v[b] % h
      BY <1>11, <3>2, <3>3
    <3>5. v[a] = v[b]
      BY <1>7, <1>10, <3>4, RemainderTells
    <3> QED BY <1>13, <3>1, <3>5
  <2> QED BY <1>14, <2>1, <2>2, <2>3
<1> QED BY <1>6, <1>14 DEF Gathered

LEMMA OrderGathers ==
  ASSUME NEW cols, Operand(cols), NEW n, n = Height(cols), \A k \in DOMAIN cols : cols[k].isUp,
         Packs(cols) \/ (Len(cols) = 1 /\ cols[1].type = "i64") => NoneNegative(cols)
  PROVE  Gathered(cols, OrderBy(cols), n) /\ \E R : Listed(OrderBy(cols), 1 .. n, R)
<1>1. Columns(cols, n) /\ DOMAIN cols = 1 .. Len(cols)
  BY OperandColumns
<1>2. CASE Len(cols) = 1 /\ cols[1].type = "i32"
  <2>1. cols[1].isUp
    <3>1. 1 \in 1 .. Len(cols)
      BY <1>2
    <3> QED BY <1>1, <3>1
  <2>2. Gathered(cols, OrderBy(cols), n)
    BY <1>2, <2>1, DigitsGather
  <2>3. \A k \in DOMAIN cols : cols[k].isUp /\ cols[k].type # "other"
    BY <1>1, <1>2, <2>1
  <2>4. Listed(OrderBy(cols), 1 .. n, EqualStay(cols, n))
    BY <2>3, OrderByKeepsEqual
  <2> QED BY <2>2, <2>4
<1>3. CASE ~ (Len(cols) = 1 /\ cols[1].type = "i32")
  <2>1. TakesDigits(cols) => NoneNegative(cols)
    <3>1. Len(cols) = 1 => cols[1].type \in {"i32", "i64", "other"}
      <4>1. Len(cols) = 1 => 1 \in 1 .. Len(cols)
        OBVIOUS
      <4> QED BY <1>1, <4>1 DEF Columns, Column
    <3> QED BY <1>3, <3>1 DEF TakesDigits
  <2>2. PICK no \in BOOLEAN : no = FALSE
    OBVIOUS
  <2>3. Listed(OrderBy(cols), 1 .. n, LexGood(cols, n, 1, no))
    BY <2>1, <2>2, OrderBySorts
  <2>4. Listed(OrderBy(cols), 1 .. n, LexGood(cols, n, 1, FALSE))
    BY <2>2, <2>3
  <2> QED BY <2>4, SortedGathers
<1> QED BY <1>2, <1>3

----------------------------------------------------------------------------
(* The cells.                                                              *)

CellsBody(cols, rows, f, k) ==
  LET before == f[k - 1]
  IN  IF k = 0 THEN <<>>
      ELSE IF k > 1 /\ SameRow(cols, rows[k - 1], rows[k])
      THEN [before EXCEPT ![Len(before)] = Append(@, rows[k])]
      ELSE Append(before, <<rows[k]>>)

CellsUpto(cols, rows) == CHOOSE f : f = [k \in 0 .. Len(rows) |-> CellsBody(cols, rows, f, k)]

LEMMA CellsAre ==
  ASSUME NEW cols, NEW rows
  PROVE  Cells(cols, rows) = CellsUpto(cols, rows)[Len(rows)]
BY DEF Cells, CellsUpto, CellsBody

\* A row is added to the last cell.
Grown(c, x) == [c EXCEPT ![Len(c)] = Append(@, x)]

GrownIs(c, x, d, g) ==
  /\ Len(d) = g /\ g \in Nat
  /\ g # 0 => /\ Len(c[g]) \in Nat /\ Len(d[g]) = Len(c[g]) + 1 /\ d[g][Len(c[g]) + 1] = x
              /\ \A i \in 1 .. Len(c[g]) : d[g][i] = c[g][i]
  /\ \A h \in 1 .. g : h # g => d[h] = c[h]

LEMMA CellGrows ==
  ASSUME NEW n \in Nat, NEW c \in Seq(Seq(1 .. n)), NEW x \in 1 .. n, NEW d,
         d = Grown(c, x), NEW g, g = Len(c)
  PROVE  d \in Seq(Seq(1 .. n)) /\ GrownIs(c, x, d, g)
<1> DEFINE Y == Seq(1 .. n)
<1>1. c \in Seq(Y)
  OBVIOUS
<1>2. \A h \in 1 .. Len(c) : c[h] \in Y /\ Append(c[h], x) \in Y
  <2> TAKE h \in 1 .. Len(c)
  <2>1. c[h] \in Y
    <3> HIDE DEF Y
    <3> QED BY <1>1, ElementOfSeq
  <2> QED BY <2>1
<1>3. d = [c EXCEPT ![g] = Append(c[g], x)]
  BY DEF Grown
<1>4. g \in Nat /\ DOMAIN c = 1 .. g /\ c \in [1 .. g -> Y]
  <2> HIDE DEF Y
  <2> QED BY <1>1
<1>5. d \in [1 .. g -> Y]
  <2> HIDE DEF Y
  <2> QED BY <1>2, <1>3, <1>4
<1>6. d \in Seq(Y) /\ Len(d) = g
  <2> HIDE DEF Y
  <2> QED BY ONLY <1>4, <1>5
<1>7. \A h \in 1 .. g : d[h] = IF h = g THEN Append(c[g], x) ELSE c[h]
  <2> HIDE DEF Y
  <2> QED BY <1>3, <1>4
<1>8. ASSUME g # 0
      PROVE  /\ Len(c[g]) \in Nat /\ Len(d[g]) = Len(c[g]) + 1 /\ d[g][Len(c[g]) + 1] = x
             /\ \A i \in 1 .. Len(c[g]) : d[g][i] = c[g][i]
  <2>1. g \in 1 .. g
    BY <1>4, <1>8
  <2>2. PICK t \in Seq(1 .. n) : t = c[g] /\ d[g] = Append(t, x)
    BY <1>2, <1>7, <2>1
  <2>3. /\ Len(Append(t, x)) = Len(t) + 1 /\ Append(t, x)[Len(t) + 1] = x
        /\ \A i \in 1 .. Len(t) : Append(t, x)[i] = t[i]
    BY AppendProperties
  <2> QED BY <2>2, <2>3
<1> QED BY <1>4, <1>6, <1>7, <1>8 DEF GrownIs

\* A new cell.
LEMMA CellAdded ==
  ASSUME NEW n \in Nat, NEW c \in Seq(Seq(1 .. n)), NEW x \in 1 .. n, NEW d,
         d = Append(c, <<x>>), NEW g, g = Len(c)
  PROVE  /\ d \in Seq(Seq(1 .. n)) /\ Len(d) = g + 1 /\ g \in Nat
         /\ Len(d[g + 1]) = 1 /\ d[g + 1][1] = x
         /\ \A h \in 1 .. g : d[h] = c[h]
<1>1. PICK Y : Y = Seq(1 .. n)
  OBVIOUS
<1>2. PICK t \in Y : t = <<x>> /\ Len(t) = 1 /\ t[1] = x
  <2>1. <<x>> \in Seq(1 .. n) /\ Len(<<x>>) = 1 /\ <<x>>[1] = x
    OBVIOUS
  <2> QED BY <1>1, <2>1
<1>3. /\ Append(c, t) \in Seq(Y) /\ Len(Append(c, t)) = Len(c) + 1 /\ Append(c, t)[Len(c) + 1] = t
      /\ \A h \in 1 .. Len(c) : Append(c, t)[h] = c[h]
  BY <1>1, AppendProperties
<1> QED BY <1>1, <1>2, <1>3

LEMMA CellsRecursion ==
  ASSUME NEW cols, NEW n \in Nat, NEW rows \in Seq(1 .. n)
  PROVE  /\ CellsUpto(cols, rows) \in [0 .. Len(rows) -> Seq(Seq(1 .. n))]
         /\ \A k \in 0 .. Len(rows) : CellsUpto(cols, rows)[k] = CellsBody(cols, rows, CellsUpto(cols, rows), k)
<1> DEFINE S == 0 .. Len(rows)
           X == Seq(Seq(1 .. n))
           m == CellsUpto(cols, rows)
           Y == X \cup {m[s] : s \in S}
           mu == [s \in S |-> s]
           G == [s \in S |-> [f \in [S -> Y] |-> CellsBody(cols, rows, f, s)]]
<1>0. Len(rows) \in Nat
  OBVIOUS
<1>1. m = CHOOSE f : f = [s \in S |-> CellsBody(cols, rows, f, s)]
  BY DEF CellsUpto
<1>2. mu \in [S -> Nat] /\ \A s \in S : mu[s] = s
  BY <1>0
<1>3. ASSUME NEW s \in S, s # 0 PROVE s - 1 \in S /\ mu[s - 1] < mu[s] /\ s \in 1 .. Len(rows)
  <2>1. s - 1 \in S /\ s - 1 < s /\ s \in 1 .. Len(rows)
    BY <1>0, <1>3
  <2> HIDE DEF S, mu
  <2> QED BY <1>2, <2>1
<1>4. ASSUME NEW s \in S, NEW f \in [S -> X] PROVE CellsBody(cols, rows, f, s) \in X
  <2>1. CASE s = 0
    BY <2>1 DEF CellsBody
  <2>2. CASE s # 0
    <3>1. PICK c \in Seq(Seq(1 .. n)), x \in 1 .. n : c = f[s - 1] /\ x = rows[s]
      <4>1. s - 1 \in S /\ s \in 1 .. Len(rows)
        BY <1>3, <2>2
      <4>2. rows[s] \in 1 .. n
        BY <4>1, ElementOfSeq
      <4>3. f[s - 1] \in X
        <5> HIDE DEF S, X
        <5> QED BY <4>1
      <4> QED BY <4>2, <4>3
    <3>2. Grown(c, x) \in X
      BY CellGrows
    <3>3. Append(c, <<x>>) \in X
      <4>1. PICK d : d = Append(c, <<x>>)
        OBVIOUS
      <4> QED BY <4>1, CellAdded
    <3>4. CellsBody(cols, rows, f, s) \in {Grown(c, x), Append(c, <<x>>)}
      BY <2>2, <3>1 DEF CellsBody, Grown
    <3> HIDE DEF X
    <3> QED BY <3>2, <3>3, <3>4
  <2> QED BY <2>1, <2>2
<1>5. ASSUME NEW s \in S, NEW f, NEW g, \A t \in S : mu[t] < mu[s] => f[t] = g[t]
      PROVE  CellsBody(cols, rows, f, s) = CellsBody(cols, rows, g, s)
  <2>1. s # 0 => f[s - 1] = g[s - 1]
    <3> HIDE DEF S, mu
    <3> QED BY <1>3, <1>5
  <2> QED BY <2>1 DEF CellsBody
<1> HIDE DEF S, X, mu, m
<1>7. Recursion(G, S, X, Y, mu)
  <2>1. \A f \in [S -> X] : f \in [S -> Y]
    OBVIOUS
  <2>2. \A s \in S : \A f \in [S -> Y] : G[s][f] = CellsBody(cols, rows, f, s)
    OBVIOUS
  <2> HIDE DEF Y, G
  <2>3. X \subseteq Y
    BY DEF Y
  <2>4. \A s \in S : \A f \in [S -> X] : G[s][f] \in X
    BY <2>1, <2>2, <1>4
  <2>5. \A s \in S : \A f, g \in [S -> Y] :
          (\A t \in S : mu[t] < mu[s] => f[t] = g[t]) => G[s][f] = G[s][g]
    BY <2>2, <1>5
  <2> QED BY <2>3, <2>4, <2>5, <1>2 DEF Recursion
<1>8. <<>> \in X
  BY DEF X, X
<1>9. PICK f \in [S -> X] : f = [s \in S |-> G[s][f]]
  <2> HIDE DEF G, Y
  <2> QED BY <1>7, <1>8, RecursiveFunction
<1>10. f = [s \in S |-> CellsBody(cols, rows, f, s)]
  <2>1. f \in [S -> Y]
    OBVIOUS
  <2> HIDE DEF Y
  <2>2. \A s \in S : G[s][f] = CellsBody(cols, rows, f, s)
    BY <2>1
  <2> QED BY <1>9, <2>2
<1>11. m = [s \in S |-> CellsBody(cols, rows, m, s)]
  <2> HIDE DEF G, Y
  <2> QED BY <1>1, <1>10
<1>12. m \in [S -> Y] /\ \A s \in S : m[s] = G[s][m]
  <2>1. m \in [S -> Y]
    BY <1>11
  <2> HIDE DEF Y
  <2>2. \A s \in S : G[s][m] = CellsBody(cols, rows, m, s)
    BY <2>1
  <2> QED BY <1>11, <2>1, <2>2
<1>13. m \in [S -> X]
  <2> HIDE DEF G, Y
  <2> QED BY <1>7, <1>8, <1>12, RecursionTyped
<1>14. \A s \in S : m[s] = CellsBody(cols, rows, m, s)
  BY <1>11
<1> QED BY <1>13, <1>14 DEF m, S, X

\* The first k rows fill the cells c: row p has place idx[p] of cell grp[p], equal
\* rows share a cell, and the last row is in the last cell.
Placed(cols, rows, c, k, grp, idx) ==
  /\ \A p \in 1 .. k : /\ grp[p] \in 1 .. Len(c) /\ idx[p] \in 1 .. Len(c[grp[p]])
                       /\ c[grp[p]][idx[p]] = rows[p] /\ idx[p] <= p
  /\ \A g \in 1 .. Len(c) : \A i \in 1 .. Len(c[g]) : \E p \in 1 .. k : grp[p] = g /\ idx[p] = i
  /\ \A p, q \in 1 .. k : grp[p] = grp[q] <=> SameRow(cols, rows[p], rows[q])
  /\ k # 0 => grp[k] = Len(c)

LEMMA SameRowIs ==
  ASSUME NEW cols, NEW a, NEW b, NEW c
  PROVE  /\ SameRow(cols, a, a)
         /\ SameRow(cols, a, b) => SameRow(cols, b, a)
         /\ SameRow(cols, a, b) /\ SameRow(cols, b, c) => SameRow(cols, a, c)
BY DEF SameRow, Differ

LEMMA PlacedInLast ==
  ASSUME NEW cols, NEW n \in Nat, NEW rows \in Seq(1 .. n), Len(rows) = n, NEW k \in 2 .. n,
         SameRow(cols, rows[k - 1], rows[k]), NEW c \in Seq(Seq(1 .. n)), NEW grp, NEW idx,
         Placed(cols, rows, c, k - 1, grp, idx)
  PROVE  \E ng, ni : Placed(cols, rows, Grown(c, rows[k]), k, ng, ni)
<1>1. PICK j \in Nat : j = k - 1 /\ k = j + 1 /\ j # 0
  OBVIOUS
<1>2. PICK x \in 1 .. n : x = rows[k]
  BY ElementOfSeq
<1>3. PICK d, g : d = Grown(c, x) /\ g = Len(c)
  OBVIOUS
<1>4. /\ d \in Seq(Seq(1 .. n)) /\ Len(d) = g /\ g \in Nat
      /\ g # 0 => /\ Len(c[g]) \in Nat /\ Len(d[g]) = Len(c[g]) + 1 /\ d[g][Len(c[g]) + 1] = x
                  /\ \A i \in 1 .. Len(c[g]) : d[g][i] = c[g][i]
      /\ \A h \in 1 .. g : h # g => d[h] = c[h]
  <2>1. d \in Seq(Seq(1 .. n)) /\ GrownIs(c, x, d, g)
    BY <1>3, CellGrows
  <2> QED BY <2>1 DEF GrownIs
<1>5. /\ \A p \in 1 .. j : /\ grp[p] \in 1 .. g /\ idx[p] \in 1 .. Len(c[grp[p]])
                           /\ c[grp[p]][idx[p]] = rows[p] /\ idx[p] <= p
      /\ \A h \in 1 .. g : \A i \in 1 .. Len(c[h]) : \E p \in 1 .. j : grp[p] = h /\ idx[p] = i
      /\ \A p, q \in 1 .. j : grp[p] = grp[q] <=> SameRow(cols, rows[p], rows[q])
      /\ grp[j] = g
  BY <1>1, <1>3 DEF Placed
<1>6. g # 0 /\ g \in 1 .. g /\ j \in 1 .. j
  <2>1. j \in 1 .. j
    BY <1>1
  <2>2. g \in 1 .. g
    BY <1>5, <2>1
  <2> QED BY <1>4, <2>1, <2>2
<1>7. PICK w \in Nat : w = Len(c[g]) /\ Len(d[g]) = w + 1 /\ d[g][w + 1] = x
                       /\ \A i \in 1 .. w : d[g][i] = c[g][i]
  BY <1>4, <1>6
<1>8. w <= j
  <2>1. CASE w = 0
    BY <2>1
  <2>2. CASE w # 0
    <3>1. PICK p \in 1 .. j : grp[p] = g /\ idx[p] = w
      <4>1. w \in 1 .. w
        BY <2>2
      <4>2. w \in 1 .. Len(c[g])
        BY <1>7, <4>1
      <4>3. \A i \in 1 .. Len(c[g]) : \E p \in 1 .. j : grp[p] = g /\ idx[p] = i
        BY <1>5, <1>6
      <4>4. PICK i \in 1 .. Len(c[g]) : i = w
        BY <4>2
      <4>5. \E p \in 1 .. j : grp[p] = g /\ idx[p] = i
        BY <4>3
      <4> QED BY <4>4, <4>5
    <3>2. idx[p] <= p
      BY <1>5, <3>1
    <3> QED BY <3>1, <3>2
  <2> QED BY <2>1, <2>2
<1> DEFINE ng == [p \in 1 .. k |-> IF p = k THEN g ELSE grp[p]]
           ni == [p \in 1 .. k |-> IF p = k THEN w + 1 ELSE idx[p]]
<1>9. /\ ng[k] = g /\ ni[k] = w + 1
      /\ \A p \in 1 .. j : p \in 1 .. k /\ p # k /\ ng[p] = grp[p] /\ ni[p] = idx[p]
      /\ \A p \in 1 .. k : p = k \/ p \in 1 .. j
  BY <1>1
<1> HIDE DEF ng, ni
<1>10. ASSUME NEW p \in 1 .. k
       PROVE  /\ ng[p] \in 1 .. g /\ ni[p] \in 1 .. Len(d[ng[p]])
              /\ d[ng[p]][ni[p]] = rows[p] /\ ni[p] <= p
  <2>1. CASE p = k
    <3>1. ng[p] = g /\ ni[p] = w + 1 /\ rows[p] = x
      BY <1>2, <1>9, <2>1
    <3>2. w + 1 \in 1 .. w + 1 /\ w + 1 <= k
      BY <1>1, <1>8
    <3> QED BY <1>6, <1>7, <2>1, <3>1, <3>2
  <2>2. CASE p \in 1 .. j
    <3>0. PICK h \in 1 .. g : h = ng[p] /\ h = grp[p]
      BY <1>5, <1>9, <2>2
    <3>1. PICK i \in 1 .. Len(c[h]) : h = ng[p] /\ i = ni[p] /\ h = grp[p] /\ i = idx[p]
      BY <1>5, <1>9, <2>2, <3>0
    <3>2. c[h][i] = rows[p] /\ i <= p
      BY <1>5, <2>2, <3>1
    <3>3. CASE h = g
      <4>0. i \in 1 .. Len(c[g])
        BY <3>3
      <4>1. i \in 1 .. w /\ i \in 1 .. w + 1
        <5>1. i \in 1 .. w
          BY <1>7, <4>0
        <5> QED BY ONLY <5>1, w \in Nat
      <4>2. d[h][i] = c[h][i] /\ i \in 1 .. Len(d[h])
        BY <1>7, <3>3, <4>1
      <4> QED BY <3>1, <3>2, <4>2
    <3>4. CASE h # g
      <4>1. d[h] = c[h]
        BY <1>4, <3>1, <3>4
      <4> QED BY <3>1, <3>2, <4>1
    <3> QED BY <3>3, <3>4
  <2> QED BY <1>9, <2>1, <2>2
<1>11. ASSUME NEW h \in 1 .. g, NEW i \in 1 .. Len(d[h])
       PROVE  \E p \in 1 .. k : ng[p] = h /\ ni[p] = i
  <2>1. CASE h = g /\ i = w + 1
    BY <1>9, <2>1
  <2>2. CASE ~ (h = g /\ i = w + 1)
    <3>1. i \in 1 .. Len(c[h])
      <4>1. CASE h = g
        <5>1. i \in 1 .. w + 1
          BY <1>7, <4>1
        <5>2. i \in 1 .. w
          BY <2>2, <4>1, <5>1
        <5> QED BY <1>7, <4>1, <5>2
      <4>2. CASE h # g
        BY <1>4, <4>2
      <4> QED BY <4>1, <4>2
    <3>2. PICK p \in 1 .. j : grp[p] = h /\ idx[p] = i
      BY <1>5, <3>1
    <3> QED BY <1>9, <3>2
  <2> QED BY <2>1, <2>2
<1>12. \A p \in 1 .. j : SameRow(cols, rows[p], rows[k]) <=> grp[p] = g
  <2> TAKE p \in 1 .. j
  <2>1. grp[p] = g <=> SameRow(cols, rows[p], rows[j])
    BY <1>5, <1>6
  <2>2. SameRow(cols, rows[j], rows[k])
    BY <1>1
  <2>3. SameRow(cols, rows[k], rows[j])
    BY <2>2, SameRowIs
  <2> QED BY <2>1, <2>2, <2>3, SameRowIs
<1>13. ASSUME NEW p \in 1 .. k, NEW q \in 1 .. k
       PROVE  ng[p] = ng[q] <=> SameRow(cols, rows[p], rows[q])
  <2>1. CASE p = k /\ q = k
    BY <2>1, SameRowIs
  <2>2. CASE p = k /\ q \in 1 .. j
    <3>1. SameRow(cols, rows[p], rows[q]) <=> SameRow(cols, rows[q], rows[p])
      BY SameRowIs
    <3>2. ng[p] = g /\ ng[q] = grp[q]
      BY <1>9, <2>2
    <3>3. SameRow(cols, rows[q], rows[p]) <=> grp[q] = g
      BY <1>12, <2>2
    <3> QED BY <3>1, <3>2, <3>3
  <2>3. CASE p \in 1 .. j /\ q = k
    <3>1. ng[q] = g /\ ng[p] = grp[p]
      BY <1>9, <2>3
    <3>2. SameRow(cols, rows[p], rows[q]) <=> grp[p] = g
      BY <1>12, <2>3
    <3> QED BY <3>1, <3>2
  <2>4. CASE p \in 1 .. j /\ q \in 1 .. j
    BY <1>5, <1>9, <2>4
  <2> QED BY <1>9, <2>1, <2>2, <2>3, <2>4
<1>14. Placed(cols, rows, d, k, ng, ni)
  BY <1>4, <1>9, <1>10, <1>11, <1>13 DEF Placed
<1> QED BY <1>2, <1>3, <1>14

LEMMA PlacedAnew ==
  ASSUME NEW cols, NEW n \in Nat, NEW rows \in Seq(1 .. n), Len(rows) = n, Gathered(cols, rows, n),
         NEW k \in 1 .. n, k > 1 => ~ SameRow(cols, rows[k - 1], rows[k]),
         NEW c \in Seq(Seq(1 .. n)), NEW grp, NEW idx,
         Placed(cols, rows, c, k - 1, grp, idx)
  PROVE  \E ng, ni : Placed(cols, rows, Append(c, <<rows[k]>>), k, ng, ni)
<1>1. PICK j \in Nat : j = k - 1 /\ k = j + 1
  OBVIOUS
<1>2. PICK x \in 1 .. n : x = rows[k]
  BY ElementOfSeq
<1>3. PICK d, g : d = Append(c, <<x>>) /\ g = Len(c)
  OBVIOUS
<1>4. /\ d \in Seq(Seq(1 .. n)) /\ Len(d) = g + 1 /\ g \in Nat
      /\ Len(d[g + 1]) = 1 /\ d[g + 1][1] = x
      /\ \A h \in 1 .. g : d[h] = c[h]
  BY <1>3, CellAdded
<1>5. /\ \A p \in 1 .. j : /\ grp[p] \in 1 .. g /\ idx[p] \in 1 .. Len(c[grp[p]])
                           /\ c[grp[p]][idx[p]] = rows[p] /\ idx[p] <= p
      /\ \A h \in 1 .. g : \A i \in 1 .. Len(c[h]) : \E p \in 1 .. j : grp[p] = h /\ idx[p] = i
      /\ \A p, q \in 1 .. j : grp[p] = grp[q] <=> SameRow(cols, rows[p], rows[q])
  <2>1. Placed(cols, rows, c, j, grp, idx)
    BY <1>1
  <2> QED BY <2>1, <1>3 DEF Placed
<1> DEFINE ng == [p \in 1 .. k |-> IF p = k THEN g + 1 ELSE grp[p]]
           ni == [p \in 1 .. k |-> IF p = k THEN 1 ELSE idx[p]]
<1>6. /\ ng[k] = g + 1 /\ ni[k] = 1
      /\ \A p \in 1 .. j : p \in 1 .. k /\ p # k /\ ng[p] = grp[p] /\ ni[p] = idx[p]
      /\ \A p \in 1 .. k : p = k \/ p \in 1 .. j
  BY <1>1
<1> HIDE DEF ng, ni
<1>7. ASSUME NEW p \in 1 .. k
      PROVE  /\ ng[p] \in 1 .. g + 1 /\ ni[p] \in 1 .. Len(d[ng[p]])
             /\ d[ng[p]][ni[p]] = rows[p] /\ ni[p] <= p
  <2>1. CASE p = k
    <3>1. g + 1 \in 1 .. g + 1 /\ 1 \in 1 .. 1 /\ 1 <= k
      BY <1>4
    <3> QED BY <1>2, <1>4, <1>6, <2>1, <3>1
  <2>2. CASE p \in 1 .. j
    <3>0. PICK h \in 1 .. g : h = ng[p] /\ h = grp[p]
      BY <1>5, <1>6, <2>2
    <3>1. PICK i \in 1 .. Len(c[h]) : h = ng[p] /\ i = ni[p] /\ h = grp[p] /\ i = idx[p]
      BY <1>5, <1>6, <2>2, <3>0
    <3>2. c[h][i] = rows[p] /\ i <= p /\ d[h] = c[h]
      BY <1>4, <1>5, <2>2, <3>1
    <3>3. h \in 1 .. g + 1
      BY <1>4
    <3> QED BY <3>1, <3>2, <3>3
  <2> QED BY <1>6, <2>1, <2>2
<1>8. ASSUME NEW h \in 1 .. g + 1, NEW i \in 1 .. Len(d[h])
      PROVE  \E p \in 1 .. k : ng[p] = h /\ ni[p] = i
  <2>1. CASE h = g + 1
    <3>1. i = 1
      <4>1. i \in 1 .. 1
        BY <1>4, <2>1
      <4> QED BY <4>1
    <3> QED BY <1>6, <2>1, <3>1
  <2>2. CASE h # g + 1
    <3>1. h \in 1 .. g
      BY <1>4, <2>2
    <3>2. i \in 1 .. Len(c[h])
      BY <1>4, <3>1
    <3>3. PICK p \in 1 .. j : grp[p] = h /\ idx[p] = i
      BY <1>5, <3>1, <3>2
    <3> QED BY <1>6, <3>3
  <2> QED BY <2>1, <2>2
<1>9. \A p \in 1 .. j : ~ SameRow(cols, rows[p], rows[k])
  <2> TAKE p \in 1 .. j
  <2>1. SUFFICES ASSUME SameRow(cols, rows[p], rows[k]) PROVE FALSE
    OBVIOUS
  <2>2. p \in 1 .. n /\ j \in 1 .. n /\ k \in 1 .. n /\ p <= j /\ j <= k /\ k > 1
    BY <1>1
  <2>3. SameRow(cols, rows[p], rows[j])
    BY <2>1, <2>2 DEF Gathered
  <2>4. SameRow(cols, rows[j], rows[p])
    BY <2>3, SameRowIs
  <2>5. SameRow(cols, rows[j], rows[k])
    BY <2>1, <2>4, SameRowIs
  <2> QED BY <1>1, <2>2, <2>5
<1>10. \A p \in 1 .. j : ng[p] # g + 1
  <2> TAKE p \in 1 .. j
  <2>1. grp[p] \in 1 .. g
    BY <1>5
  <2>2. grp[p] # g + 1
    BY <1>4, <2>1
  <2> QED BY <1>6, <2>2
<1>11. ASSUME NEW p \in 1 .. k, NEW q \in 1 .. k
       PROVE  ng[p] = ng[q] <=> SameRow(cols, rows[p], rows[q])
  <2>1. CASE p = k /\ q = k
    BY <2>1, SameRowIs
  <2>2. CASE p = k /\ q \in 1 .. j
    <3>1. ~ SameRow(cols, rows[p], rows[q])
      BY <1>9, <2>2, SameRowIs
    <3>2. ng[p] = g + 1 /\ ng[q] # g + 1
      BY <1>6, <1>10, <2>2
    <3> QED BY <3>1, <3>2
  <2>3. CASE p \in 1 .. j /\ q = k
    <3>1. ~ SameRow(cols, rows[p], rows[q])
      BY <1>9, <2>3
    <3>2. ng[q] = g + 1 /\ ng[p] # g + 1
      BY <1>6, <1>10, <2>3
    <3> QED BY <3>1, <3>2
  <2>4. CASE p \in 1 .. j /\ q \in 1 .. j
    BY <1>5, <1>6, <2>4
  <2> QED BY <1>6, <2>1, <2>2, <2>3, <2>4
<1>12. Placed(cols, rows, d, k, ng, ni)
  BY <1>4, <1>6, <1>7, <1>8, <1>11 DEF Placed
<1> QED BY <1>2, <1>3, <1>12

\* The rows of a list in which equal ones are together end up in one cell for each.
LEMMA CellsPlaced ==
  ASSUME NEW cols, NEW n \in Nat, NEW rows \in Seq(1 .. n), Len(rows) = n, Gathered(cols, rows, n)
  PROVE  \E grp, idx : Placed(cols, rows, Cells(cols, rows), n, grp, idx)
<1> DEFINE m == CellsUpto(cols, rows)
           Right(k) == \E grp, idx : Placed(cols, rows, m[k], k, grp, idx)
           T == {k \in 0 .. n : ~ Right(k)}
<1>1. /\ m \in [0 .. n -> Seq(Seq(1 .. n))]
      /\ \A k \in 0 .. n : m[k] = CellsBody(cols, rows, m, k)
  BY CellsRecursion
<1>2. ASSUME T # {} PROVE FALSE
  <2>1. T \subseteq Nat
    OBVIOUS
  <2>2. PICK k \in T : \A l \in T : k <= l
    <3> HIDE DEF T
    <3> QED BY <1>2, <2>1, LeastNatural
  <2>3. k \in 0 .. n /\ ~ Right(k)
    OBVIOUS
  <2> HIDE DEF m
  <2>4. CASE k = 0
    <3>1. m[0] = <<>>
      BY <1>1 DEF CellsBody
    <3>2. PICK none : none = <<>>
      OBVIOUS
    <3>3. Placed(cols, rows, <<>>, 0, none, none)
      BY DEF Placed
    <3> QED BY <2>3, <2>4, <3>1, <3>3
  <2>5. CASE k # 0
    <3>1. k - 1 \in 0 .. n /\ k \in 1 .. n /\ ~ k <= k - 1
      BY <2>3, <2>5
    <3>2. k - 1 \notin T
      BY <2>2, <3>1
    <3>3. Right(k - 1)
      BY <3>1, <3>2
    <3>4. PICK c \in Seq(Seq(1 .. n)) : c = m[k - 1]
      <4>1. PICK X : X = Seq(Seq(1 .. n))
        OBVIOUS
      <4> QED BY <1>1, <3>1, <4>1
    <3>5. PICK grp, idx : Placed(cols, rows, c, k - 1, grp, idx)
      BY <3>3, <3>4
    <3>6. m[k] = CellsBody(cols, rows, m, k)
      BY <1>1, <2>3
    <3>7. CASE k > 1 /\ SameRow(cols, rows[k - 1], rows[k])
      <4>1. m[k] = Grown(c, rows[k])
        BY <2>5, <3>4, <3>6, <3>7 DEF CellsBody, Grown
      <4>2. k \in 2 .. n
        BY <3>1, <3>7
      <4>3. \E ng, ni : Placed(cols, rows, Grown(c, rows[k]), k, ng, ni)
        BY <3>5, <3>7, <4>2, PlacedInLast
      <4> QED BY <2>3, <4>1, <4>3
    <3>8. CASE ~ (k > 1 /\ SameRow(cols, rows[k - 1], rows[k]))
      <4>1. m[k] = Append(c, <<rows[k]>>)
        BY <2>5, <3>4, <3>6, <3>8 DEF CellsBody
      <4>2. \E ng, ni : Placed(cols, rows, Append(c, <<rows[k]>>), k, ng, ni)
        BY <3>1, <3>5, <3>8, PlacedAnew
      <4> QED BY <2>3, <4>1, <4>2
    <3> QED BY <3>7, <3>8
  <2> QED BY <2>4, <2>5
<1>3. Right(n)
  <2>1. n \in 0 .. n /\ n \notin T
    BY <1>2
  <2> HIDE DEF m
  <2> QED BY <2>1
<1>4. m[n] = Cells(cols, rows)
  BY CellsAre
<1> QED BY <1>3, <1>4

----------------------------------------------------------------------------
(* What the primitives promise of every operand.                           *)

\* @order returns every row once, none before one that precedes it by the columns
\* and their directions, unless it is a sort by digits and finds negative numbers.
THEOREM OrderIsSorted ==
  ASSUME NEW cols, Operand(cols), TakesDigits(cols) => NoneNegative(cols),
         NEW ranks, ranks = OrderBy(cols)
  PROVE  /\ Len(ranks) = Height(cols)
         /\ \A r, q \in DOMAIN ranks :
              r < q => ranks[r] # ranks[q] /\ ~ Precedes(cols, 1, ranks[q], ranks[r])
<1>1. PICK n \in Nat : n = Height(cols)
  BY OperandColumns DEF Columns
<1>2. PICK no \in BOOLEAN : no = FALSE
  OBVIOUS
<1>3. PICK R : R = LexGood(cols, n, 1, no) /\ Listed(ranks, 1 .. n, R)
  BY <1>1, <1>2, OrderBySorts
<1>4. /\ Len(ranks) = n /\ DOMAIN ranks = 1 .. n
      /\ \A k \in 1 .. n : ranks[k] \in 1 .. n
      /\ \A k, l \in 1 .. n : ranks[k] = ranks[l] => k = l
      /\ \A k, l \in 1 .. n : k < l => <<ranks[k], ranks[l]>> \in R
  <2>1. Listed(ranks, 1 .. n, R)
    BY <1>3
  <2> QED BY ONLY <1>1, <2>1, ListedRows
<1>5. ASSUME NEW r \in 1 .. n, NEW q \in 1 .. n, r < q
      PROVE  ranks[r] # ranks[q] /\ ~ Precedes(cols, 1, ranks[q], ranks[r])
  <2>1. r # q
    BY <1>5
  <2>2. PICK a \in 1 .. n, b \in 1 .. n : a = ranks[r] /\ b = ranks[q]
    BY <1>4
  <2>3. <<a, b>> \in LexGood(cols, n, 1, no)
    BY <1>3, <1>4, <1>5, <2>2
  <2>4. ~ Precedes(cols, 1, b, a)
    BY <2>3, LexGoodIs
  <2> QED BY <1>4, <2>1, <2>2, <2>4
<1> QED BY <1>1, <1>4, <1>5

LEMMA OrderListsRows ==
  ASSUME NEW cols, Operand(cols), TakesDigits(cols) => NoneNegative(cols),
         NEW ranks, ranks = OrderBy(cols), NEW n, n = Height(cols), NEW r \in DOMAIN ranks
  PROVE  ranks[r] \in 1 .. n
<1>1. n \in Nat
  BY OperandColumns DEF Columns
<1>2. PICK no \in BOOLEAN : no = FALSE
  OBVIOUS
<1>3. PICK R : R = LexGood(cols, n, 1, no) /\ Listed(ranks, 1 .. n, R)
  BY <1>2, OrderBySorts
<1>4. DOMAIN ranks = 1 .. n /\ \A k \in 1 .. n : ranks[k] \in 1 .. n
  <2>1. Listed(ranks, 1 .. n, R)
    BY <1>3
  <2> QED BY ONLY <1>1, <2>1, ListedRows
<1> QED BY <1>4

\* @order of ascending columns of integers keeps equal rows in the order of their
\* numbers, negative values or not.
THEOREM OrderKeepsEqual ==
  ASSUME NEW cols, Operand(cols), \A k \in DOMAIN cols : cols[k].isUp /\ cols[k].type # "other",
         NEW ranks, ranks = OrderBy(cols)
  PROVE  \A r, q \in DOMAIN ranks : r < q /\ KeyedBy(cols, ranks[r], ranks[q]) => ranks[r] < ranks[q]
<1>1. PICK n \in Nat : n = Height(cols)
  BY OperandColumns DEF Columns
<1>2. PICK R : R = EqualStay(cols, n)
  OBVIOUS
<1>3. Listed(ranks, 1 .. n, R)
  BY <1>1, <1>2, OrderByKeepsEqual
<1>4. /\ DOMAIN ranks = 1 .. n
      /\ \A k \in 1 .. n : ranks[k] \in 1 .. n
      /\ \A k, l \in 1 .. n : k < l => <<ranks[k], ranks[l]>> \in R
  BY ONLY <1>1, <1>3, ListedRows
<1>5. ASSUME NEW r \in 1 .. n, NEW q \in 1 .. n, r < q, KeyedBy(cols, ranks[r], ranks[q])
      PROVE  ranks[r] < ranks[q]
  <2>1. PICK a \in 1 .. n, b \in 1 .. n : a = ranks[r] /\ b = ranks[q]
    BY <1>4
  <2>2. <<a, b>> \in EqualStay(cols, n)
    BY <1>2, <1>4, <1>5, <2>1
  <2>3. KeyedBy(cols, a, b) => a < b
    BY <2>2 DEF EqualStay
  <2> QED BY <1>5, <2>1, <2>3
<1> QED BY <1>4, <1>5

LEMMA UpwardsAlready ==
  ASSUME NEW cols, Operand(cols), \A k \in DOMAIN cols : cols[k].isUp
  PROVE  [k \in DOMAIN cols |-> [cols[k] EXCEPT !.isUp = TRUE]] = cols
<1>1. DOMAIN cols = 1 .. Len(cols) /\ Columns(cols, Height(cols))
  BY OperandColumns
<1>2. cols \in Seq([type : {"i32", "i64", "other"}, val : Seq(Int), isUp : BOOLEAN])
  BY DEF Operand
<1>3. cols = [k \in DOMAIN cols |-> cols[k]]
  <2>1. PICK C : C = [type : {"i32", "i64", "other"}, val : Seq(Int), isUp : BOOLEAN]
    OBVIOUS
  <2>2. cols \in Seq(C)
    BY <1>2, <2>1
  <2> QED BY ONLY <2>2
<1>4. \A k \in DOMAIN cols : [cols[k] EXCEPT !.isUp = TRUE] = cols[k]
  <2> TAKE k \in DOMAIN cols
  <2>1. Column(cols[k], Height(cols))
    BY <1>1 DEF Columns
  <2>2. PICK d : d = cols[k]
    OBVIOUS
  <2>3. d \in [type : {"i32", "i64", "other"}, val : Seq(Int), isUp : BOOLEAN] /\ d.isUp = TRUE
    BY <2>1, <2>2 DEF Column
  <2>4. [d EXCEPT !.isUp = TRUE] = d
    BY <2>3
  <2> QED BY <2>2, <2>4
<1> QED BY <1>3, <1>4

\* The places of the cells.
CellPlaces(cols, ranks) ==
  {s \in (DOMAIN ranks) \X (1 .. Height(cols)) : s[2] <= Len(ranks[s[1]])}

\* @group of ascending columns puts every row into one cell, and two rows into the
\* same cell exactly when they are equal.
THEOREM GroupIsPartition ==
  ASSUME NEW cols, Operand(cols), \A k \in DOMAIN cols : cols[k].isUp,
         Packs(cols) \/ (Len(cols) = 1 /\ cols[1].type = "i64") => NoneNegative(cols),
         NEW ranks, ranks = GroupBy(cols), NEW at, at = CellPlaces(cols, ranks)
  PROVE  /\ \A r \in 1 .. Height(cols) : \E p \in at : ranks[p[1]][p[2]] = r
         /\ \A p, q \in at :
              /\ ranks[p[1]][p[2]] = ranks[q[1]][q[2]] => p = q
              /\ KeyedBy(cols, ranks[p[1]][p[2]], ranks[q[1]][q[2]]) <=> p[1] = q[1]
<1>1. PICK n \in Nat : n = Height(cols)
  BY OperandColumns DEF Columns
<1>2. PICK rows, R : rows = OrderBy(cols) /\ Listed(rows, 1 .. n, R) /\ Gathered(cols, rows, n)
  BY <1>1, OrderGathers
<1>3. ranks = Cells(cols, rows)
  BY <1>2, UpwardsAlready DEF GroupBy
<1>4. /\ Len(rows) = n /\ rows \in Seq(1 .. n)
      /\ \A k \in 1 .. n : rows[k] \in 1 .. n
      /\ \A r \in 1 .. n : \E k \in 1 .. n : rows[k] = r
      /\ \A k, l \in 1 .. n : rows[k] = rows[l] => k = l
  <2>1. Listed(rows, 1 .. n, R)
    BY <1>2
  <2> QED BY ONLY <1>1, <2>1, ListedRows
<1>5. PICK grp, idx : Placed(cols, rows, ranks, n, grp, idx)
  <2>1. Gathered(cols, rows, n) /\ n \in Nat /\ rows \in Seq(1 .. n) /\ Len(rows) = n
    BY <1>2, <1>4
  <2>2. \E grp, idx : Placed(cols, rows, Cells(cols, rows), n, grp, idx)
    BY ONLY <2>1, CellsPlaced
  <2> QED BY ONLY <1>3, <2>2
<1>6. PICK m \in Nat : m = Len(ranks) /\ DOMAIN ranks = 1 .. m /\ \A g \in 1 .. m : Len(ranks[g]) \in Nat
  <2>1. CellsUpto(cols, rows) \in [0 .. n -> Seq(Seq(1 .. n))]
    BY <1>4, CellsRecursion
  <2>2. ranks = CellsUpto(cols, rows)[n]
    BY <1>3, <1>4, CellsAre
  <2>3. PICK Y, Z : Y = Seq(1 .. n) /\ Z = Seq(Y)
    OBVIOUS
  <2>4. CellsUpto(cols, rows) \in [0 .. n -> Z] /\ n \in 0 .. n
    BY <2>1, <2>3
  <2>5. ranks \in Z
    BY <2>2, <2>4
  <2>6. ranks \in Seq(Y)
    BY <2>3, <2>5
  <2>7. Len(ranks) \in Nat /\ DOMAIN ranks = 1 .. Len(ranks)
    BY ONLY <2>6
  <2>8. \A g \in 1 .. Len(ranks) : ranks[g] \in Y
    BY ONLY <2>6, ElementOfSeq
  <2>9. \A t \in Y : Len(t) \in Nat
    BY <2>3
  <2> QED BY <2>7, <2>8, <2>9, Zenon
<1>7. /\ \A p \in 1 .. n : /\ grp[p] \in 1 .. m /\ idx[p] \in 1 .. Len(ranks[grp[p]])
                           /\ ranks[grp[p]][idx[p]] = rows[p] /\ idx[p] <= p
      /\ \A g \in 1 .. m : \A k \in 1 .. Len(ranks[g]) : \E p \in 1 .. n : grp[p] = g /\ idx[p] = k
      /\ \A p, q \in 1 .. n : grp[p] = grp[q] <=> SameRow(cols, rows[p], rows[q])
  BY <1>5, <1>6 DEF Placed
<1>8. \A p \in 1 .. n : <<grp[p], idx[p]>> \in at
  <2> TAKE p \in 1 .. n
  <2>1. PICK g \in 1 .. m : g = grp[p]
    BY <1>7
  <2>2. PICK k \in 1 .. Len(ranks[g]) : k = idx[p] /\ k <= p
    BY <1>7, <2>1
  <2>3. Len(ranks[g]) \in Nat
    BY <1>6
  <2>4. k \in 1 .. n /\ k <= Len(ranks[g])
    BY <2>2, <2>3
  <2>5. <<g, k>> \in at
    BY <1>1, <1>6, <2>4 DEF CellPlaces
  <2> QED BY <2>1, <2>2, <2>5
<1>9. ASSUME NEW s \in at
      PROVE  \E p \in 1 .. n : /\ grp[p] = s[1] /\ idx[p] = s[2] /\ s = <<s[1], s[2]>>
                               /\ ranks[s[1]][s[2]] = rows[p]
  <2>1. s \in (1 .. m) \X (1 .. n) /\ s[2] <= Len(ranks[s[1]])
    BY <1>1, <1>6 DEF CellPlaces
  <2>2. PICK g \in 1 .. m, k \in 1 .. n : s = <<g, k>> /\ g = s[1] /\ k = s[2]
    BY <2>1
  <2>3. Len(ranks[g]) \in Nat /\ k <= Len(ranks[g])
    BY <1>6, <2>1, <2>2
  <2>4. PICK l \in 1 .. Len(ranks[g]) : l = k
    BY <2>3
  <2>5. PICK p \in 1 .. n : grp[p] = g /\ idx[p] = l
    BY <1>7
  <2>6. ranks[grp[p]][idx[p]] = rows[p]
    BY <1>7
  <2> QED BY <2>2, <2>4, <2>5, <2>6
<1>10. ASSUME NEW r \in 1 .. n PROVE \E p \in at : ranks[p[1]][p[2]] = r
  <2>1. PICK k \in 1 .. n : rows[k] = r
    BY <1>4
  <2>2. PICK s \in at : s = <<grp[k], idx[k]>>
    BY <1>8
  <2>3. s[1] = grp[k] /\ s[2] = idx[k]
    BY <2>2
  <2>4. ranks[grp[k]][idx[k]] = rows[k]
    BY <1>7
  <2>5. ranks[s[1]][s[2]] = r
    BY <2>1, <2>3, <2>4
  <2> QED BY <2>5
<1>11. ASSUME NEW p \in at, NEW q \in at
       PROVE  /\ ranks[p[1]][p[2]] = ranks[q[1]][q[2]] => p = q
              /\ KeyedBy(cols, ranks[p[1]][p[2]], ranks[q[1]][q[2]]) <=> p[1] = q[1]
  <2>1. PICK k \in 1 .. n : /\ grp[k] = p[1] /\ idx[k] = p[2] /\ p = <<p[1], p[2]>>
                            /\ ranks[p[1]][p[2]] = rows[k]
    BY <1>9
  <2>2. PICK l \in 1 .. n : /\ grp[l] = q[1] /\ idx[l] = q[2] /\ q = <<q[1], q[2]>>
                            /\ ranks[q[1]][q[2]] = rows[l]
    BY <1>9
  <2>3. ASSUME ranks[p[1]][p[2]] = ranks[q[1]][q[2]] PROVE p = q
    <3>0. rows[k] = rows[l]
      BY <2>1, <2>2, <2>3
    <3>1. k = l
      BY <1>4, <3>0
    <3> QED BY <2>1, <2>2, <3>1
  <2>4. SameRow(cols, rows[k], rows[l]) <=> p[1] = q[1]
    <3>1. SameRow(cols, rows[k], rows[l]) <=> grp[k] = grp[l]
      BY <1>7
    <3> QED BY ONLY <2>1, <2>2, <3>1
  <2>5. KeyedBy(cols, rows[k], rows[l]) <=> SameRow(cols, rows[k], rows[l])
    BY DEF KeyedBy, SameRow, Differ
  <2> QED BY <2>1, <2>2, <2>3, <2>4, <2>5
<1> QED BY <1>1, <1>10, <1>11
=============================================================================
