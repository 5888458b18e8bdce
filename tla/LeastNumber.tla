---------------------------- MODULE LeastNumber ----------------------------
(* The least-number principle, which the proof modules use for induction,  *)
(* and the functions that a recursion defines.                             *)
EXTENDS Integers, TLAPS, WellFoundedInduction

\* A set of naturals has a least element.  With this fact a property of the
\* naturals is proved by looking at its least counterexample.
LEMMA LeastNatural ==
  ASSUME NEW T, T \subseteq Nat, T # {}
  PROVE  \E x \in T : \A y \in T : x <= y
<1>1. PICK x \in T : \A y \in T : ~ (<<y, x>> \in OpToRel(<, Nat))
  BY NatLessThanWellFounded, WFMin
<1>2. \A y \in T : y < x => <<y, x>> \in OpToRel(<, Nat)
  BY DEF OpToRel
<1>3. \A y \in T : ~ (y < x)
  BY ONLY <1>1, <1>2, Zenon
<1> QED BY <1>3

\* The same by a measure.
LEMMA LeastByMeasure ==
  ASSUME NEW S, NEW mu \in [S -> Nat], NEW T, T \subseteq S, T # {}
  PROVE  \E s \in T : \A t \in T : mu[s] <= mu[t]
<1> DEFINE M == {mu[s] : s \in T}
<1>1. M \subseteq Nat /\ M # {}
  OBVIOUS
<1> HIDE DEF M
<1>2. PICK m \in M : \A n \in M : m <= n
  BY <1>1, LeastNatural
<1>3. PICK s \in T : m = mu[s]
  BY <1>2 DEF M
<1>4. \A t \in T : mu[t] \in M
  BY DEF M
<1> QED BY <1>2, <1>3, <1>4

----------------------------------------------------------------------------
(* A recursion G takes an argument and a function, and gives the value for *)
(* the argument; it looks the function up only at smaller arguments.  Of   *)
(* functions with values in X it makes values in X.                        *)

Recursion(G, S, X, Y, mu) ==
  /\ mu \in [S -> Nat] /\ X \subseteq Y
  /\ \A s \in S : \A f \in [S -> X] : G[s][f] \in X
  /\ \A s \in S : \A f, g \in [S -> Y] :
       (\A t \in S : mu[t] < mu[s] => f[t] = g[t]) => G[s][f] = G[s][g]

Solves(f, G, S, X, mu, n) ==
  f \in [S -> X] /\ \A s \in S : mu[s] < n => f[s] = G[s][f]

LEMMA SolutionsAgree ==
  ASSUME NEW S, NEW X, NEW Y, NEW mu, NEW G, Recursion(G, S, X, Y, mu), NEW n \in Nat, NEW m \in Nat,
         NEW f, NEW g, Solves(f, G, S, X, mu, n), Solves(g, G, S, X, mu, m)
  PROVE  \A s \in S : mu[s] < n /\ mu[s] < m => f[s] = g[s]
<1> DEFINE T == {t \in S : mu[t] < n /\ mu[t] < m /\ f[t] # g[t]}
<1>1. f \in [S -> Y] /\ g \in [S -> Y] /\ mu \in [S -> Nat]
  BY DEF Solves, Recursion
<1>2. \A t \in S : mu[t] < n => f[t] = G[t][f]
  BY DEF Solves
<1>3. \A t \in S : mu[t] < m => g[t] = G[t][g]
  BY DEF Solves
<1>4. ASSUME T # {} PROVE FALSE
  <2>1. T \subseteq S
    OBVIOUS
  <2>2. PICK t \in T : \A u \in T : mu[t] <= mu[u]
    <3> HIDE DEF T
    <3> QED BY <1>1, <1>4, <2>1, LeastByMeasure
  <2>3. t \in S /\ mu[t] < n /\ mu[t] < m /\ f[t] # g[t]
    OBVIOUS
  <2>4. \A u \in S : mu[u] \in Nat
    BY <1>1
  <2>5. ASSUME NEW u \in S, mu[u] < mu[t] PROVE f[u] = g[u]
    <3>1. mu[u] < n /\ mu[u] < m /\ ~ mu[t] <= mu[u]
      BY <2>3, <2>4, <2>5
    <3> QED BY <2>2, <3>1
  <2>6. G[t][f] = G[t][g]
    BY <1>1, <2>3, <2>5 DEF Recursion
  <2> QED BY <1>2, <1>3, <2>3, <2>6
<1> QED BY <1>4

LEMMA SolutionsExist ==
  ASSUME NEW S, NEW X, NEW x \in X, NEW Y, NEW mu, NEW G, Recursion(G, S, X, Y, mu), NEW n \in Nat
  PROVE  \E f : Solves(f, G, S, X, mu, n)
<1> DEFINE Upto(k) == \E f : Solves(f, G, S, X, mu, k)
           T == {k \in Nat : ~ Upto(k)}
<1>0. /\ mu \in [S -> Nat] /\ \A s \in S : \A f \in [S -> X] : G[s][f] \in X
      /\ \A f \in [S -> X] : f \in [S -> Y]
  BY DEF Recursion
<1>1. Upto(0)
  <2>1. Solves([s \in S |-> x], G, S, X, mu, 0)
    BY <1>0 DEF Solves
  <2> QED BY <2>1
<1>2. ASSUME NEW k \in Nat, Upto(k) PROVE Upto(k + 1)
  <2>1. PICK f : Solves(f, G, S, X, mu, k)
    BY <1>2
  <2> DEFINE g == [s \in S |-> G[s][f]]
  <2>2. f \in [S -> X] /\ \A s \in S : mu[s] < k => f[s] = G[s][f]
    BY <2>1 DEF Solves
  <2>3. g \in [S -> X] /\ \A s \in S : g[s] = G[s][f]
    BY <1>0, <2>2
  <2> HIDE DEF g
  <2>4. ASSUME NEW s \in S, mu[s] < k + 1 PROVE g[s] = G[s][g]
    <3>1. \A t \in S : mu[t] < mu[s] => mu[t] < k
      BY <1>0, <2>4
    <3>2. \A t \in S : mu[t] < mu[s] => f[t] = g[t]
      BY <3>1, <2>2, <2>3
    <3>3. G[s][f] = G[s][g]
      BY <1>0, <2>2, <2>3, <3>2 DEF Recursion
    <3> QED BY <2>3, <3>3
  <2>5. Solves(g, G, S, X, mu, k + 1)
    BY <2>3, <2>4 DEF Solves
  <2> QED BY <2>5
<1> HIDE DEF Upto
<1>3. ASSUME T # {} PROVE FALSE
  <2>1. T \subseteq Nat
    OBVIOUS
  <2>2. PICK k \in T : \A i \in T : k <= i
    <3> HIDE DEF T
    <3> QED BY <1>3, <2>1, LeastNatural
  <2>3. k \in Nat /\ ~ Upto(k)
    OBVIOUS
  <2>4. k # 0
    BY <2>3, <1>1
  <2>5. k - 1 \in Nat /\ ~ k <= k - 1 /\ (k - 1) + 1 = k
    BY <2>3, <2>4
  <2>6. Upto(k - 1)
    BY <2>2, <2>5
  <2>7. Upto((k - 1) + 1)
    BY <2>5, <2>6, <1>2
  <2> QED BY <2>3, <2>5, <2>7
<1>4. Upto(n)
  BY <1>3
<1> QED BY <1>4 DEF Upto

LEMMA RecursiveFunction ==
  ASSUME NEW S, NEW X, NEW x \in X, NEW Y, NEW mu, NEW G, Recursion(G, S, X, Y, mu)
  PROVE  \E f \in [S -> X] : f = [s \in S |-> G[s][f]]
<1> DEFINE F(n) == CHOOSE f : Solves(f, G, S, X, mu, n)
           h == [s \in S |-> F(mu[s] + 1)[s]]
<1>0. /\ mu \in [S -> Nat] /\ \A s \in S : \A f \in [S -> X] : G[s][f] \in X
      /\ \A f \in [S -> X] : f \in [S -> Y]
  BY DEF Recursion
<1>1. \A n \in Nat : Solves(F(n), G, S, X, mu, n)
  BY SolutionsExist
<1> HIDE DEF F
<1>2. ASSUME NEW s \in S
      PROVE  /\ mu[s] + 1 \in Nat /\ mu[s] < mu[s] + 1
             /\ F(mu[s] + 1) \in [S -> X] /\ F(mu[s] + 1)[s] = G[s][F(mu[s] + 1)]
  <2>1. mu[s] + 1 \in Nat /\ mu[s] < mu[s] + 1
    BY <1>0
  <2> QED BY <1>1, <2>1 DEF Solves
<1>3. h \in [S -> X] /\ \A s \in S : h[s] = F(mu[s] + 1)[s]
  BY <1>2
<1> HIDE DEF h
<1>4. ASSUME NEW s \in S PROVE h[s] = G[s][h]
  <2>1. ASSUME NEW t \in S, mu[t] < mu[s] PROVE F(mu[s] + 1)[t] = h[t]
    <3>1. PICK n \in Nat, m \in Nat : n = mu[s] + 1 /\ m = mu[t] + 1
      BY <1>2
    <3>2. mu[t] < n /\ mu[t] < m
      BY <1>0, <2>1, <3>1
    <3>3. Solves(F(n), G, S, X, mu, n) /\ Solves(F(m), G, S, X, mu, m)
      BY <1>1
    <3>4. F(n)[t] = F(m)[t]
      BY <3>2, <3>3, SolutionsAgree
    <3> QED BY <3>1, <3>4, <1>3
  <2>2. G[s][F(mu[s] + 1)] = G[s][h]
    BY <1>0, <1>2, <1>3, <2>1 DEF Recursion
  <2> QED BY <1>2, <1>3, <2>2
<1>5. h = [s \in S |-> G[s][h]]
  BY <1>3, <1>4
<1> QED BY <1>3, <1>5

LEMMA RecursionTyped ==
  ASSUME NEW S, NEW X, NEW x \in X, NEW Y, NEW mu, NEW G, Recursion(G, S, X, Y, mu),
         NEW f \in [S -> Y], \A s \in S : f[s] = G[s][f]
  PROVE  f \in [S -> X]
<1> DEFINE T == {s \in S : f[s] \notin X}
           g == [s \in S |-> IF f[s] \in X THEN f[s] ELSE x]
<1>1. /\ mu \in [S -> Nat] /\ g \in [S -> X] /\ g \in [S -> Y]
      /\ \A s \in S : f[s] \in X => g[s] = f[s]
  BY DEF Recursion
<1> HIDE DEF g
<1>2. ASSUME T # {} PROVE FALSE
  <2>1. T \subseteq S
    OBVIOUS
  <2>2. PICK s \in T : \A t \in T : mu[s] <= mu[t]
    <3> HIDE DEF T
    <3> QED BY <1>1, <1>2, <2>1, LeastByMeasure
  <2>3. s \in S /\ f[s] \notin X
    OBVIOUS
  <2>4. \A t \in S : mu[t] < mu[s] => ~ mu[s] <= mu[t]
    BY <1>1, <2>3
  <2>5. \A t \in S : mu[t] < mu[s] => f[t] = g[t]
    BY <1>1, <2>2, <2>4
  <2>6. G[s][f] = G[s][g]
    BY <1>1, <2>3, <2>5 DEF Recursion
  <2>7. G[s][g] \in X
    BY <1>1, <2>3 DEF Recursion
  <2> QED BY <2>3, <2>6, <2>7
<1> QED BY <1>2
=============================================================================
