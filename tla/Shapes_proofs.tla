--------------------------- MODULE Shapes_proofs ---------------------------
(***************************************************************************)
(* What the shape pass says of a variable is true of every value it has,   *)
(* whatever the order in which the statements run and however often,       *)
(* unless a gap of the rules is behind it; for any number of variables,    *)
(* tables, ShapeNodes and statements.                                      *)
(*                                                                         *)
(* The rules are proved one by one to be Sound: what they say of a result  *)
(* follows from what the shapes of the operands say, of whatever lengths.  *)
(* Since a known shape never changes, this still holds when the pass is    *)
(* over.                                                                   *)
(***************************************************************************)
EXTENDS Shapes, TLAPS

----------------------------------------------------------------------------
(* The invariant.                                                          *)

\* The types.
Typed ==
  /\ nodes \in Seq(ShapeNode) /\ shapeId \in Nat
  /\ hashScan \in Seq(DOMAIN nodes)
  /\ hashMeta \in [Tables -> Nat \cup {None}]
  /\ rows \in [Tables -> Lengths]
  /\ shape \in [Variables -> DOMAIN nodes \cup {None}]
  /\ running \in BOOLEAN
  /\ val \in [Variables -> Lengths \cup {None}]
  /\ astray \subseteq Bound

\* The variables of the statements have shapes.
Scanned(s) ==
  /\ s.target \in Shaped /\ s.said \in ShapeNode
  /\ \A i \in DOMAIN s.args : s.args[i] \in Shaped
CodeScanned == \A s \in code : Scanned(s)

\* Every number has been given; every table has one of its own.
IsNumber(s) == ~ IsUnknown(s) /\ s.kind = "id"
NumbersGiven ==
  /\ \A p \in DOMAIN nodes : IsNumber(nodes[p]) => nodes[p].size < shapeId
  /\ \A s \in code : IsNumber(s.said) => s.said.size < shapeId
  /\ \A t \in Tables : hashMeta[t] # None =>
       /\ hashMeta[t] < shapeId
       /\ \A u \in Tables : hashMeta[u] = hashMeta[t] => u = t

\* If the shapes of the operands are true of their lengths, then what the rule
\* said is true of the length of the value.
Sound(s) ==
  \A len \in [Variables -> Lengths \cup {None}], n \in Lengths :
    /\ \A i \in DOMAIN s.args : /\ len[s.args[i]] # None
                                /\ IsTrue(nodes[shape[s.args[i]]], len[s.args[i]])
    /\ Yields(s, len, n)
    => IsTrue(s.said, n)
CodeSound == \A s \in code : s.gap \/ Sound(s)

\* Nothing has a value before the method runs; then every shape is true.
NothingBound == ~ running => Bound = {}
AllTrue == \A v \in Bound \ astray : v \in Shaped /\ IsTrue(nodes[shape[v]], val[v])

IInv ==
  /\ Typed /\ CodeScanned /\ NumbersGiven /\ CodeSound /\ NothingBound /\ AllTrue

----------------------------------------------------------------------------
(* What a rule returns.                                                    *)

\* It adds nodes, numbers and addresses, and changes none.
Extends(r) ==
  /\ r.nodes \in Seq(ShapeNode) /\ Len(nodes) <= Len(r.nodes)
  /\ \A p \in 1 .. Len(nodes) : r.nodes[p] = nodes[p]
  /\ r.at \in 1 .. Len(r.nodes)
  /\ r.ids \in Nat /\ shapeId <= r.ids
  /\ \A p \in 1 .. Len(r.nodes) : IsNumber(r.nodes[p]) => r.nodes[p].size < r.ids
  /\ r.scans \in Seq(DOMAIN nodes)

LEMMA SizesOfNodes ==
  ASSUME Typed
  PROVE  /\ DOMAIN nodes = 1 .. Len(nodes) /\ Len(nodes) \in Nat
         /\ \A p \in DOMAIN nodes : nodes[p] \in ShapeNode
         /\ MaxLength \in Nat /\ FirstScan \in Nat /\ None \notin Nat
         /\ Lengths \subseteq Nat /\ None \notin Lengths
  BY ShapesAssumption DEF Typed, ShapesAssumption, Lengths

\* The node of a shape that is passed on.
LEMMA SameExtends ==
  ASSUME Typed, NumbersGiven, NEW p \in DOMAIN nodes
  PROVE  Extends(Same(p)) /\ Same(p).nodes[Same(p).at] = nodes[p]
<1>1. Same(p) = [nodes |-> nodes, at |-> p, ids |-> shapeId, scans |-> hashScan]
  BY DEF Same, Result
<1> QED BY <1>1, SizesOfNodes DEF Extends, Typed, NumbersGiven

\* A new node.
LEMMA NewExtends ==
  ASSUME Typed, NumbersGiven, NEW s \in ShapeNode,
         NEW r, r.nodes = Append(nodes, s), r.at = Len(nodes) + 1,
         r.ids \in Nat, shapeId <= r.ids, IsNumber(s) => s.size < r.ids,
         r.scans \in Seq(DOMAIN nodes)
  PROVE  Extends(r) /\ r.nodes[r.at] = s
<1> DEFINE q == Append(nodes, s)
<1>1. /\ q \in Seq(ShapeNode) /\ Len(q) = Len(nodes) + 1 /\ q[Len(nodes) + 1] = s
      /\ \A p \in 1 .. Len(nodes) : q[p] = nodes[p]
      /\ Len(nodes) \in Nat
  BY DEF Typed
<1>2. r.nodes = q
  OBVIOUS
<1> HIDE DEF q
<1>3. Len(nodes) <= Len(q) /\ Len(nodes) + 1 \in 1 .. Len(q)
  BY <1>1
<1>4. r.nodes[r.at] = s
  BY <1>1, <1>2
<1>5. r.nodes \in Seq(ShapeNode) /\ Len(nodes) <= Len(r.nodes) /\ r.at \in 1 .. Len(r.nodes)
  BY <1>1, <1>2, <1>3
<1>6. \A p \in 1 .. Len(nodes) : r.nodes[p] = nodes[p]
  BY <1>1, <1>2
<1>7. ASSUME NEW p \in 1 .. Len(r.nodes), IsNumber(r.nodes[p])
      PROVE  r.nodes[p].size < r.ids
  <2>1. CASE p \in 1 .. Len(nodes)
    <3>1. nodes[p] \in ShapeNode /\ nodes[p].size < shapeId
      BY <1>6, <1>7, <2>1, SizesOfNodes DEF NumbersGiven
    <3>2. nodes[p].size \in Nat /\ shapeId \in Nat
      BY <3>1 DEF ShapeNode, Typed
    <3> QED BY <1>6, <2>1, <3>1, <3>2
  <2>2. CASE p = Len(nodes) + 1
    BY <1>4, <1>7, <2>2
  <2> QED BY <1>1, <1>2, <2>1, <2>2
<1> QED BY <1>4, <1>5, <1>6, <1>7 DEF Extends

LEMMA ConstExtends ==
  ASSUME Typed, NumbersGiven, NEW n \in Nat
  PROVE  /\ Extends(Const(n))
         /\ Const(n).nodes[Const(n).at] = [type |-> "vector", kind |-> "const", size |-> n]
<1> DEFINE s == [type |-> "vector", kind |-> "const", size |-> n]
           r == Const(n)
<1>1. s \in ShapeNode /\ ~ IsNumber(s)
  BY DEF ShapeNode, Kinds, IsNumber
<1>2. r.nodes = Append(nodes, s) /\ r.at = Len(nodes) + 1 /\ r.ids = shapeId /\ r.scans = hashScan
  BY DEF Const, NewShapeNode, Result
<1>3. shapeId \in Nat /\ shapeId <= shapeId /\ hashScan \in Seq(DOMAIN nodes)
  BY DEF Typed
<1> HIDE DEF s, r
<1>4. Extends(r) /\ r.nodes[r.at] = s
  BY <1>1, <1>2, <1>3, NewExtends
<1> QED BY <1>4 DEF s, r

LEMMA UnknownExtends ==
  ASSUME Typed, NumbersGiven
  PROVE  Extends(Unknown) /\ IsUnknown(Unknown.nodes[Unknown.at])
<1> DEFINE s == [type |-> "unknown", kind |-> "id", size |-> 0]
<1>1. s \in ShapeNode /\ ~ IsNumber(s) /\ IsUnknown(s)
  BY DEF ShapeNode, Kinds, IsNumber, IsUnknown
<1>2. /\ Unknown.nodes = Append(nodes, s) /\ Unknown.at = Len(nodes) + 1
      /\ Unknown.ids = shapeId /\ Unknown.scans = hashScan
  BY DEF Unknown, NewShapeNode, Result
<1>3. shapeId \in Nat /\ shapeId <= shapeId /\ hashScan \in Seq(DOMAIN nodes)
  BY DEF Typed
<1> HIDE DEF s
<1>4. Extends(Unknown) /\ Unknown.nodes[Unknown.at] = s
  BY <1>1, <1>2, <1>3, NewExtends
<1> QED BY <1>1, <1>4

\* A fresh number says nothing: no table has it.
LEMMA FreshExtends ==
  ASSUME Typed, NumbersGiven
  PROVE  Extends(Fresh) /\ \A n : IsTrue(Fresh.nodes[Fresh.at], n)
<1> DEFINE s == [type |-> "vector", kind |-> "id", size |-> shapeId]
<1>1. s \in ShapeNode /\ s.kind = "id" /\ s.size = shapeId /\ shapeId \in Nat
  BY DEF ShapeNode, Kinds, Typed
<1>2. /\ Fresh.nodes = Append(nodes, s) /\ Fresh.at = Len(nodes) + 1
      /\ Fresh.ids = shapeId + 1 /\ Fresh.scans = hashScan
  BY DEF Fresh, NewShapeNode, Result
<1>3. shapeId + 1 \in Nat /\ shapeId <= shapeId + 1 /\ s.size < shapeId + 1 /\ hashScan \in Seq(DOMAIN nodes)
  BY <1>1 DEF Typed
<1> HIDE DEF s
<1>4. Extends(Fresh) /\ Fresh.nodes[Fresh.at] = s
  BY <1>1, <1>2, <1>3, NewExtends
<1>5. ASSUME NEW t \in Tables, hashMeta[t] = s.size
      PROVE  FALSE
  <2>1. hashMeta[t] # None
    BY <1>1, <1>5, SizesOfNodes
  <2>2. hashMeta[t] < shapeId
    BY <2>1 DEF NumbersGiven
  <2> QED BY <1>1, <1>5, <2>2
<1>6. \A n : IsTrue(s, n)
  BY <1>1, <1>5 DEF IsTrue
<1> QED BY <1>4, <1>6

\* The number of a table is true of its columns.
LEMMA NumberedExtends ==
  ASSUME Typed, NumbersGiven, NEW t \in Tables, hashMeta[t] # None
  PROVE  LET r == Numbered(hashMeta[t]) IN Extends(r) /\ IsTrue(r.nodes[r.at], rows[t])
<1> DEFINE s == [type |-> "vector", kind |-> "id", size |-> hashMeta[t]]
           r == Numbered(hashMeta[t])
<1>1. s \in ShapeNode /\ s.kind = "id" /\ s.size = hashMeta[t] /\ s.size \in Nat /\ shapeId \in Nat
  BY DEF ShapeNode, Kinds, Typed
<1>2. r.nodes = Append(nodes, s) /\ r.at = Len(nodes) + 1 /\ r.ids = shapeId /\ r.scans = hashScan
  BY DEF Numbered, NewShapeNode, Result
<1> HIDE DEF s, r
<1>3. s.size < shapeId /\ \A u \in Tables : hashMeta[u] = s.size => u = t
  BY <1>1 DEF NumbersGiven
<1>4. shapeId <= shapeId /\ hashScan \in Seq(DOMAIN nodes)
  BY <1>1 DEF Typed
<1>5. Extends(r) /\ r.nodes[r.at] = s
  BY <1>1, <1>2, <1>3, <1>4, NewExtends
<1>6. IsTrue(s, rows[t])
  BY <1>1, <1>3 DEF IsTrue
<1> QED BY <1>5, <1>6 DEF r

\* The number of a selection says nothing of its length.
LEMMA ScanExtends ==
  ASSUME Typed, NumbersGiven, NEW p \in DOMAIN nodes
  PROVE  LET r == NewShapeNodeScan(p) IN Extends(r) /\ \A n : IsTrue(r.nodes[r.at], n)
<1> DEFINE scans == IF \E i \in DOMAIN hashScan : hashScan[i] = p THEN hashScan ELSE Append(hashScan, p)
           at == CHOOSE i \in DOMAIN scans : scans[i] = p
           s == [type |-> "vector", kind |-> "scan", size |-> FirstScan + at - 1]
           r == NewShapeNodeScan(p)
<1>0. hashScan \in Seq(DOMAIN nodes)
  BY DEF Typed
<1>1. scans \in Seq(DOMAIN nodes)
  <2>1. Append(hashScan, p) \in Seq(DOMAIN nodes)
    BY <1>0
  <2> HIDE DEF at, s, r
  <2> QED BY <1>0, <2>1
<1>2. \E i \in DOMAIN scans : scans[i] = p
  <2>1. CASE \E i \in DOMAIN hashScan : hashScan[i] = p
    BY <2>1
  <2>2. CASE ~ \E i \in DOMAIN hashScan : hashScan[i] = p
    <3>1. Len(hashScan) + 1 \in DOMAIN Append(hashScan, p) /\ Append(hashScan, p)[Len(hashScan) + 1] = p
      BY <1>0
    <3> QED BY <2>2, <3>1
  <2> QED BY <2>1, <2>2
<1>3. r.nodes = Append(nodes, s) /\ r.at = Len(nodes) + 1 /\ r.ids = shapeId /\ r.scans = scans
  BY DEF NewShapeNodeScan, NewShapeNode, Result
<1> HIDE DEF scans
<1>4. at \in DOMAIN scans
  BY <1>2
<1>5. at \in Nat /\ at >= 1
  <2>1. DOMAIN scans = 1 .. Len(scans)
    BY <1>1
  <2> HIDE DEF at
  <2> QED BY <1>1, <1>4, <2>1
<1> HIDE DEF at
<1>6. FirstScan + at - 1 \in Nat
  BY <1>5, SizesOfNodes
<1>7. s \in ShapeNode /\ s.kind = "scan" /\ ~ IsNumber(s)
  BY <1>6 DEF ShapeNode, Kinds, IsNumber
<1>8. shapeId \in Nat /\ shapeId <= shapeId
  BY DEF Typed
<1> HIDE DEF s, r
<1>9. Extends(r) /\ r.nodes[r.at] = s
  BY <1>1, <1>3, <1>7, <1>8, NewExtends
<1>10. \A n : IsTrue(s, n)
  BY <1>7 DEF IsTrue
<1> QED BY <1>9, <1>10 DEF r

----------------------------------------------------------------------------
(* What a rule says of a result.                                           *)

\* What is said of the result of operands args, if it has a length that a
\* statement of this kind yields, is true where the operands' shapes are.
RuleSound(r, yields, n, args) ==
  Sound(Statement("target", yields, n, args, r.nodes[r.at], FALSE))

LEMMA SoundOfRule ==
  ASSUME NEW v, NEW r, NEW yields, NEW n, NEW args, NEW gap, RuleSound(r, yields, n, args)
  PROVE  Sound(Statement(v, yields, n, args, r.nodes[r.at], gap))
  BY DEF RuleSound, Sound, Statement, Yields

\* Nothing false is said where nothing is said.
LEMMA SilentIsSound ==
  ASSUME NEW r, NEW yields, NEW n, NEW args, \A k : IsTrue(r.nodes[r.at], k)
  PROVE  RuleSound(r, yields, n, args)
  BY DEF RuleSound, Sound, Statement

LEMMA UnknownIsSound ==
  ASSUME NEW r, NEW yields, NEW n, NEW args, IsUnknown(r.nodes[r.at])
  PROVE  RuleSound(r, yields, n, args)
  BY DEF RuleSound, Sound, Statement, IsTrue

LEMMA OperandPair ==
  ASSUME NEW x, NEW y
  PROVE  DOMAIN <<x, y>> = {1, 2} /\ <<x, y>>[1] = x /\ <<x, y>>[2] = y
  OBVIOUS

\* A value of a length known to the pass.
LEMMA FixedIsSound ==
  ASSUME NEW r, NEW n, IsTrue(r.nodes[r.at], n)
  PROVE  RuleSound(r, "fixed", n, <<>>)
  BY DEF RuleSound, Sound, Statement, Yields

\* A copy is as long as its operand.
LEMMA SameIsSound ==
  ASSUME Typed, NumbersGiven, NEW x \in Shaped
  PROVE  RuleSound(Same(shape[x]), "same", 0, <<x>>)
<1> DEFINE r == Same(shape[x])
           s == Statement("target", "same", 0, <<x>>, r.nodes[r.at], FALSE)
<1>1. r.nodes[r.at] = nodes[shape[x]]
  BY DEF Same, Result
<1>2. s.said = nodes[shape[x]] /\ s.yields = "same" /\ s.args = <<x>>
  BY <1>1 DEF Statement
<1>3. DOMAIN s.args = {1} /\ s.args[1] = x
  <2> HIDE DEF s
  <2> QED BY <1>2
<1> HIDE DEF s
<1>4. Sound(s)
  BY <1>2, <1>3 DEF Sound, Yields
<1> QED BY <1>4 DEF RuleSound, s

\* decideShapeElementwise: the shape of the longer operand, unless a number
\* takes a length of another kind for itself.
LEMMA ElementwiseIsSound ==
  ASSUME Typed, NumbersGiven, NEW x \in Shaped, NEW y \in Shaped
  PROVE  LET r == DecideShapeElementwise(shape[x], shape[y])
             s == nodes[shape[x]]
             t == nodes[shape[y]]
         IN  /\ Extends(r)
             /\ ~ (s.kind = "id" /\ t.kind # "id" /\ s.size = t.size)
                => RuleSound(r, "longer", 0, <<x, y>>)
<1> DEFINE p == shape[x]
           q == shape[y]
           s == nodes[p]
           t == nodes[q]
           r == DecideShapeElementwise(p, q)
           st == Statement("target", "longer", 0, <<x, y>>, r.nodes[r.at], FALSE)
<1>1. p \in DOMAIN nodes /\ q \in DOMAIN nodes /\ s \in ShapeNode /\ t \in ShapeNode
  BY SizesOfNodes DEF Shaped, Typed
<1>2. r \in {Unknown, Same(p), Same(q)}
  BY DEF DecideShapeElementwise
<1>3. Extends(r)
  BY <1>1, <1>2, SameExtends, UnknownExtends
<1>4. /\ Same(p).nodes[Same(p).at] = s /\ Same(q).nodes[Same(q).at] = t
      /\ IsUnknown(Unknown.nodes[Unknown.at])
  BY <1>1, SameExtends, UnknownExtends
<1>5. ASSUME ~ (s.kind = "id" /\ t.kind # "id" /\ s.size = t.size),
             NEW len \in [Variables -> Lengths \cup {None}], NEW n \in Lengths,
             len[x] # None, len[y] # None, IsTrue(s, len[x]), IsTrue(t, len[y]),
             Conform(len[x], len[y]), n = Longer(len[x], len[y])
      PROVE  IsTrue(r.nodes[r.at], n)
  <2>1. CASE r = Unknown
    BY <1>4, <2>1 DEF IsTrue
  <2>2. CASE ~ IsUnknown(s) /\ ~ IsUnknown(t) /\ IsOne(s)
    <3>1. r = Same(q)
      BY <2>2 DEF DecideShapeElementwise
    <3>2. len[x] = 1
      <4> HIDE DEF s
      <4> QED BY <1>5, <2>2 DEF IsTrue, IsOne
    <3>3. n = len[y]
      BY <1>5, <3>2 DEF Longer
    <3> HIDE DEF r, s, t
    <3> QED BY <1>4, <1>5, <3>1, <3>3
  <2>3. CASE ~ IsUnknown(s) /\ ~ IsUnknown(t) /\ ~ IsOne(s) /\ IsOne(t)
    <3>1. r = Same(p)
      BY <2>3 DEF DecideShapeElementwise
    <3>2. len[y] = 1
      <4> HIDE DEF t
      <4> QED BY <1>5, <2>3 DEF IsTrue, IsOne
    <3>3. n = len[x]
      BY <1>5, <3>2 DEF Longer, Conform
    <3> HIDE DEF r, s, t
    <3> QED BY <1>4, <1>5, <3>1, <3>3
  <2>4. CASE ~ IsUnknown(s) /\ ~ IsUnknown(t) /\ ~ IsOne(s) /\ ~ IsOne(t) /\ Agree(s, t)
    <3>1. r = Same(p)
      BY <2>4 DEF DecideShapeElementwise
    <3>2. s.kind = t.kind /\ s.size = t.size
      BY <1>5, <2>4 DEF Agree
    <3>3. IsTrue(s, len[y])
      <4> HIDE DEF s, t
      <4> QED BY <1>5, <2>4, <3>2 DEF IsTrue
    <3>4. n \in {len[x], len[y]}
      BY <1>5 DEF Longer
    <3> HIDE DEF r, s, t
    <3> QED BY <1>4, <1>5, <3>1, <3>3, <3>4
  <2>5. CASE ~ IsUnknown(s) /\ ~ IsUnknown(t) /\ ~ IsOne(s) /\ ~ IsOne(t) /\ ~ Agree(s, t)
    BY <2>1, <2>5 DEF DecideShapeElementwise
  <2>6. CASE IsUnknown(s) \/ IsUnknown(t)
    BY <2>1, <2>6 DEF DecideShapeElementwise
  <2> QED BY <2>2, <2>3, <2>4, <2>5, <2>6
<1>6. st.said = r.nodes[r.at] /\ st.yields = "longer" /\ st.args = <<x, y>>
  BY DEF Statement
<1>7. DOMAIN st.args = {1, 2} /\ st.args[1] = x /\ st.args[2] = y
  <2> HIDE DEF st, s, t, r
  <2> QED BY <1>6, OperandPair
<1>8. ASSUME ~ (s.kind = "id" /\ t.kind # "id" /\ s.size = t.size)
      PROVE  Sound(st)
  <2> HIDE DEF st, r
  <2>1. SUFFICES ASSUME NEW len \in [Variables -> Lengths \cup {None}], NEW n \in Lengths,
                        \A i \in DOMAIN st.args :
                          /\ len[st.args[i]] # None
                          /\ IsTrue(nodes[shape[st.args[i]]], len[st.args[i]]),
                        Yields(st, len, n)
                 PROVE  IsTrue(st.said, n)
    BY DEF Sound
  <2>2. len[x] # None /\ len[y] # None /\ IsTrue(s, len[x]) /\ IsTrue(t, len[y])
    BY <1>7, <2>1
  <2>3. Conform(len[x], len[y]) /\ n = Longer(len[x], len[y])
    BY <1>6, <1>7, <2>1 DEF Yields
  <2> QED BY <1>5, <1>6, <1>8, <2>2, <2>3
<1> QED BY <1>3, <1>8 DEF RuleSound

\* decideShapeCompress says nothing of a length.
LEMMA CompressIsSound ==
  ASSUME Typed, NumbersGiven, NEW m \in Shaped, NEW x \in Shaped
  PROVE  LET r == DecideShapeCompress(shape[m], shape[x])
         IN  Extends(r) /\ RuleSound(r, "chosen", 0, <<m, x>>)
<1> DEFINE r == DecideShapeCompress(shape[m], shape[x])
<1>1. r \in {Unknown, Fresh, NewShapeNodeScan(shape[m])}
  BY DEF DecideShapeCompress
<1> HIDE DEF r
<1>2. shape[m] \in DOMAIN nodes
  BY DEF Shaped, Typed
<1>3. Extends(r) /\ \A n : IsTrue(r.nodes[r.at], n)
  BY <1>1, <1>2, UnknownExtends, FreshExtends, ScanExtends DEF IsTrue
<1> QED BY <1>3, SilentIsSound DEF r

\* decideShapeAppend adds two constants, unless one is a number of a selection.
LEMMA AppendIsSound ==
  ASSUME Typed, NumbersGiven, NEW x \in Shaped, NEW y \in Shaped
  PROVE  LET r == DecideShapeAppend(shape[x], shape[y])
         IN  /\ Extends(r)
             /\ "scan" \notin {nodes[shape[x]].kind, nodes[shape[y]].kind}
                => RuleSound(r, "joined", 0, <<x, y>>)
<1> DEFINE s == nodes[shape[x]]
           t == nodes[shape[y]]
           r == DecideShapeAppend(shape[x], shape[y])
           st == Statement("target", "joined", 0, <<x, y>>, r.nodes[r.at], FALSE)
<1>1. s \in ShapeNode /\ t \in ShapeNode
  BY SizesOfNodes DEF Shaped, Typed
<1>2. s.size + t.size \in Nat
  <2> HIDE DEF s, t
  <2> QED BY <1>1 DEF ShapeNode
<1>3. r \in {Unknown, Fresh, Const(s.size + t.size)}
  BY DEF DecideShapeAppend
<1>4. Extends(r)
  <2> HIDE DEF s, t, r
  <2> QED BY <1>2, <1>3, UnknownExtends, FreshExtends, ConstExtends
<1>5. r \in {Unknown, Fresh} => \A n : IsTrue(r.nodes[r.at], n)
  <2> HIDE DEF r
  <2> QED BY UnknownExtends, FreshExtends DEF IsTrue
<1>6. st.said = r.nodes[r.at] /\ st.yields = "joined" /\ st.args = <<x, y>>
  BY DEF Statement
<1>7. DOMAIN st.args = {1, 2} /\ st.args[1] = x /\ st.args[2] = y
  <2> HIDE DEF st, s, t, r
  <2> QED BY <1>6, OperandPair
<1>8. ASSUME "scan" \notin {s.kind, t.kind},
             ~ IsUnknown(s), ~ IsUnknown(t), "id" \notin {s.kind, t.kind},
             NEW len \in [Variables -> Lengths \cup {None}], NEW n \in Lengths,
             IsTrue(s, len[x]), IsTrue(t, len[y]), n = len[x] + len[y]
      PROVE  IsTrue(r.nodes[r.at], n)
  <2>1. r = Const(s.size + t.size)
    BY <1>8 DEF DecideShapeAppend
  <2> HIDE DEF s, t, r
  <2>2. s.kind = "const" /\ t.kind = "const"
    BY <1>1, <1>8 DEF ShapeNode, Kinds
  <2>3. len[x] = s.size /\ len[y] = t.size
    BY <1>8, <2>2 DEF IsTrue
  <2>4. r.nodes[r.at] = [type |-> "vector", kind |-> "const", size |-> s.size + t.size]
    BY <1>2, <2>1, ConstExtends
  <2> QED BY <1>8, <2>3, <2>4 DEF IsTrue
<1>9. ASSUME "scan" \notin {s.kind, t.kind}
      PROVE  Sound(st)
  <2>1. r \in {Unknown, Fresh} \/ (~ IsUnknown(s) /\ ~ IsUnknown(t) /\ "id" \notin {s.kind, t.kind})
    BY DEF DecideShapeAppend
  <2> HIDE DEF st, r, s, t
  <2>2. CASE r \in {Unknown, Fresh}
    BY <1>5, <1>6, <2>2 DEF Sound
  <2>3. CASE ~ IsUnknown(s) /\ ~ IsUnknown(t) /\ "id" \notin {s.kind, t.kind}
    <3>1. SUFFICES ASSUME NEW len \in [Variables -> Lengths \cup {None}], NEW n \in Lengths,
                          \A i \in DOMAIN st.args :
                            /\ len[st.args[i]] # None
                            /\ IsTrue(nodes[shape[st.args[i]]], len[st.args[i]]),
                          Yields(st, len, n)
                   PROVE  IsTrue(st.said, n)
      BY DEF Sound
    <3>2. IsTrue(s, len[x]) /\ IsTrue(t, len[y])
      BY <1>7, <3>1 DEF s, t
    <3>3. n = len[x] + len[y]
      BY <1>6, <1>7, <3>1 DEF Yields
    <3> QED BY <1>6, <1>8, <1>9, <2>3, <3>2, <3>3
  <2> QED BY <2>1, <2>2, <2>3
<1> QED BY <1>4, <1>9 DEF RuleSound

----------------------------------------------------------------------------
(* The invariant is kept.                                                  *)

\* A statement stays sound while the shapes of its operands only become known.
LEMMA SoundStays ==
  ASSUME NEW s, Scanned(s), Sound(s),
         \A k \in Lengths : IsTrue(s.said, k) => IsTrue(s.said, k)',
         \A u \in Shaped, k \in Lengths :
           IsTrue(nodes[shape[u]], k)' => IsTrue(nodes[shape[u]], k)
  PROVE  Sound(s)'
<1>1. SUFFICES ASSUME NEW len \in [Variables -> Lengths \cup {None}], NEW n \in Lengths,
                      \A i \in DOMAIN s.args :
                        /\ len[s.args[i]] # None
                        /\ IsTrue(nodes[shape[s.args[i]]], len[s.args[i]])',
                      Yields(s, len, n)
               PROVE  IsTrue(s.said, n)'
  BY DEF Sound, Yields
<1>2. ASSUME NEW i \in DOMAIN s.args
      PROVE  len[s.args[i]] # None /\ IsTrue(nodes[shape[s.args[i]]], len[s.args[i]])
  <2>1. s.args[i] \in Shaped /\ s.args[i] \in Variables
    BY DEF Scanned, Shaped
  <2>2. len[s.args[i]] \in Lengths /\ len[s.args[i]] # None
    BY <1>1, <2>1
  <2> QED BY <1>1, <2>1, <2>2
<1>3. IsTrue(s.said, n)
  BY <1>1, <1>2 DEF Sound
<1> QED BY <1>3

\* Scanning a statement whose rule is sound, or has a gap.
LEMMA ScanKeeps ==
  ASSUME IInv, ~ running, NEW v \in Variables, NEW r, Extends(r),
         NEW yields, NEW n, NEW args, \A i \in DOMAIN args : args[i] \in Shaped,
         NEW gap, gap \/ RuleSound(r, yields, n, args),
         Scan(v, r, yields, n, args, gap)
  PROVE  IInv'
<1> DEFINE checked == Checked(v, r.at, r.nodes)
           said == r.nodes[r.at]
           st == Statement(v, yields, n, args, said, gap)
<1>1. /\ nodes' = checked.nodes /\ shape' = [shape EXCEPT ![v] = checked.at]
      /\ shapeId' = r.ids /\ hashScan' = r.scans /\ code' = code \cup {st}
      /\ UNCHANGED <<hashMeta, rows, running, val, astray>>
  BY DEF Scan
<1>2. Typed /\ CodeScanned /\ NumbersGiven /\ CodeSound /\ Bound = {}
  BY DEF IInv, NothingBound
<1>3. /\ r.nodes \in Seq(ShapeNode) /\ Len(nodes) \in Nat /\ Len(nodes) <= Len(r.nodes)
      /\ r.at \in 1 .. Len(r.nodes) /\ DOMAIN r.nodes = 1 .. Len(r.nodes)
      /\ said \in ShapeNode
      /\ DOMAIN nodes = 1 .. Len(nodes) /\ Len(r.nodes) \in Nat
  BY <1>2, SizesOfNodes DEF Extends
<1>4. /\ nodes' \in Seq(ShapeNode) /\ DOMAIN nodes' = 1 .. Len(r.nodes)
      /\ checked.at \in 1 .. Len(r.nodes)
      /\ shape[v] # None => checked.at = shape[v]
      /\ \A p \in 1 .. Len(r.nodes) : nodes'[p] \in {r.nodes[p], said}
      /\ \A p \in DOMAIN nodes : ~ IsUnknown(nodes[p]) => nodes'[p] = nodes[p]
  <2>1. \A p \in DOMAIN nodes : p \in 1 .. Len(r.nodes) /\ r.nodes[p] = nodes[p]
    BY <1>3 DEF Extends
  <2>2. CASE shape[v] = None
    <3>1. nodes' = r.nodes /\ checked.at = r.at
      BY <1>1, <2>2 DEF Checked
    <3> HIDE DEF checked, said
    <3> QED BY <1>3, <2>1, <2>2, <3>1
  <2>3. CASE shape[v] # None /\ IsUnknown(r.nodes[shape[v]])
    <3>1. shape[v] \in DOMAIN nodes
      BY <1>2, <2>3 DEF Typed
    <3>2. nodes' = [r.nodes EXCEPT ![shape[v]] = said] /\ checked.at = shape[v]
      BY <1>1, <2>3 DEF Checked
    <3>3. IsUnknown(nodes[shape[v]])
      BY <2>1, <2>3, <3>1
    <3> HIDE DEF checked, said
    <3>4. nodes' \in Seq(ShapeNode) /\ DOMAIN nodes' = 1 .. Len(r.nodes)
      <4>1. r.nodes \in [1 .. Len(r.nodes) -> ShapeNode]
        BY <1>3
      <4>2. nodes' \in [1 .. Len(r.nodes) -> ShapeNode]
        BY <1>3, <3>2, <4>1
      <4> QED BY <1>3, <4>2
    <3>5. \A p \in 1 .. Len(r.nodes) : nodes'[p] = IF p = shape[v] THEN said ELSE r.nodes[p]
      BY <1>3, <3>2
    <3> QED BY <2>1, <3>1, <3>2, <3>3, <3>4, <3>5
  <2>4. CASE shape[v] # None /\ ~ IsUnknown(r.nodes[shape[v]])
    <3>1. nodes' = r.nodes /\ checked.at = shape[v]
      BY <1>1, <2>4 DEF Checked
    <3>2. shape[v] \in DOMAIN nodes
      BY <1>2, <2>4 DEF Typed
    <3> HIDE DEF checked, said
    <3> QED BY <1>3, <2>1, <3>1, <3>2
  <2> QED BY <2>2, <2>3, <2>4
<1> HIDE DEF checked
<1>5. /\ shape' \in [Variables -> DOMAIN nodes' \cup {None}]
      /\ \A u \in Shaped : u \in Variables /\ shape'[u] = shape[u] /\ shape[u] \in DOMAIN nodes
      /\ shape'[v] \in DOMAIN nodes'
      /\ Shaped \subseteq Shaped' /\ v \in Shaped'
  <2>1. shape \in [Variables -> DOMAIN nodes \cup {None}] /\ None \notin Nat
    BY <1>2, SizesOfNodes DEF Typed
  <2>2. DOMAIN nodes \subseteq DOMAIN nodes'
    BY <1>3, <1>4
  <2>3. \A u \in Shaped : u \in Variables /\ shape'[u] = shape[u] /\ shape[u] \in DOMAIN nodes
    BY <1>1, <1>4, <2>1 DEF Shaped
  <2>4. shape'[v] = checked.at /\ checked.at # None
    BY <1>1, <1>4, <2>1
  <2> QED BY <1>1, <1>4, <2>1, <2>2, <2>3, <2>4 DEF Shaped
<1>6. Bound' = {}
  BY <1>1, <1>2 DEF Bound
<1>7. Typed'
  <2>1. shapeId' \in Nat
    BY <1>1 DEF Extends
  <2>2. hashScan' \in Seq(DOMAIN nodes')
    <3>1. \A i \in DOMAIN r.scans : r.scans[i] \in DOMAIN nodes'
      BY <1>3, <1>4 DEF Extends
    <3>2. r.scans \in Seq(DOMAIN nodes)
      BY DEF Extends
    <3>3. DOMAIN nodes \subseteq DOMAIN nodes'
      BY <1>3, <1>4
    <3> QED BY <1>1, <3>1, <3>2, <3>3
  <2>3. astray' \subseteq Bound'
    BY <1>1, <1>2 DEF Typed, Bound
  <2>4. /\ hashMeta \in [Tables -> Nat \cup {None}] /\ rows \in [Tables -> Lengths]
        /\ running \in BOOLEAN /\ val \in [Variables -> Lengths \cup {None}]
    BY <1>2 DEF Typed
  <2> QED BY <1>1, <1>4, <1>5, <2>1, <2>2, <2>3, <2>4 DEF Typed
<1>8. st.target = v /\ st.said = said /\ st.args = args /\ st.gap = gap
  BY DEF Statement
<1>9. CodeScanned'
  <2>1. ASSUME NEW s \in code
        PROVE  Scanned(s)'
    BY <1>2, <1>5 DEF CodeScanned, Scanned
  <2>2. Scanned(st)'
    <3> HIDE DEF st, said
    <3> QED BY <1>3, <1>5, <1>8 DEF Scanned
  <2> HIDE DEF st
  <2> QED BY <1>1, <2>1, <2>2 DEF CodeScanned
<1>10. NumbersGiven'
  <2>1. \A p \in 1 .. Len(r.nodes) : IsNumber(r.nodes[p]) => r.nodes[p].size < r.ids
    BY DEF Extends
  <2>2. IsNumber(said) => said.size < r.ids
    BY <1>3, <2>1
  <2>3. \A p \in DOMAIN nodes' : IsNumber(nodes'[p]) => nodes'[p].size < shapeId'
    <3> HIDE DEF said
    <3> QED BY <1>1, <1>4, <2>1, <2>2
  <2>4. shapeId \in Nat /\ r.ids \in Nat /\ shapeId <= r.ids
    BY <1>2 DEF Typed, Extends
  <2>5. ASSUME NEW s \in code, IsNumber(s.said)
        PROVE  s.said.size < shapeId'
    <3>1. s.said.size \in Nat /\ s.said.size < shapeId
      BY <1>2, <2>5 DEF CodeScanned, Scanned, ShapeNode, NumbersGiven
    <3> QED BY <1>1, <2>4, <3>1
  <2>6. ASSUME NEW t \in Tables, hashMeta[t] # None
        PROVE  hashMeta[t] < shapeId' /\ \A u \in Tables : hashMeta[u] = hashMeta[t] => u = t
    <3>1. hashMeta[t] \in Nat /\ hashMeta[t] < shapeId
      BY <1>2, <2>6 DEF Typed, NumbersGiven
    <3>2. \A u \in Tables : hashMeta[u] = hashMeta[t] => u = t
      BY <1>2, <2>6 DEF NumbersGiven
    <3> QED BY <1>1, <2>4, <3>1, <3>2
  <2>7. \A p \in DOMAIN nodes' : IsNumber(nodes[p])' => nodes'[p].size < shapeId'
    BY <2>3 DEF IsNumber, IsUnknown
  <2>8. \A s \in code' : IsNumber(s.said) => s.said.size < shapeId'
    <3> HIDE DEF st, said
    <3> QED BY <1>1, <1>8, <2>2, <2>5
  <2>9. \A t \in Tables : hashMeta'[t] # None =>
          hashMeta'[t] < shapeId' /\ \A u \in Tables : hashMeta'[u] = hashMeta'[t] => u = t
    BY <1>1, <2>6
  <2> QED BY <2>7, <2>8, <2>9 DEF NumbersGiven, IsNumber, IsUnknown
<1>11. CodeSound'
  <2>1. ASSUME NEW u \in Shaped, NEW k \in Lengths, IsTrue(nodes[shape[u]], k)'
        PROVE  IsTrue(nodes[shape[u]], k)
    <3>1. CASE IsUnknown(nodes[shape[u]])
      BY <3>1 DEF IsTrue
    <3>2. CASE ~ IsUnknown(nodes[shape[u]])
      <4>1. nodes'[shape'[u]] = nodes[shape[u]]
        BY <1>4, <1>5, <3>2
      <4> QED BY <1>1, <2>1, <4>1 DEF IsTrue
    <3> QED BY <3>1, <3>2
  <2>2. ASSUME NEW s, Scanned(s), Sound(s)
        PROVE  Sound(s)'
    <3>1. \A k \in Lengths : IsTrue(s.said, k) => IsTrue(s.said, k)'
      BY <1>1 DEF IsTrue
    <3> QED BY <2>1, <2>2, <3>1, SoundStays
  <2>3. ASSUME NEW s \in code
        PROVE  s.gap \/ Sound(s)'
    BY <1>2, <2>2 DEF CodeScanned, CodeSound
  <2>4. st.gap \/ Sound(st)'
    <3>1. CASE gap
      BY <1>8, <3>1
    <3>2. CASE RuleSound(r, yields, n, args)
      <4>1. Sound(st)
        BY <3>2, SoundOfRule
      <4> HIDE DEF st
      <4>2. ASSUME NEW u \in Shaped, NEW k \in Lengths
            PROVE  IsTrue(nodes[shape[u]], k)' => IsTrue(nodes[shape[u]], k)
        BY <2>1
      <4>3. \A k \in Lengths : IsTrue(st.said, k) => IsTrue(st.said, k)'
        BY <1>1 DEF IsTrue
      <4> QED BY <1>5, <1>8, <4>1, <4>2, <4>3 DEF Sound
    <3> QED BY <3>1, <3>2
  <2> HIDE DEF st
  <2> QED BY <1>1, <2>3, <2>4 DEF CodeSound
<1> QED BY <1>6, <1>7, <1>9, <1>10, <1>11 DEF IInv, NothingBound, AllTrue

\* Every statement that is scanned has a sound rule, or a gap.
LEMMA SourcesKeep ==
  ASSUME IInv, ~ running, NEW v \in Variables, Sources(v)
  PROVE  IInv'
<1>1. Typed /\ NumbersGiven
  BY DEF IInv
<1>0. \A i \in DOMAIN <<>> : <<>>[i] \in Shaped
  OBVIOUS
<1>2. ASSUME NEW t \in Tables, ColumnValue(v, t)
      PROVE  IInv'
  <2> DEFINE r == Numbered(hashMeta[t])
  <2>1. Extends(r) /\ IsTrue(r.nodes[r.at], rows[t])
    BY <1>1, <1>2, NumberedExtends DEF ColumnValue
  <2>2. Scan(v, r, "fixed", rows[t], <<>>, FALSE)
    BY <1>2 DEF ColumnValue
  <2> HIDE DEF r
  <2>3. RuleSound(r, "fixed", rows[t], <<>>)
    BY <2>1, FixedIsSound
  <2> QED BY <1>0, <2>1, <2>2, <2>3, ScanKeeps
<1>3. ASSUME NEW n \in Nat, Literal(v, n)
      PROVE  IInv'
  <2> DEFINE r == Const(n)
  <2>1. Extends(r) /\ r.nodes[r.at] = [type |-> "vector", kind |-> "const", size |-> n]
    BY <1>1, ConstExtends
  <2>2. Scan(v, r, "fixed", n, <<>>, FALSE)
    BY <1>3 DEF Literal
  <2> HIDE DEF r
  <2>3. RuleSound(r, "fixed", n, <<>>)
    BY <2>1, FixedIsSound DEF IsTrue
  <2> QED BY <1>0, <2>1, <2>2, <2>3, ScanKeeps
<1>4. ASSUME Sized(v)
      PROVE  IInv'
  <2> DEFINE r == Fresh
  <2>1. Extends(r) /\ \A k : IsTrue(r.nodes[r.at], k)
    BY <1>1, FreshExtends
  <2>2. Scan(v, r, "any", 0, <<>>, FALSE)
    BY <1>4 DEF Sized
  <2> HIDE DEF r
  <2>3. RuleSound(r, "any", 0, <<>>)
    BY <2>1, SilentIsSound
  <2> QED BY <1>0, <2>1, <2>2, <2>3, ScanKeeps
<1>5. 1 \in Nat /\ Lengths \subseteq Nat
  BY <1>1, SizesOfNodes
<1> QED BY <1>2, <1>3, <1>4, <1>5 DEF Sources, Reduction

LEMMA MonadicKeeps ==
  ASSUME IInv, ~ running, NEW v \in Variables, NEW x \in Shaped, Monadic(v, x)
  PROVE  IInv'
<1>1. Typed /\ NumbersGiven /\ shape[x] \in DOMAIN nodes
  BY DEF IInv, Typed, Shaped
<1>2. Extends(Same(shape[x]))
  BY <1>1, SameExtends
<1>3. \A i \in DOMAIN <<x>> : <<x>>[i] \in Shaped
  OBVIOUS
<1>4. ASSUME LikeOperand(v, x)
      PROVE  IInv'
  <2>1. Scan(v, Same(shape[x]), "same", 0, <<x>>, FALSE)
    BY <1>4 DEF LikeOperand
  <2>2. RuleSound(Same(shape[x]), "same", 0, <<x>>)
    BY <1>1, SameIsSound
  <2> QED BY <1>2, <1>3, <2>1, <2>2, ScanKeeps
<1>5. ASSUME TakeDrop(v, x)
      PROVE  IInv'
  <2> DEFINE r == IF IsUnknown(nodes[shape[x]]) THEN Unknown ELSE Fresh
  <2>1. Scan(v, r, "any", 0, <<x>>, FALSE)
    BY <1>5 DEF TakeDrop
  <2>2. r \in {Unknown, Fresh}
    OBVIOUS
  <2> HIDE DEF r
  <2>3. Extends(r) /\ \A k : IsTrue(r.nodes[r.at], k)
    BY <1>1, <2>2, UnknownExtends, FreshExtends DEF IsTrue
  <2>4. RuleSound(r, "any", 0, <<x>>)
    BY <2>3, SilentIsSound
  <2> QED BY <1>3, <2>1, <2>3, <2>4, ScanKeeps
<1>6. ASSUME Unique(v, x)
      PROVE  IInv'
  <2>1. Scan(v, Same(shape[x]), "distinct", 0, <<x>>, TRUE)
    BY <1>6 DEF Unique
  <2> QED BY <1>2, <1>3, <2>1, ScanKeeps
<1> QED BY <1>4, <1>5, <1>6 DEF Monadic

LEMMA DyadicKeeps ==
  ASSUME IInv, ~ running, NEW v \in Variables, NEW x \in Shaped, NEW y \in Shaped, Dyadic(v, x, y)
  PROVE  IInv'
<1>1. Typed /\ NumbersGiven /\ shape[x] \in DOMAIN nodes /\ shape[y] \in DOMAIN nodes
  BY DEF IInv, Typed, Shaped
<1>2. \A i \in DOMAIN <<x, y>> : <<x, y>>[i] \in Shaped
  BY OperandPair
<1>3. Extends(Same(shape[x])) /\ Extends(Same(shape[y]))
  BY <1>1, SameExtends
<1>4. ASSUME Elementwise(v, x, y)
      PROVE  IInv'
  <2> DEFINE r == DecideShapeElementwise(shape[x], shape[y])
             gap == /\ nodes[shape[x]].kind = "id" /\ nodes[shape[y]].kind # "id"
                    /\ nodes[shape[x]].size = nodes[shape[y]].size
  <2>1. Scan(v, r, "longer", 0, <<x, y>>, gap)
    BY <1>4 DEF Elementwise
  <2>2. Extends(r) /\ (gap \/ RuleSound(r, "longer", 0, <<x, y>>))
    BY <1>1, ElementwiseIsSound
  <2> HIDE DEF r, gap
  <2> QED BY <1>2, <2>1, <2>2, ScanKeeps
<1>5. ASSUME Power(v, x, y)
      PROVE  IInv'
  <2>1. Scan(v, Same(shape[y]), "longer", 0, <<x, y>>, TRUE)
    BY <1>5 DEF Power
  <2> QED BY <1>2, <1>3, <2>1, ScanKeeps
<1>6. ASSUME DateTime(v, x, y)
      PROVE  IInv'
  <2>1. Scan(v, Same(shape[x]), "longer", 0, <<x, y>>, TRUE)
    BY <1>6 DEF DateTime
  <2> QED BY <1>2, <1>3, <2>1, ScanKeeps
<1>7. ASSUME AppendCall(v, x, y)
      PROVE  IInv'
  <2> DEFINE r == DecideShapeAppend(shape[x], shape[y])
             gap == "scan" \in {nodes[shape[x]].kind, nodes[shape[y]].kind}
  <2>1. Scan(v, r, "joined", 0, <<x, y>>, gap)
    BY <1>7 DEF AppendCall
  <2>2. Extends(r) /\ (gap \/ RuleSound(r, "joined", 0, <<x, y>>))
    BY <1>1, AppendIsSound
  <2> HIDE DEF r, gap
  <2> QED BY <1>2, <2>1, <2>2, ScanKeeps
<1> QED BY <1>4, <1>5, <1>6, <1>7 DEF Dyadic

LEMMA SelectionsKeep ==
  ASSUME IInv, ~ running, NEW v \in Variables, NEW m \in Shaped, Selections(v, m)
  PROVE  IInv'
<1>1. Typed /\ NumbersGiven /\ shape[m] \in DOMAIN nodes
  BY DEF IInv, Typed, Shaped
<1>2. ASSUME Where(v, m)
      PROVE  IInv'
  <2> DEFINE r == NewShapeNodeScan(shape[m])
  <2>1. Scan(v, r, "chosen", 0, <<m>>, FALSE)
    BY <1>2 DEF Where
  <2>2. Extends(r) /\ \A k : IsTrue(r.nodes[r.at], k)
    BY <1>1, ScanExtends
  <2>3. \A i \in DOMAIN <<m>> : <<m>>[i] \in Shaped
    OBVIOUS
  <2> HIDE DEF r
  <2>4. RuleSound(r, "chosen", 0, <<m>>)
    BY <2>2, SilentIsSound
  <2> QED BY <2>1, <2>2, <2>3, <2>4, ScanKeeps
<1>3. ASSUME NEW x \in Shaped, Compress(v, m, x)
      PROVE  IInv'
  <2> DEFINE r == DecideShapeCompress(shape[m], shape[x])
  <2>1. Scan(v, r, "chosen", 0, <<m, x>>, FALSE)
    BY <1>3 DEF Compress
  <2>2. Extends(r) /\ RuleSound(r, "chosen", 0, <<m, x>>)
    BY <1>1, CompressIsSound
  <2>3. \A i \in DOMAIN <<m, x>> : <<m, x>>[i] \in Shaped
    BY OperandPair
  <2> HIDE DEF r
  <2> QED BY <2>1, <2>2, <2>3, ScanKeeps
<1> QED BY <1>2, <1>3 DEF Selections

\* A table is loaded: no node has its number yet.
LEMMA LoadTableKeeps ==
  ASSUME IInv, ~ running, NEW t \in Tables, LoadTable(t)
  PROVE  IInv'
<1>1. /\ hashMeta[t] = None /\ hashMeta' = [hashMeta EXCEPT ![t] = shapeId]
      /\ shapeId' = shapeId + 1
      /\ UNCHANGED <<nodes, hashScan, shape, rows, code, running, val, astray>>
  BY DEF LoadTable
<1>2. Typed /\ CodeScanned /\ NumbersGiven /\ CodeSound /\ Bound = {}
  BY DEF IInv, NothingBound
<1>3. /\ shapeId \in Nat /\ hashMeta \in [Tables -> Nat \cup {None}] /\ None \notin Nat
      /\ hashMeta'[t] = shapeId /\ \A u \in Tables \ {t} : hashMeta'[u] = hashMeta[u]
  BY <1>1, <1>2, SizesOfNodes DEF Typed
<1>4. Typed' /\ Bound' = {}
  BY <1>1, <1>2, <1>3 DEF Typed, Bound
<1>5. CodeScanned'
  BY <1>1, <1>2 DEF CodeScanned, Scanned, Shaped
<1>6. \A u \in Tables : hashMeta[u] # None => hashMeta[u] \in Nat /\ hashMeta[u] < shapeId
  BY <1>2, <1>3 DEF NumbersGiven
<1>7. NumbersGiven'
  <2>1. \A p \in DOMAIN nodes : IsNumber(nodes[p]) => nodes[p].size < shapeId + 1
    <3>1. \A p \in DOMAIN nodes : nodes[p].size \in Nat
      BY <1>2, SizesOfNodes DEF ShapeNode
    <3> QED BY <1>2, <1>3, <3>1 DEF NumbersGiven
  <2>2. \A s \in code : IsNumber(s.said) => s.said.size < shapeId + 1
    <3>1. \A s \in code : s.said.size \in Nat
      BY <1>2 DEF CodeScanned, Scanned, ShapeNode
    <3> QED BY <1>2, <1>3, <3>1 DEF NumbersGiven
  <2>3. ASSUME NEW u \in Tables, hashMeta'[u] # None
        PROVE  hashMeta'[u] < shapeId + 1 /\ \A w \in Tables : hashMeta'[w] = hashMeta'[u] => w = u
    <3>1. CASE u = t
      BY <1>3, <1>6, <3>1
    <3>2. CASE u # t
      <4>1. hashMeta[u] \in Nat /\ hashMeta[u] < shapeId /\ hashMeta'[u] = hashMeta[u]
        BY <1>3, <1>6, <2>3, <3>2
      <4>2. \A w \in Tables : hashMeta[w] = hashMeta[u] => w = u
        BY <1>2, <1>3, <2>3, <3>2 DEF NumbersGiven
      <4> QED BY <1>3, <4>1, <4>2
    <3> QED BY <3>1, <3>2
  <2> QED BY <1>1, <2>1, <2>2, <2>3 DEF NumbersGiven, IsNumber, IsUnknown
<1>8. ASSUME NEW s \in ShapeNode, IsNumber(s) => s.size < shapeId, NEW k
      PROVE  IsTrue(s, k)' <=> IsTrue(s, k)
  <2>1. CASE IsNumber(s)
    <3>1. s.size \in Nat /\ s.size < shapeId /\ s.kind = "id" /\ ~ IsUnknown(s)
      BY <1>8, <2>1 DEF ShapeNode, IsNumber
    <3>2. hashMeta[t] # s.size /\ hashMeta'[t] # s.size
      BY <1>1, <1>3, <3>1
    <3>3. \A u \in Tables : hashMeta'[u] = s.size <=> hashMeta[u] = s.size
      BY <1>3, <3>2
    <3>4. \A u \in Tables : hashMeta[u]' = s.size <=> hashMeta[u] = s.size
      BY <3>3
    <3> QED BY <1>1, <3>1, <3>4 DEF IsTrue
  <2>2. CASE ~ IsNumber(s)
    BY <2>2 DEF IsTrue, IsNumber
  <2> QED BY <2>1, <2>2
<1>9. CodeSound'
  <2>1. ASSUME NEW u \in Shaped, NEW k \in Lengths
        PROVE  IsTrue(nodes[shape[u]], k)' => IsTrue(nodes[shape[u]], k)
    <3>1. shape[u] \in DOMAIN nodes /\ nodes[shape[u]] \in ShapeNode
      BY <1>2, SizesOfNodes DEF Shaped, Typed
    <3>2. IsNumber(nodes[shape[u]]) => nodes[shape[u]].size < shapeId
      BY <1>2, <3>1 DEF NumbersGiven
    <3>3. DEFINE s == nodes[shape[u]]
    <3>4. nodes'[shape'[u]] = s
      BY <1>1
    <3>5. ASSUME IsTrue(nodes[shape[u]], k)'
          PROVE  IsTrue(nodes[shape[u]], k)
      <4>1. \A w \in Tables : ~ IsUnknown(s) /\ s.kind = "id" /\ hashMeta[w] = s.size => k = rows[w]
        <5>1. ASSUME NEW w \in Tables, ~ IsUnknown(s), s.kind = "id", hashMeta[w] = s.size
              PROVE  k = rows[w]
          <6>1. s.size \in Nat
            BY <3>1 DEF ShapeNode
          <6>2. w # t
            BY <1>1, <1>3, <5>1, <6>1
          <6>3. hashMeta'[w] = s.size
            BY <1>3, <5>1, <6>2
          <6> QED BY <1>1, <3>4, <3>5, <5>1, <6>3 DEF IsTrue, IsUnknown
        <5> QED BY <5>1
      <4>2. ~ IsUnknown(s) /\ s.kind = "const" => k = s.size
        BY <3>4, <3>5 DEF IsTrue, IsUnknown
      <4> QED BY <4>1, <4>2 DEF IsTrue
    <3> QED BY <3>5
  <2>2. ASSUME NEW s \in code
        PROVE  s.gap \/ Sound(s)'
    <3>1. Scanned(s) /\ s.said \in ShapeNode /\ (IsNumber(s.said) => s.said.size < shapeId)
      BY <1>2 DEF CodeScanned, Scanned, NumbersGiven
    <3>2. \A k \in Lengths : IsTrue(s.said, k) => IsTrue(s.said, k)'
      BY <1>8, <3>1
    <3> QED BY <1>2, <2>1, <3>1, <3>2, SoundStays DEF CodeSound
  <2> QED BY <1>1, <2>2 DEF CodeSound
<1> QED BY <1>4, <1>5, <1>7, <1>9 DEF IInv, NothingBound, AllTrue

\* A statement runs: what its shape says is true, or a gap is behind it.
LEMMA RunKeeps ==
  ASSUME IInv, NEW s \in code, NEW n \in Lengths, Run(s, n)
  PROVE  IInv'
<1> DEFINE v == s.target
<1>1. /\ running /\ val' = [val EXCEPT ![v] = n]
      /\ astray' = IF MayMislead(s) /\ ~ IsTrue(nodes[shape[v]], n)
                   THEN astray \cup {v} ELSE astray \ {v}
      /\ UNCHANGED <<nodes, shapeId, hashScan, hashMeta, shape, code, rows, running>>
  BY DEF Run, analysis
<1>2. Typed /\ CodeScanned /\ NumbersGiven /\ CodeSound /\ AllTrue
  BY DEF IInv
<1>3. v \in Shaped /\ v \in Variables /\ n # None
  BY <1>2, SizesOfNodes DEF CodeScanned, Scanned, Shaped
<1>4. val'[v] = n /\ \A u \in Variables \ {v} : val'[u] = val[u]
  BY <1>1, <1>2, <1>3 DEF Typed
<1>5. Bound' = Bound \cup {v}
  BY <1>3, <1>4 DEF Bound
<1>6. astray' \subseteq Bound'
  BY <1>1, <1>2, <1>5 DEF Typed
<1>7. Typed'
  <2>1. val' \in [Variables -> Lengths \cup {None}]
    BY <1>1, <1>2 DEF Typed
  <2> QED BY <1>1, <1>2, <1>6, <2>1 DEF Typed
<1>8. CodeScanned' /\ NumbersGiven' /\ CodeSound'
  BY <1>1, <1>2
  DEF CodeScanned, Scanned, Shaped, NumbersGiven, IsNumber, IsUnknown, CodeSound, Sound, IsTrue, Yields
<1>9. ASSUME ~ MayMislead(s)
      PROVE  IsTrue(nodes[shape[v]], n)
  <2>1. ~ s.gap /\ nodes[shape[v]] = s.said /\ \A i \in DOMAIN s.args : s.args[i] \notin astray
    BY <1>9 DEF MayMislead, Replaced
  <2>2. Sound(s)
    BY <1>2, <2>1 DEF CodeSound
  <2>3. Yields(s, val, n) /\ \A i \in DOMAIN s.args : s.args[i] \in Bound
    BY DEF Run
  <2>4. \A i \in DOMAIN s.args : /\ val[s.args[i]] # None
                                 /\ IsTrue(nodes[shape[s.args[i]]], val[s.args[i]])
    BY <1>2, <2>1, <2>3 DEF AllTrue, Bound
  <2>5. IsTrue(s.said, n)
    BY <1>2, <2>2, <2>3, <2>4 DEF Sound, Typed
  <2> QED BY <2>1, <2>5
<1>10. AllTrue'
  <2>1. SUFFICES ASSUME NEW u \in Bound', u \notin astray'
                 PROVE  u \in Shaped /\ IsTrue(nodes[shape[u]], val'[u])
    BY <1>1 DEF AllTrue, Shaped, IsTrue, IsUnknown
  <2>2. CASE u = v
    <3>1. ~ (MayMislead(s) /\ ~ IsTrue(nodes[shape[v]], n))
      BY <1>1, <2>1, <2>2
    <3>2. IsTrue(nodes[shape[v]], n)
      BY <1>9, <3>1
    <3> QED BY <1>3, <1>4, <2>2, <3>2
  <2>3. CASE u # v
    <3>1. u \in Bound \ astray /\ u \in Variables
      BY <1>1, <1>5, <2>1, <2>3 DEF Bound
    <3> QED BY <1>2, <1>4, <2>3, <3>1 DEF AllTrue
  <2> QED BY <2>2, <2>3
<1> QED BY <1>1, <1>7, <1>8, <1>10 DEF IInv, NothingBound

LEMMA InitIInv ==
  ASSUME Init
  PROVE  IInv
<1>1. nodes = <<>> /\ DOMAIN nodes = {} /\ code = {} /\ Bound = {}
  BY DEF Init, Bound
<1>2. Typed
  <2>1. nodes \in Seq(ShapeNode)
    BY <1>1
  <2>2. hashScan \in Seq(DOMAIN nodes)
    <3>1. hashScan = <<>>
      BY DEF Init
    <3> QED BY <3>1
  <2> QED BY <1>1, <2>1, <2>2 DEF Init, Typed
<1>3. NumbersGiven
  BY <1>1 DEF Init, NumbersGiven
<1> QED BY <1>1, <1>2, <1>3 DEF IInv, CodeScanned, CodeSound, NothingBound, AllTrue

LEMMA StepIInv ==
  ASSUME IInv, [Next]_vars
  PROVE  IInv'
<1>1. ASSUME UNCHANGED <<analysis, rows, val, astray>>, running' \in BOOLEAN,
             running' \/ UNCHANGED running
      PROVE  IInv'
  <2>1. UNCHANGED <<nodes, shapeId, hashScan, hashMeta, shape, code, rows, val, astray>>
    BY <1>1 DEF analysis
  <2>2. (Typed /\ CodeScanned /\ NumbersGiven)'
    BY <1>1, <2>1 DEF IInv, Typed, CodeScanned, Scanned, Shaped, NumbersGiven, IsNumber, IsUnknown, Bound
  <2>3. CodeSound'
    BY <2>1 DEF IInv, CodeSound, Sound, IsTrue, IsUnknown, Yields
  <2>4. (NothingBound /\ AllTrue)'
    BY <1>1, <2>1 DEF IInv, NothingBound, AllTrue, Bound, Shaped, IsTrue, IsUnknown
  <2> QED BY <2>2, <2>3, <2>4 DEF IInv
<1>2. CASE UNCHANGED vars
  <2>1. running \in BOOLEAN
    BY DEF IInv, Typed
  <2> QED BY <1>1, <1>2, <2>1 DEF vars
<1>3. CASE Start
  BY <1>1, <1>3 DEF Start
<1>4. CASE ~ running /\ ScanStatement
  <2>1. CASE \E t \in Tables : LoadTable(t)
    BY <1>4, <2>1, LoadTableKeeps
  <2>2. ASSUME NEW v \in Variables,
               \/ Sources(v)
               \/ \E x \in Shaped : Monadic(v, x) \/ \E y \in Shaped : Dyadic(v, x, y)
               \/ \E m \in Shaped \cap Masks : Selections(v, m)
        PROVE  IInv'
    <3>1. CASE Sources(v)
      BY <1>4, <3>1, SourcesKeep
    <3>2. CASE \E x \in Shaped : Monadic(v, x)
      BY <1>4, <3>2, MonadicKeeps
    <3>3. CASE \E x \in Shaped, y \in Shaped : Dyadic(v, x, y)
      BY <1>4, <3>3, DyadicKeeps
    <3>4. CASE \E m \in Shaped \cap Masks : Selections(v, m)
      BY <1>4, <3>4, SelectionsKeep
    <3> QED BY <2>2, <3>1, <3>2, <3>3, <3>4
  <2> QED BY <1>4, <2>1, <2>2 DEF ScanStatement
<1>5. CASE \E s \in code, n \in Lengths : Run(s, n)
  BY <1>5, RunKeeps
<1> QED BY <1>2, <1>3, <1>4, <1>5 DEF Next

----------------------------------------------------------------------------
(* The results.                                                            *)

\* What the pass says of a variable follows, rule by rule, from what it says of
\* operands, and is true of its value in any order of the statements of a
\* method and for any number of rounds, or is false by one of the gaps.
THEOREM ShapesAreRight == Spec => []IInv
BY InitIInv, StepIInv, PTL DEF Spec

\* The types.
THEOREM ShapeTypesHold == Spec => []TypeOK
<1>1. IInv => TypeOK
  BY DEF IInv, Typed, CodeScanned, Scanned, TypeOK
<1> QED BY <1>1, ShapesAreRight, PTL

\* A constant shape is the length of the value, whatever has run before.
THEOREM ConstantsHold == Spec => []ConstantsAreLengths
<1>1. IInv => ConstantsAreLengths
  BY DEF IInv, AllTrue, IsTrue, ConstantsAreLengths
<1> QED BY <1>1, ShapesAreRight, PTL

\* The number of a table is of its columns' length only.
THEOREM TableNumbersHold == Spec => []ColumnsHaveRows
<1>1. IInv => ColumnsHaveRows
  BY DEF IInv, AllTrue, IsTrue, ColumnsHaveRows
<1> QED BY <1>1, ShapesAreRight, PTL
=============================================================================
