------------------------------- MODULE Shapes -------------------------------
(***************************************************************************)
(* Shape propagation (analysis/typeshape.cc, analysis/typerule.cc) over    *)
(* the statements of a method, and the lengths of the values that these    *)
(* statements have when the method runs.                                   *)
(*                                                                         *)
(* The pass scans every statement once, those of a loop body too.  Then    *)
(* the method runs: any statement, any number of times, which is what      *)
(* guarded statements in a loop do.  Only operands need a value.           *)
(*                                                                         *)
(* A variable has a pointer to a ShapeNode; so does what a rule returns,   *)
(* and often it is the pointer of an operand.  A length that is not known  *)
(* to the compiler is a number: of a table, of a call, or of a boolean     *)
(* vector that selects, found again by the address of its ShapeNode.       *)
(*                                                                         *)
(* The statements are arbitrary ones over well-typed variables; the pass   *)
(* ends at one that it refuses, and the run at one that fails.             *)
(***************************************************************************)
EXTENDS Integers, Sequences, FiniteSets

CONSTANTS
  Masks,         \* variables of type bool ...
  Vectors,       \* ... and of another basic type
  Tables,
  None,          \* no shape, no number, no value
  FirstScan,     \* what scanId starts at
  MaxLength,     \* bounds on the length of a value,
  MaxShapes,     \* on the number of ShapeNodes,
  MaxStatements  \* and on the number of different statements

ShapesAssumption ==
  /\ Masks \cap Vectors = {}
  /\ None \notin Masks \cup Vectors \cup Nat
  /\ {FirstScan, MaxLength, MaxShapes, MaxStatements} \subseteq Nat
ASSUME ShapesAssumption

VARIABLES
  nodes,     \* the ShapeNodes, by address
  shapeId,   \* the next number of a length ...
  hashScan,  \* ... and the addresses that have one from scanId, in order
  hashMeta,  \* the number of every table, None before it is loaded
  shape,     \* the address in every variable's declared type
  rows,      \* the number of rows of every table
  code,      \* the statements scanned
  running,   \* whether the method runs
  val,       \* the length of every variable's value
  astray     \* history: variables whose shape a gap of the rules has made false

analysis == <<nodes, shapeId, hashScan, hashMeta, shape, code>>
vars == <<analysis, rows, running, val, astray>>

Variables == Masks \cup Vectors
Lengths == 0 .. MaxLength
Kinds == {"const", "id", "scan"}
ShapeNode == [type : {"unknown", "vector"}, kind : Kinds, size : Nat]
SameType(v, x) == v \in Masks <=> x \in Masks
Shaped == {v \in Variables : shape[v] # None}
Bound == {v \in Variables : val[v] # None}

----------------------------------------------------------------------------
(* What a rule returns: an address, with the state of the analysis then.   *)

Result(heap, p, ids, scans) == [nodes |-> heap, at |-> p, ids |-> ids, scans |-> scans]

\* The pointer of an operand.
Same(p) == Result(nodes, p, shapeId, hashScan)

\* newShapeNode.
NewShapeNode(type, kind, size, ids, scans) ==
  Result(Append(nodes, [type |-> type, kind |-> kind, size |-> size]),
         Len(nodes) + 1, ids, scans)
Const(n) == NewShapeNode("vector", "const", n, shapeId, hashScan)
Numbered(id) == NewShapeNode("vector", "id", id, shapeId, hashScan)

\* Mutant: the number is not replaced.
FreshWithout == NewShapeNode("vector", "id", -1, shapeId, hashScan)

Fresh == NewShapeNode("vector", "id", shapeId, shapeId + 1, hashScan)
Unknown == NewShapeNode("unknown", "id", 0, shapeId, hashScan)

\* newShapeNodeScan: the number of the address p, a new one the first time.
NewShapeNodeScan(p) ==
  LET scans == IF \E i \in DOMAIN hashScan : hashScan[i] = p
               THEN hashScan ELSE Append(hashScan, p)
      at == CHOOSE i \in DOMAIN scans : scans[i] = p
  IN  NewShapeNode("vector", "scan", FirstScan + at - 1, shapeId, scans)

IsUnknown(s) == s.type = "unknown"
IsOne(s) == s.kind = "const" /\ s.size = 1

\* isSameShape of analysis/common.cc.
IsSameShape(s, t) == s.type = t.type /\ s.kind = t.kind /\ s.size = t.size

\* Sizes are one member of a union: a numbered length is taken for any other
\* length with its number.
Agree(s, t) == s.size = t.size /\ (s.kind = "id" \/ s.kind = t.kind)

\* Mutant: the scalar's shape.
DecideScalar(p, q) == IF IsOne(nodes[p]) THEN Same(p) ELSE Same(q)

\* decideShapeElementwise, of two addresses; a length mismatch that is seen is
\* refused.
Refused(s, t) ==
  /\ {s.type, t.type} = {"vector"} /\ {s.kind, t.kind} = {"const"}
  /\ s.size # t.size /\ 1 \notin {s.size, t.size}
DecideShapeElementwise(p, q) ==
  LET s == nodes[p]
      t == nodes[q]
  IN  IF IsUnknown(s) \/ IsUnknown(t) THEN Unknown
      ELSE IF IsOne(s) THEN Same(q)
      ELSE IF IsOne(t) \/ Agree(s, t) THEN Same(p)
      ELSE Unknown

\* decideShapeCompress, of the mask and the vector.
Selects(s, t) == IsUnknown(s) \/ IsUnknown(t) \/ IsSameShape(s, t)
DecideShapeCompress(p, q) ==
  IF IsUnknown(nodes[p]) \/ IsUnknown(nodes[q]) THEN Unknown
  ELSE IF nodes[p].kind = "const" THEN Fresh
  ELSE NewShapeNodeScan(p)

\* decideShapeAppend.
DecideShapeAppend(p, q) ==
  IF IsUnknown(nodes[p]) \/ IsUnknown(nodes[q]) THEN Unknown
  ELSE IF "id" \in {nodes[p].kind, nodes[q].kind} THEN Fresh
  ELSE Const(nodes[p].size + nodes[q].size)

----------------------------------------------------------------------------
(* A statement is scanned.                                                 *)

\* checkShape: a declared type without a shape takes the pointer, an unknown
\* shape is overwritten with what is pointed to, and others have to agree.
Checked(v, p, heap) ==
  IF shape[v] = None THEN [at |-> p, nodes |-> heap]
  ELSE IF IsUnknown(heap[shape[v]])
       THEN [at |-> shape[v], nodes |-> [heap EXCEPT ![shape[v]] = heap[p]]]
       ELSE [at |-> shape[v], nodes |-> heap]
Compatible(v, s) ==
  shape[v] # None =>
    IsUnknown(nodes[shape[v]]) \/ (~ IsUnknown(s) /\ s.size = nodes[shape[v]].size)

\* What a statement leaves for the run: how long its value is (yields, n and
\* args), what its rule said of it, and whether this rule has a gap here.
Statement(v, yields, n, args, said, gap) ==
  [target |-> v, yields |-> yields, n |-> n, args |-> args, said |-> said, gap |-> gap]

\* v = an expression with operands args, of shape r.
Scan(v, r, yields, n, args, gap) ==
  LET checked == Checked(v, r.at, r.nodes)
  IN  /\ Len(r.nodes) <= MaxShapes /\ Cardinality(code) < MaxStatements
      /\ Compatible(v, r.nodes[r.at])
      /\ nodes' = checked.nodes
      /\ shape' = [shape EXCEPT ![v] = checked.at]
      /\ shapeId' = r.ids
      /\ hashScan' = r.scans
      /\ code' = code \cup {Statement(v, yields, n, args, r.nodes[r.at], gap)}
      /\ UNCHANGED <<hashMeta, rows, running, val, astray>>

\* Mutant: the number of the table is left for the next call.
LoadTableOnly(t) ==
  /\ hashMeta[t] = None
  /\ hashMeta' = [hashMeta EXCEPT ![t] = shapeId]
  /\ UNCHANGED <<nodes, shapeId, hashScan, shape, rows, code, running, val, astray>>

\* t = @load_table(name).
LoadTable(t) ==
  /\ hashMeta[t] = None
  /\ hashMeta' = [hashMeta EXCEPT ![t] = shapeId]
  /\ shapeId' = shapeId + 1
  /\ UNCHANGED <<nodes, hashScan, shape, rows, code, running, val, astray>>

\* v = check_cast(@column_value(t, name), type).
ColumnValue(v, t) ==
  hashMeta[t] # None /\ Scan(v, Numbered(hashMeta[t]), "fixed", rows[t], <<>>, FALSE)

\* v = a literal of n items; a reduction; a call whose length only its result
\* has (range, order, vector, ...).
Literal(v, n) == Scan(v, Const(n), "fixed", n, <<>>, FALSE)
Reduction(v) == Literal(v, 1)
Sized(v) == Scan(v, Fresh, "any", 0, <<>>, FALSE)

\* v = @take(k, x) or @drop(k, x).
TakeDrop(v, x) ==
  Scan(v, IF IsUnknown(nodes[shape[x]]) THEN Unknown ELSE Fresh, "any", 0, <<x>>, FALSE)

\* v = x, a cast, or a call as long as the operand x that it takes the shape from.
LikeOperand(v, x) == Scan(v, Same(shape[x]), "same", 0, <<x>>, FALSE)

\* v = @unique(x): as many items as x has different ones, and the shape of x.
Unique(v, x) == Scan(v, Same(shape[x]), "distinct", 0, <<x>>, TRUE)

\* v = an elementwise call with two operands.  The gap: a numbered length takes
\* a length of another kind for itself.
Elementwise(v, x, y) ==
  LET s == nodes[shape[x]]
      t == nodes[shape[y]]
  IN  /\ ~ Refused(s, t)
      /\ Scan(v, DecideShapeElementwise(shape[x], shape[y]), "longer", 0, <<x, y>>,
              s.kind = "id" /\ t.kind # "id" /\ s.size = t.size)

\* v = @power(x, y) or @logb(x, y): the shape of y, though x may be the longer.
Power(v, x, y) == Scan(v, Same(shape[y]), "longer", 0, <<x, y>>, TRUE)

\* v = @datetime_add(x, y, unit) or @datetime_sub(x, y, unit): the shape of x,
\* though y may be the longer.
DateTime(v, x, y) == Scan(v, Same(shape[x]), "longer", 0, <<x, y>>, TRUE)

\* v = @append(x, y).  The gap: the number of a selection is added as a length.
AppendCall(v, x, y) ==
  Scan(v, DecideShapeAppend(shape[x], shape[y]), "joined", 0, <<x, y>>,
       "scan" \in {nodes[shape[x]].kind, nodes[shape[y]].kind})

\* v = @where(m), v = @compress(m, x).
Where(v, m) == Scan(v, NewShapeNodeScan(shape[m]), "chosen", 0, <<m>>, FALSE)
Compress(v, m, x) ==
  /\ Selects(nodes[shape[m]], nodes[shape[x]])
  /\ Scan(v, DecideShapeCompress(shape[m], shape[x]), "chosen", 0, <<m, x>>, FALSE)

----------------------------------------------------------------------------
(* A statement runs.                                                       *)

\* The lengths of two operands of an elementwise call conform, and the longer
\* one is the length of its result.
Conform(k, l) == 1 \in {k, l} \/ k = l
Longer(k, l) == IF k = 1 THEN l ELSE k

\* Statement s may have a value of n items, where variables have len items.
Yields(s, len, n) ==
  LET x == len[s.args[1]]
      y == len[s.args[2]]
  IN  \/ s.yields = "fixed" /\ n = s.n
      \/ s.yields = "any"
      \/ s.yields = "same" /\ n = x
      \/ s.yields = "distinct" /\ n <= x /\ (n = 0 => x = 0)
      \/ s.yields = "longer" /\ Conform(x, y) /\ n = Longer(x, y)
      \/ s.yields = "joined" /\ n = x + y
      \/ s.yields = "chosen" /\ n <= x /\ \A i \in DOMAIN s.args : len[s.args[i]] = x

\* What a ShapeNode says of a value of n items: nothing if it is unknown, and of
\* the numbers only that of a table is one length throughout a run.
IsTrue(s, n) ==
  ~ IsUnknown(s) =>
    /\ s.kind = "const" => n = s.size
    /\ s.kind = "id" => \A t \in Tables : hashMeta[t] = s.size => n = rows[t]

\* The shape of the target is not what the rule said, after checkShape: it was
\* overwritten where it stands, or numbers of two kinds agreed.
Replaced(s) == nodes[shape[s.target]] # s.said

MayMislead(s) == s.gap \/ Replaced(s) \/ \E i \in DOMAIN s.args : s.args[i] \in astray

Run(s, n) ==
  /\ running
  /\ \A i \in DOMAIN s.args : s.args[i] \in Bound
  /\ Yields(s, val, n)
  /\ val' = [val EXCEPT ![s.target] = n]
  /\ astray' = IF MayMislead(s) /\ ~ IsTrue(nodes[shape[s.target]], n)
               THEN astray \cup {s.target} ELSE astray \ {s.target}
  /\ UNCHANGED <<analysis, rows, running>>

----------------------------------------------------------------------------
Init ==
  /\ nodes = <<>> /\ shapeId = 0 /\ hashScan = <<>>
  /\ hashMeta = [t \in Tables |-> None]
  /\ shape = [v \in Variables |-> None]
  /\ rows \in [Tables -> Lengths]
  /\ code = {} /\ running = FALSE
  /\ val = [v \in Variables |-> None] /\ astray = {}

Sources(v) ==
  \/ \E t \in Tables : ColumnValue(v, t)
  \/ \E n \in Lengths : Literal(v, n)
  \/ Reduction(v) \/ Sized(v)

Monadic(v, x) ==
  \/ LikeOperand(v, x)
  \/ SameType(v, x) /\ TakeDrop(v, x)
  \/ v \in Vectors /\ Unique(v, x)

Dyadic(v, x, y) ==
  \/ Elementwise(v, x, y)
  \/ v \in Vectors /\ Power(v, x, y)
  \/ {v, x, y} \subseteq Vectors /\ DateTime(v, x, y)
  \/ SameType(v, x) /\ SameType(v, y) /\ AppendCall(v, x, y)

Selections(v, m) ==
  \/ v \in Vectors /\ Where(v, m)
  \/ \E x \in Shaped : SameType(v, x) /\ Compress(v, m, x)

ScanStatement ==
  \/ \E t \in Tables : LoadTable(t)
  \/ \E v \in Variables :
       \/ Sources(v)
       \/ \E x \in Shaped : Monadic(v, x) \/ \E y \in Shaped : Dyadic(v, x, y)
       \/ \E m \in Shaped \cap Masks : Selections(v, m)

\* The pass is over.
Start == running' = TRUE /\ UNCHANGED <<analysis, rows, val, astray>>

Next ==
  \/ ~ running /\ (ScanStatement \/ Start)
  \/ \E s \in code, n \in Lengths : Run(s, n)

Spec == Init /\ [][Next]_vars

----------------------------------------------------------------------------
(* Properties.                                                             *)

\* The types of the variables.
TypeOK ==
  /\ nodes \in Seq(ShapeNode) /\ shapeId \in Nat
  /\ hashScan \in Seq(DOMAIN nodes)
  /\ hashMeta \in [Tables -> Nat \cup {None}]
  /\ shape \in [Variables -> DOMAIN nodes \cup {None}]
  /\ \A s \in code : s.target \in Shaped /\ s.said \in ShapeNode
                     /\ \A i \in DOMAIN s.args : s.args[i] \in Shaped
  /\ val \in [Variables -> Lengths \cup {None}]
  /\ astray \subseteq Bound

\* A constant shape is the length of its variable's value whenever the method
\* runs, in any order of the statements: the loops of the compiler read a
\* variable with the shape 1 as a scalar, and others as vectors (isScalarByIn,
\* optimizer/common.cc:178).  What is false is so by one of the gaps named above.
ConstantsAreLengths ==
  \A v \in Bound \ astray :
    ~ IsUnknown(nodes[shape[v]]) /\ nodes[shape[v]].kind = "const"
      => val[v] = nodes[shape[v]].size

\* A variable whose shape has the number of a table is as long as its columns,
\* as decideShapeElementwise and compress take it to be (typerule.cc:680-774);
\* no call is given that number.
ColumnsHaveRows ==
  \A v \in Bound \ astray, t \in Tables :
    ~ IsUnknown(nodes[shape[v]]) /\ nodes[shape[v]].kind = "id" /\ nodes[shape[v]].size = hashMeta[t]
      => val[v] = rows[t]
=============================================================================
