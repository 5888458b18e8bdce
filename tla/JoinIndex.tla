----------------------------- MODULE JoinIndex -----------------------------
(***************************************************************************)
(* @join_index(@eq, left, right) and @join_index(@neq, ...) on two integer *)
(* vectors (pfnJoinIndex, backend/h_primitive.cc): the index pairs of the  *)
(* matching rows.                                                          *)
(*                                                                         *)
(* The shorter vector becomes the source x.  A source below                *)
(* NUM_JOIN_LINEAR rows is scanned linearly (lib_join_index_linear,        *)
(* backend/h_libs.cc).  Otherwise an equi-join builds a partitioned hash   *)
(* table of x and probes it with the rows of y (backend/h_hash_v3.cc): a   *)
(* key picks a partition, its hash a chain of cells, and its node in a     *)
(* cell lists the rows that have the key.  Both ways size the result in a  *)
(* first pass and write it in a second.                                    *)
(*                                                                         *)
(* Rows are numbered from 1.  A node keeps its first row inline and moves  *)
(* to an array with the second; here it simply lists them.                 *)
(***************************************************************************)
EXTENDS HashTables, Sequences, FiniteSets

CONSTANTS
  Keys,             \* the values of the vectors
  Hash,             \* hash_LL
  setT,             \* number of partitions
  PRE_SIZE_CELL,    \* nodes of a cell
  SLOT_SIZE,        \* rows of a node
  NUM_JOIN_LINEAR,  \* a shorter source is scanned
  MaxRows           \* bound on the length of the operands

JoinAssumption ==
  /\ Keys \subseteq Nat
  /\ Hash \in [Keys -> Nat]
  /\ setT \in Nat \ {0}
  /\ PRE_SIZE_CELL \in Nat \ {0} /\ SLOT_SIZE \in Nat \ {0, 1}
  /\ NUM_JOIN_LINEAR \in Nat /\ MaxRows \in Nat
ASSUME JoinAssumption

VARIABLES
  left, right, isEq,  \* the operands, and whether the operator is @eq
  phase,   \* the running loop, "returned", or the error that ended the run
  i,       \* its loop variable
  table,   \* the chain of cells at every <<partition, bucket>>
  tempHN,  \* the node found for every row of y, None without one
  c,       \* next cell of the result
  lenZ,    \* length of the result
  z        \* the pairs <<z0, z1>>

operands == <<left, right, isEq>>
vars == <<operands, phase, i, table, tempHN, c, lenZ, z>>

None == <<>>

\* pfnJoinIndex exchanges the operands, and the result again at the end.
Swapped == Len(left) > Len(right)
x == IF Swapped THEN right ELSE left
y == IF Swapped THEN left ELSE right

Matches(j, k) == IF isEq THEN x[j] = y[k] ELSE x[j] # y[k]

----------------------------------------------------------------------------
(* The hash table.                                                         *)

Partition(key) == key % setT
RowsOf(p) == {r \in DOMAIN x : Partition(x[r]) = p}

\* A partition without rows has no table.
Chains(p) == IF RowsOf(p) = {} THEN 0 ELSE TableSize(Cardinality(RowsOf(p)))
Addresses == UNION {{p} \X (0 .. Chains(p) - 1) : p \in 0 .. setT - 1}
Address(key) == <<Partition(key), Hash[key] % Chains(Partition(key))>>

Node(key, r) == [key |-> key, rows |-> <<r>>]

\* The places <<cell, node>> of a key in a chain, and the first of them.
Places(chain, key) ==
  {a \in (1 .. Len(chain)) \X (1 .. PRE_SIZE_CELL) :
     a[2] <= Len(chain[a[1]]) /\ chain[a[1]][a[2]].key = key}
FirstPlace(chain, key) ==
  CHOOSE a \in Places(chain, key) :
    \A b \in Places(chain, key) : a[1] < b[1] \/ (a[1] = b[1] /\ a[2] <= b[2])

\* Mutant: a full cell is dropped for the new one.
WithNodeReplacing(chain, node) ==
  IF chain # <<>> /\ Len(chain[Len(chain)]) < PRE_SIZE_CELL
  THEN [chain EXCEPT ![Len(chain)] = Append(@, node)]
  ELSE <<<<node>>>>

\* A new node goes to the last cell, or to a new one.
WithNode(chain, node) ==
  IF chain # <<>> /\ Len(chain[Len(chain)]) < PRE_SIZE_CELL
  THEN [chain EXCEPT ![Len(chain)] = Append(@, node)]
  ELSE Append(chain, <<node>>)

RowsAt(at, a) == table[at][a[1]][a[2]].rows

\* Mutant: the probe looks in the first cell of a chain only.
FindInFirstCell(key) ==
  IF \/ Chains(Partition(key)) = 0
     \/ \A a \in Places(table[Address(key)], key) : a[1] # 1 THEN None
  ELSE <<Address(key), FirstPlace(table[Address(key)], key)>>

\* find_hash_value_single_v3: the address and place of a key.
Find(key) ==
  IF Chains(Partition(key)) = 0 \/ Places(table[Address(key)], key) = {} THEN None
  ELSE <<Address(key), FirstPlace(table[Address(key)], key)>>

----------------------------------------------------------------------------

Init ==
  /\ left \in UNION {[1 .. n -> Keys] : n \in 0 .. MaxRows}
  /\ right \in UNION {[1 .. n -> Keys] : n \in 0 .. MaxRows}
  /\ isEq \in BOOLEAN
  /\ phase = "dispatch" /\ i = 1
  /\ table = <<>> /\ tempHN = <<>>
  /\ c = 1 /\ lenZ = 0 /\ z = <<>>

\* pfnJoinIndexSingle and lib_join_index_hash choose the algorithm.
Dispatch ==
  /\ phase = "dispatch"
  /\ phase' = IF Len(x) < NUM_JOIN_LINEAR THEN "linear calc"
              ELSE IF isEq THEN "build" ELSE "TODO"
  /\ table' = [at \in Addresses |-> <<>>]
  /\ UNCHANGED <<operands, i, tempHN, c, lenZ, z>>

\* insert_hash_int_v3_I of row i, and insert_index_v3 for a known key.
Insert ==
  LET key   == x[i]
      at    == Address(key)
      a     == FirstPlace(table[at], key)
      known == Places(table[at], key) # {}
  IN  /\ phase = "build" /\ i <= Len(x)
      /\ \/ /\ ~ known
            /\ table' = [table EXCEPT ![at] = WithNode(@, Node(key, i))]
            /\ i' = i + 1
            /\ UNCHANGED phase
         \/ /\ known /\ Len(RowsAt(at, a)) < SLOT_SIZE
            /\ table' = [table EXCEPT ![at][a[1]][a[2]].rows = Append(@, i)]
            /\ i' = i + 1
            /\ UNCHANGED phase
         \/ /\ known /\ Len(RowsAt(at, a)) >= SLOT_SIZE
            /\ phase' = "Not enough slots"
            /\ UNCHANGED <<table, i>>
      /\ UNCHANGED <<operands, tempHN, c, lenZ, z>>

Built ==
  /\ phase = "build" /\ i > Len(x)
  /\ phase' = "probe" /\ i' = 1
  /\ UNCHANGED <<operands, table, tempHN, c, lenZ, z>>

\* Mutant: the length of the result counts a node, not its rows.
ProbeNodes ==
  LET found == Find(y[i]) IN
  /\ phase = "probe" /\ i <= Len(y)
  /\ tempHN' = Append(tempHN, found)
  /\ lenZ' = lenZ + (IF found = None THEN 0 ELSE 1)
  /\ i' = i + 1
  /\ UNCHANGED <<operands, phase, table, c, z>>

\* The probe adds up the length of the result.
Probe ==
  LET found == Find(y[i]) IN
  /\ phase = "probe" /\ i <= Len(y)
  /\ tempHN' = Append(tempHN, found)
  /\ lenZ' = lenZ + (IF found = None THEN 0 ELSE Len(RowsAt(found[1], found[2])))
  /\ i' = i + 1
  /\ UNCHANGED <<operands, phase, table, c, z>>

Probed ==
  /\ phase = "probe" /\ i > Len(y)
  /\ phase' = "write" /\ i' = 1
  /\ z' = [k \in 1 .. lenZ |-> None]
  /\ UNCHANGED <<operands, table, tempHN, c, lenZ>>

\* All the pairs of row i of y.
Write ==
  LET rows == IF tempHN[i] = None THEN <<>>
              ELSE RowsAt(tempHN[i][1], tempHN[i][2])
  IN  /\ phase = "write" /\ i <= Len(y)
      /\ z' = [k \in DOMAIN z |-> IF k \in c .. c + Len(rows) - 1
                                  THEN <<rows[k - c + 1], i>> ELSE z[k]]
      /\ c' = c + Len(rows)
      /\ i' = i + 1
      /\ UNCHANGED <<operands, phase, table, tempHN, lenZ>>

\* join_linear_calc and join_linear_save stop at the first match of a row.
Hits(k) == {j \in DOMAIN x : Matches(j, k) /\ \A l \in 1 .. j - 1 : ~ Matches(l, k)}

LinearCalc ==
  /\ phase = "linear calc" /\ i <= Len(y)
  /\ lenZ' = lenZ + Cardinality(Hits(i))
  /\ i' = i + 1
  /\ UNCHANGED <<operands, phase, table, tempHN, c, z>>

LinearAllocate ==
  /\ phase = "linear calc" /\ i > Len(y)
  /\ phase' = "linear save" /\ i' = 1
  /\ z' = [k \in 1 .. lenZ |-> None]
  /\ UNCHANGED <<operands, table, tempHN, c, lenZ>>

LinearSave ==
  /\ phase = "linear save" /\ i <= Len(y)
  /\ IF Hits(i) = {} THEN UNCHANGED <<z, c>>
     ELSE \E j \in Hits(i) : z' = [z EXCEPT ![c] = <<j, i>>] /\ c' = c + 1
  /\ i' = i + 1
  /\ UNCHANGED <<operands, phase, table, tempHN, lenZ>>

\* Mutant: the result is not exchanged again.
ReturnUnswapped ==
  /\ phase \in {"write", "linear save"} /\ i > Len(y)
  /\ phase' = "returned"
  /\ UNCHANGED <<operands, i, table, tempHN, c, lenZ, z>>

\* swap2, for exchanged operands.
Return ==
  /\ phase \in {"write", "linear save"} /\ i > Len(y)
  /\ phase' = "returned"
  /\ z' = IF Swapped THEN [k \in DOMAIN z |-> <<z[k][2], z[k][1]>>] ELSE z
  /\ UNCHANGED <<operands, i, table, tempHN, c, lenZ>>

Next ==
  \/ Dispatch
  \/ Insert \/ Built \/ Probe \/ Probed \/ Write
  \/ LinearCalc \/ LinearAllocate \/ LinearSave
  \/ Return

Spec == Init /\ [][Next]_vars

----------------------------------------------------------------------------

\* The pairs a join is to return.
Joined ==
  {p \in (DOMAIN left) \X (DOMAIN right) :
     IF isEq THEN left[p[1]] = right[p[2]] ELSE left[p[1]] # right[p[2]]}

\* The nodes of the table, as <<address, place>>.
Nodes ==
  UNION {{at} \X {a \in (1 .. Len(table[at])) \X (1 .. PRE_SIZE_CELL) :
                    a[2] <= Len(table[at][a[1]])} : at \in DOMAIN table}
KeyOf(nd) == table[nd[1]][nd[2][1]][nd[2][2]].key

\* While the table is built, the rows inserted so far are listed once each, by
\* the only node of their key, in increasing order, where the probe looks.
TableListsRows ==
  phase = "build" =>
    /\ \A nd \in Nodes : nd[1] = Address(KeyOf(nd))
    /\ \A nd, md \in Nodes : KeyOf(nd) = KeyOf(md) => nd = md
    /\ \A nd \in Nodes :
         LET rows == RowsAt(nd[1], nd[2])
             expected == {r \in 1 .. i - 1 : x[r] = KeyOf(nd)}
         IN  /\ {rows[k] : k \in DOMAIN rows} = expected
             /\ \A k, l \in DOMAIN rows : k < l => rows[k] < rows[l]
    /\ \A r \in 1 .. i - 1 : \E nd \in Nodes : KeyOf(nd) = x[r]

\* The second pass writes exactly the cells that the first one asked for.
PassesAgree ==
  /\ phase \in {"write", "linear save", "returned"} => c <= lenZ + 1
  /\ phase = "returned" => c = lenZ + 1 /\ \A k \in DOMAIN z : z[k] # None

\* A hash join returns every matching pair, and each once.
HashJoinIsComplete ==
  phase = "returned" /\ Len(x) >= NUM_JOIN_LINEAR =>
    /\ {z[k] : k \in DOMAIN z} = Joined
    /\ Len(z) = Cardinality(Joined)

\* Every pair a join returns, by either algorithm, is a matching pair; and
\* every row that has a match on the other side, and belongs to the longer
\* vector, appears.
JoinIsSound ==
  phase = "returned" =>
    /\ {z[k] : k \in DOMAIN z} \subseteq Joined
    /\ \A p \in Joined :
         \E k \in DOMAIN z : IF Swapped THEN z[k][1] = p[1] ELSE z[k][2] = p[2]

\* docs/mkdocs/docs/horseir/builtin/join.md: join_index is the combination of
\* @outer and @where, that is, all matching pairs.
JoinIsOuterWhere == phase = "returned" => {z[k] : k \in DOMAIN z} = Joined
=============================================================================
