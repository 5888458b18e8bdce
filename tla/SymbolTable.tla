---------------------------- MODULE SymbolTable ----------------------------
(***************************************************************************)
(* The symbols of the backend (backend/h_symbol.cc): getSymbol interns a   *)
(* name in an AVL tree, whose nodes hold the indices, and in an array from *)
(* indices to nodes that doubles when it is full.                          *)
(*                                                                         *)
(* An action is a call or a return of the recursive insertAVL.  Nodes are  *)
(* never freed, and have their index for an address.  A BSTree* is a field *)
(* of a node; rootT is the left field of the address Root.  What is done   *)
(* to the left and, by other functions, to the right, is stated once for a *)
(* side.  Names are ordered as strcmp orders them.                         *)
(***************************************************************************)
EXTENDS Integers, Sequences, FiniteSets

CONSTANTS
  Names,     \* the names, numbers for their order
  InitSize,  \* initial length of symTable
  Junk       \* no name; an array cell that was not written, or cleared

SymbolAssumption ==
  /\ Names \subseteq Nat /\ Junk \notin Nat
  /\ InitSize \in Nat \ {0}
ASSUME SymbolAssumption

VARIABLES
  data, bf, kid,  \* the nodes; kid has both children, by their side
  symTable,       \* the array
  symCur,         \* the largest index in use, -1 at first
  symSize,        \* the length of the array
  e,              \* the name that is interned
  cstack,         \* the fields T of the calls of insertAVL on the C stack
  taller,         \* whether the tree that a call has returned got taller
  pc,             \* "insert": a call begins; "return": one has returned 1
  answer          \* the last name asked for, and the index returned

array == <<symTable, symSize>>
vars == <<data, bf, kid, array, symCur, e, cstack, taller, pc, answer>>

\* The sides, which are the balance factors of a node that leans to them.
LH == 1
EH == 0
RH == -1
Sides == {LH, RH}

NULL == -1
Root == -2
Address == 0 .. symCur

----------------------------------------------------------------------------
(* Rotations, and how to balance a tree that got too high.                 *)

Field(x, s) == [of |-> x, side |-> s]
At(T) == kid[T.of][T.side]
Top == cstack[Len(cstack)]
Toward(x) == IF e < data[x] THEN LH ELSE RH

\* Mutant: the inner subtree is lost.
RotateLosing(k, T, s) ==
  LET n == k[T.of][T.side]
      c == k[n][s]
  IN  [k EXCEPT ![n][s] = NULL, ![c][-s] = n, ![T.of][T.side] = c]

\* R_Rotate, of a tree whose child to the left gets its root; L_Rotate, to the
\* right.
Rotate(k, T, s) ==
  LET n == k[T.of][T.side]
      c == k[n][s]
  IN  [k EXCEPT ![n][s] = k[c][-s], ![c][-s] = n, ![T.of][T.side] = c]

Balanced(k, factors) == [kid |-> k, bf |-> factors]

\* Mutant: the factors of the double rotation are exchanged.
BalanceMirrored(T, s) ==
  LET n == At(T)
      c == kid[n][s]
      d == kid[c][-s]
  IN  IF bf[c] = s THEN Balanced(Rotate(kid, T, s), [bf EXCEPT ![n] = EH, ![c] = EH])
      ELSE Balanced(Rotate(Rotate(kid, Field(n, s), -s), T, s),
                    [bf EXCEPT ![n] = IF bf[d] = -s THEN -s ELSE EH,
                               ![c] = IF bf[d] = s THEN s ELSE EH, ![d] = EH])

\* leftBalance and rightBalance.
Balance(T, s) ==
  LET n == At(T)
      c == kid[n][s]
      d == kid[c][-s]
  IN  IF bf[c] = s THEN Balanced(Rotate(kid, T, s), [bf EXCEPT ![n] = EH, ![c] = EH])
      ELSE IF bf[c] = EH THEN Balanced(kid, bf)
      ELSE Balanced(Rotate(Rotate(kid, Field(n, s), -s), T, s),
                    [bf EXCEPT ![n] = IF bf[d] = s THEN -s ELSE EH,
                               ![c] = IF bf[d] = -s THEN s ELSE EH, ![d] = EH])

----------------------------------------------------------------------------
(* insertAVL.                                                              *)

Popped == SubSeq(cstack, 1, Len(cstack) - 1)
With(f, x, y) == [z \in DOMAIN f \cup {x} |-> IF z = x THEN y ELSE f[z]]

NewNode ==
  LET Tx == symCur + 1
  IN  /\ pc = "insert" /\ At(Top) = NULL
      /\ data' = With(data, Tx, e) /\ bf' = With(bf, Tx, EH)
      /\ kid' = With([kid EXCEPT ![Top.of][Top.side] = Tx], Tx, [s \in Sides |-> NULL])
      /\ symCur' = Tx
      /\ symTable' = [symTable EXCEPT ![Tx] = Tx]
      /\ taller' = TRUE /\ pc' = "return" /\ cstack' = Popped
      /\ UNCHANGED <<symSize, e, answer>>

\* The name is there: every call returns 0 at once.
Found ==
  /\ pc = "insert" /\ At(Top) # NULL /\ data[At(Top)] = e
  /\ answer' = <<e, At(Top)>>
  /\ pc' = "idle" /\ cstack' = <<>>
  /\ UNCHANGED <<data, bf, kid, array, symCur, e, taller>>

Recurse ==
  /\ pc = "insert" /\ At(Top) # NULL /\ data[At(Top)] # e
  /\ cstack' = Append(cstack, Field(At(Top), Toward(At(Top))))
  /\ UNCHANGED <<data, bf, kid, array, symCur, e, taller, pc, answer>>

\* The node goes on after the call for a subtree, and returns 1.
Resume ==
  /\ pc = "return" /\ cstack # <<>>
  /\ cstack' = Popped
  /\ UNCHANGED <<data, array, symCur, e, pc, answer>>
AsHigh == Resume /\ ~ taller /\ UNCHANGED <<bf, kid, taller>>
Lean ==
  LET x == At(Top)
  IN  /\ Resume /\ taller /\ bf[x] # Toward(x)
      /\ bf' = [bf EXCEPT ![x] = @ + Toward(x)] /\ taller' = (bf[x] = EH)
      /\ UNCHANGED kid
Rebalance ==
  LET x == At(Top)
      balanced == Balance(Top, Toward(x))
  IN  /\ Resume /\ taller /\ bf[x] = Toward(x)
      /\ taller' = FALSE /\ kid' = balanced.kid /\ bf' = balanced.bf

----------------------------------------------------------------------------

\* incSym: the upper half is cleared.  Mutant: the lower half is not copied.
IncSymCleared == [c \in 0 .. 2 * symSize - 1 |-> Junk]

IncSym == [c \in 0 .. 2 * symSize - 1 |-> IF c < symSize THEN symTable[c] ELSE Junk]

\* Mutant: the array grows one insertion too late.
FullLate == symCur >= symSize

Full == symCur >= symSize - 1

GetSymbol(name) ==
  /\ pc = "idle"
  /\ e' = name /\ taller' = FALSE
  /\ IF Full THEN symTable' = IncSym /\ symSize' = 2 * symSize ELSE UNCHANGED array
  /\ pc' = "insert" /\ cstack' = <<Field(Root, LH)>>
  /\ UNCHANGED <<data, bf, kid, symCur, answer>>

\* Its return, after an insertion.
Inserted ==
  /\ pc = "return" /\ cstack = <<>>
  /\ pc' = "idle" /\ answer' = <<e, symCur>>
  /\ UNCHANGED <<data, bf, kid, array, symCur, e, cstack, taller>>

\* initSym.
Init ==
  /\ data = <<>> /\ bf = <<>>
  /\ kid = [x \in {Root} |-> [s \in Sides |-> NULL]]
  /\ symTable = [c \in 0 .. InitSize - 1 |-> Junk]
  /\ symCur = -1 /\ symSize = InitSize
  /\ e = Junk /\ cstack = <<>> /\ taller = FALSE /\ pc = "idle"
  /\ answer = <<>>

Next ==
  \/ \E name \in Names : GetSymbol(name)
  \/ NewNode \/ Found \/ Recurse
  \/ AsHigh \/ Lean \/ Rebalance
  \/ Inserted

Spec == Init /\ [][Next]_vars

----------------------------------------------------------------------------
(* Properties.                                                             *)

\* The height and the nodes of the tree at an address, as far as d levels down:
\* a tree has at most as many levels as there are nodes.
Tree[d \in Nat] ==
  [x \in {NULL} \cup Address |->
    IF d = 0 \/ x = NULL THEN [height |-> 0, nodes |-> {}]
    ELSE LET l == Tree[d - 1][kid[x][LH]]
             r == Tree[d - 1][kid[x][RH]]
         IN  [height |-> 1 + (IF l.height > r.height THEN l.height ELSE r.height),
              nodes |-> {x} \cup l.nodes \cup r.nodes]]
Height(x) == Tree[symCur + 1][x].height
Nodes(x) == Tree[symCur + 1][x].nodes

\* The types of the variables; the next index fits into the array.
TypeOK ==
  /\ symSize \in Nat /\ symCur \in -1 .. symSize - 1
  /\ pc = "insert" => symCur + 1 < symSize
  /\ symTable \in [0 .. symSize - 1 -> Address \cup {Junk}]
  /\ data \in [Address -> Names] /\ bf \in [Address -> {LH, EH, RH}]
  /\ kid \in [{Root} \cup Address -> [Sides -> {NULL} \cup Address]]
  /\ e \in Names \cup {Junk} /\ taller \in BOOLEAN /\ pc \in {"idle", "insert", "return"}
  /\ cstack \in Seq([of : {Root} \cup Address, side : Sides])
  /\ answer \in {<<>>} \cup (Names \X Address)

\* The tree is a search tree over exactly the interned names, and its nodes
\* carry the indices under which the array holds them: rotations (h_symbol.cc,
\* lines 11-79) move nodes, never lose or reorder them.
SearchTree ==
  /\ \A x \in Address :
       /\ \A y \in Nodes(kid[x][LH]) : data[y] < data[x]
       /\ \A y \in Nodes(kid[x][RH]) : data[y] > data[x]
       /\ symTable[x] = x
  /\ Nodes(kid[Root][LH]) = Address

\* Between calls, the balance factor of every node is the difference of the heights
\* of its subtrees, which is at most one: a wrong factor after a double rotation
\* (lines 37-46, 64-73) would only show many insertions later.
HeightBalanced ==
  pc = "idle" => \A x \in Address :
    /\ bf[x] = Height(kid[x][LH]) - Height(kid[x][RH])
    /\ bf[x] \in {LH, EH, RH}

\* Equal names get the same index, different names different ones, and the
\* array gives the name back; a name counts from when its index is returned.
Returned == 0 .. (IF pc = "return" THEN symCur - 1 ELSE symCur)
NameOf(c) == IF symTable[c] = Junk THEN Junk ELSE data[symTable[c]]
Ids == [n \in {NameOf(c) : c \in Returned} |-> CHOOSE c \in Returned : NameOf(c) = n]
I == INSTANCE Interning WITH ids <- Ids
ImplementsInterning == I!Spec
=============================================================================
