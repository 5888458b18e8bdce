# A TLA+ model of HorseIR

HorseIR is an array language between SQL plans and C. This directory models its
current implementation, `src/src/horseir/v3`: the interpreter, the passes over the
statement tree and the parts of the run-time backend whose correctness depends on
the order of steps. Paths below are relative to `src/src/horseir/v3` unless they begin
with `src/`.

## The system

| part | state | operations | what makes it hard |
|---|---|---|---|
| frontend (`frontend/`) | the tree of nodes | scan, parse, weed, print | nothing concurrent; the weeder's literal ranges |
| symbol tables (`analysis/symtable.cc`) | a table per block, a `SymbolName` per variable, `paramVars` and `localVars` per method | declare, look up | scopes; both lists are what the interpreter saves on calls |
| types and shapes (`analysis/typeshape.cc`, `typerule.cc`) | a pointer to a `ShapeNode` per variable and expression, counters of lengths, a map from masks to lengths | propagate, one rule per builtin | pointers that are shared and overwritten; lengths known only as numbers |
| use-def chains (`analysis/udchain.cc`) | flow, chains, two lists of flows per loop | one scan function per statement kind | fixed points over nested loops with jumps |
| optimizer (`optimizer/`) | visited marks and generated text per chain | find and fuse along the chains, patterns, inlining | a fused statement may have other users |
| compiler, JIT (`translator/compiler.cc`, `jit.cc`) | output text, LLVM module | print the tree | - |
| interpreter (`translator/interpreter.cc`) | one cell per variable, `runStack`, `paramList`, `rtnList`, `isR` | one run function per statement kind | recursion over shared cells; lists that nobody clears; jumps as a flag |
| primitives (`backend/h_primitive.cc`, `h_libs.cc`, `h_hash_v*.cc`) | operands, results, per-thread counters, hash tables | elementwise, reduce, compress, where, join, group, order, set, string | OpenMP threads that write one result without a lock; two passes that must agree |
| symbols (`backend/h_symbol.cc`) | AVL tree, array of names | intern, enlarge | rotations; symbols are stored as bare indices |
| heaps (`backend/h_memory.cc`) | value heap, hash heap with a mark | allocate, mark, release | allocated memory is taken to be clear |
| input and output (`backend/h_io.cc`, `load_db.cc`) | tables | load CSV, print | - |
| driver (`main.cc`, `util/`) | options | runs the phases once, in order | - |

The phases run one after the other over one tree: the parser builds it, the symbol
pass attaches `SymbolName`s to it, the type pass `InfoNode`s, the chain pass `Chain`s;
then the optimizer and the compiler read the chains, or the interpreter walks the
tree and calls the primitives, which allocate from the heaps and intern symbols. The
only concurrency is inside a primitive: an OpenMP region forks and joins before it
returns. Nothing is persistent and no messages are sent, so there is no recovery and no
delivery to model. An error ends the process (`EP`).

What makes each part correct:

- *interpreter*: a call behaves as if each invocation had variables of its own; break,
  continue and return end exactly the statements they should;
- *chains*: whatever path control takes, the definition that reaches a read is in its
  chain;
- *parallel primitives*: no two threads write one cell, and the result is the one of
  the sequential definition;
- *join*: the pairs of the definition, each once, and both passes agree on their number;
- *symbols*: one index per name, for good;
- *optimizer*: a statement that is left out has no user but the one that absorbed it;
- *searches*: a row with the value and no other, by whichever of three algorithms;
- *order and group*: the rows in order and each once, equal rows together, by
  whichever of five sorts;
- *heaps*: whatever calls came before, the next table starts empty;
- *shapes*: what the compiler takes for a length, or for the length of a table's columns, is
  so when the program runs.

## Modules

| module | models | state and actions in the code |
|---|---|---|
| `Programs` | the static side of calls: methods and their variable lists | constants; the assumptions are what `symtable.cc` enforces |
| `Activations` | what a caller may rely on: pass-by-value, return by value, an environment per invocation | abstract |
| `CallStack` | `runMethod`, `runCall`, `runReturn`, `runAssignStmt`, `runCastStmt`, `runExprStmt`, `saveToStack`, `loadFromStack` | `value` is `SymbolName.value`; `callers` the C frames of suspended `runMethod`s; an action is a statement up to the first statement of a callee, or from the end of the callee on |
| `Statements` | the statement tree of a method body | `prog` |
| `FlowGraph` | which statement may follow which | abstract; used by the two below |
| `ControlFlow` | `runNode`, `runList`, `runIf`, `runWhile`, `runRepeat`, the jumps | `cstack` is the C stack, `isR` the flag; an action is a call or a return of one of the functions |
| `UDChain` | the scan functions of `udchain.cc` | the scan is one step (it is sequential and pure), then the method runs along any path |
| `Fusion` | `findFusionDown`, `findFusionUp`, `genCodeElem` of `elementwise.cc`, the marks as `compiler.cc` reads them; composed with `UDChain` | `roots` and `edges` are the hash table of marks; `Optimise` is the pass over a method (sequential and pure again); `Step` runs the optimised method beside the one as written |
| `Compress` | `pfnCompress`, `pfnWhere`, `getNumOfNonZero`, the macro `DOT` | `row` is each thread's loop variable; an action is an iteration of a thread or a step of the main thread |
| `HashTables` | `getHashTableSize` | an operator, for the two below |
| `JoinIndex` | `pfnJoinIndex` for `@eq` and `@neq` on integers, the linear scan, the radix hash table | an action is an iteration of a loop |
| `HashHeap` | `initHashHeap`, `allocHashMem`, `setHashHeap` | `hHeap`, `hHeapCur`; operators for its users |
| `Search` | `pfnIndexOf`, `pfnUnique`, `pfnMember`, `insert_hash`, `find_hash`, `isOrdered`, `binarySearch_*` | a table is nodes in `hHeap`; an action is a step along a chain, a halving of all bisections, a row that `@unique` copies, or the whole of a scan for booleans |
| `HashBuiltins` | the builtins that build hash tables, one after the other; composes `JoinIndex` and `Search`, over one heap | one call at a time, as `invokeBuiltin` makes them; `CallJoin` and `JoinDone` are the call and the return of a join of two vectors, `ListJoin` is what a join of several columns leaves in the heap |
| `Ordering` | `pfnOrderBy`, `pfnGroupBasic`, `lib_radixsort_*`, `lib_mergesort`, `lib_quicksort_*`, `lib_get_group_by_other` | functions of the operands: all of it is sequential and pure; a loop, or a function that calls itself, is a recursive function of the rows |
| `Builtins` | `HashBuiltins` and `Ordering` together | the steps of either, while the other is idle; `ColumnLists` are operands that pass the checks of `pfnOrderBy` (`Operand`) |
| `Shapes` | the rules of `typerule.cc` for vectors, `checkShape`, the assignment | `nodes` is the memory of `ShapeNode`s, `shape` the pointers, `code` the statements scanned; `val` and `rows` the program as it runs; an action is a statement that the pass scans, once, or that the method runs, any number of times |
| `Interning` | what the users of symbols rely on | abstract |
| `SymbolTable` | `initSym`, `getSymbol`, `incSym`, `insertAVL`, the balancing and the rotations | `data`, `bf`, `kid` are the nodes in memory, by address; `cstack` holds the arguments `T` of the calls of `insertAVL`; an action is a call or a return of `insertAVL`, or of `getSymbol` |

`MC*` modules give the constants values. The theorems are in `CallStack_proofs`,
`ControlFlow_proofs`, `Compress_proofs`, `Ordering_proofs`, `Builtins_proofs` (joins and searches,
alone and among the other builtins), `Shapes_proofs` and `SymbolTable_proofs`; `LeastNumber` has what several
of them rest on: the least-number principle, and that a recursion whose argument
gets smaller by some measure defines a function (`RecursiveFunction`). `MCBodies` has the method bodies that
`MCControlFlow`, `MCUDChain` and `MCFusion` take theirs from.

`CallStack` and `ControlFlow` are two views of one interpreter: the first lets the running
method execute any statement over its variables at any time and follows calls; the second
follows one method body and leaves out the data. What each leaves open the other
restricts, and neither depends on the choice.

## Runs

| run | question | bounds | distinct states |
|---|---|---|---|
| `call_stack` | types; frames are contiguous and popped as pushed; an assigned variable never reads null; `CallStack` implements `Activations` | main and f, calling each other and themselves, one parameter, two calls deep, a stack of 4 that overflows; variables all null or all junk at the start, a stack full of junk | 145834 |
| `control_flow` | types; the flag belongs to the last jump and its loop; `ControlFlow` implements `FlowGraph` | 54 bodies, repeat counts -1 to 2 | 3184 |
| `use_def` | types, a statement in one place of one tree; chains cover the reaching definitions; fused statements read the values that the originals did | 1344 bodies with jumps over two variables, nine to eleven statements; 10577 straight, branching and looping bodies of elementwise and other statements over four variables and a parameter | 160050 |
| `compress` | types; no shared cell; the result; termination | four threads, up to five rows, all operands | 68238 |
| `builtins` | joins: the table lists every row once, passes agree, all and only the matching pairs; searches: types, a clear heap beyond the top, walks that end, a heap given back, the rows found; sorts: order, stability, cells | calls of all kinds in any order; joins of vectors of up to four rows over three keys, cells of one node, nodes of two rows; searches in up to three rows for up to two; 16 words of heap, joins of lists that take 3 of them; columns of up to five rows, one or two, of 2-bit and 4-bit integers and others | 1728874 |
| `symbols` | types; search tree, in the middle of an insertion too; balance between calls; `SymbolTable` implements `Interning` | six names in every order | 177645 |
| `shapes` | types; constant lengths; the numbers of tables | two vectors, a mask and a table, lengths up to two, four `ShapeNode`s, three statements, or four with an unknown shape | 1410438 |
| `stale_read` | finding 1 | | violation |
| `cast` | finding 2 | | violation |
| `linear_join` | finding 3 | | violation |
| `use_def_redefinition` | finding 4 | | violation |
| `fusion_reuse` | finding 5 | | violation |

Why the bounds are enough for what they are to show:

- *calls*: two calls deep is the first depth at which a frame lies on another and both are
  of one method; the stack is smaller than the deepest frames, so that the overflow
  is met in the middle of a save. That a method has one parameter, and that malloc left the
  same everywhere, are limits of the run only: the theorems hold for every program and
  every content.
- *control flow*: the bodies hold each loop in each loop with each jump at both
  levels, empty bodies, jumps that end a body, and break and continue outside loops, which
  the code does not refuse: they end the method. A third level adds no new
  pair of a jump and the loop that catches it; that none is missing is proved.
- *chains*: two variables are the least for which a definition can pass a
  redefinition of the other; the inner loop, with its own continue and break, leaves
  lists of flows that the outer one needs back.
- *fusion*: four assignments are the least for a tree of depth three, and for two statements
  that share an operand and have another each. In the bodies of the run a variable of an
  elementwise statement is read in one place, or is the first of them and read by
  several assignments: that is what the code needs, as finding 5 shows. Loops carry a
  variable from one round to the next; some bodies end the pass by a crash or by endless
  recursion (hazards at lines 87 and 145).
- *compress*: lengths 0, 2, 4, 5 against four threads give empty segments, equal ones and
  a longer last one; `@where` is one thread's loop below four rows. The theorems below
  hold for all sizes.
- *joins*: the three keys share a hash and two share a partition, so that chains get
  several cells; three equal keys overflow a node; the sources are scanned below three
  rows and hashed from three on.
- *searches*: two of the three values share a chain; a table of three rows has 8 chains, so that
  16 words hold one table, or one above what joins of lists left, and the third such
  join leaves too little: every table also meets a heap that is full.
- *sorts*: the end of a run is bisected beyond `RunProbe` rows, 2 in the run and 5 in the
  code; five rows then give runs at both ends and in the middle. The digits of the two
  widths include numbers that only the upper half tells apart, and negative ones.
- *shapes*: the lengths 0, 1, 2 are an empty vector, what counts as a scalar, and a vector that does
  not conform to another length; three statements are two operands and a call of them, and the
  fourth overwrites an unknown shape that others point to. Every statement may run again
  after any other, with another length where its result has one.
- *symbols*: six names reach a double rotation at and below the root, and the
  array of two cells doubles twice. The code's limits are larger constants of the same
  expressions.

Deadlock is not checked where the system stops by itself: the program ends or dies, the
primitive returns, the method is done. `symbols` never stops, and is checked.

In `Shapes` a statement is scanned once and then runs in any order and any number of times, as
the body of a loop does. What holds of every value is claimed of every value, save those that one of
the gaps of the rules has made false (`astray`): such a statement has the mark `gap`, or its
target no longer has the shape that the rule returned (`Replaced`), or an operand was false
already, and what the shape says of the value is not so. A value that is right stays in the claim, gap or
not. The gaps, which the actions name, are under "Known limits of the code" below. Of the numbers of
lengths only those of tables are claimed to be lengths: a call in a loop has one number and
another length in every round, and the masks that share a pointer share the number of what they
select.

*Fairness.* Only `Compress` claims that something happens: each thread of a region and
the main thread are weakly fair, since OpenMP runs all threads of a region to its
barrier and the main thread goes on after it. The other modules have safety
properties only, and need none.

## Theorems

`tlapm` checks these for all values of the constants that satisfy the named assumptions:
`ProgramAssumption`, `NamesAssumption`, `StackAssumption` (calls); `ProgramsAssumption`,
`CountsAssumption` (control flow); `SizeAssumption` (compress); `HashTablesAssumption`,
`JoinAssumption` (joins), with `HashHeapAssumption`, `SearchAssumption` and `ListTablesAssumption`
(searches); `OrderingAssumption` and `ColumnListsAssumption` (sorts); `ShapesAssumption`; `SymbolAssumption` (symbols). Each stands beside its constants and is evaluated in
the runs. Every invariant below was an invariant of a run before it was proved, except
`SortInv`, which only says that a result is that of its operand.

*The run-time stack* (`CallStack_proofs`). `TypesHold` and `StackLayoutHolds` follow from
`Layout == TypeOK /\ StackLayout`. Neither conjunct is inductive alone: that what
`loadFromStack` reads are words needs the frame to lie inside the stack, and where the
frame lies needs the types. `LayoutInvariant` has a lemma per action (`LayoutOfInvoke`,
`LayoutOfFinish`, ...), with `RoomForFrame` for the test that is made per list and not
per frame. `AssignedReadable` adds that saved cells are the caller's variables:
`SavedCells` says what `saveToStack` leaves in each slot, `LoadedVars` that
`loadFromStack`, which takes the lists in the other order, brings back the same, and
`SuspendedKept` that no other step touches a cell below `stackPtr`.

*The interpreter implements activations* (`CallStack_proofs`, `Implements`). The mapping
reads the running environment from the cells and each suspended one from its frame.
The invariant gets one more conjunct, `Ownership`: the targets of a suspended call are
those of its method, operands keep their bound, and a finished program has no
callers. `InitRefines` and `StepRefines` map initial states and steps; a step of
`CallStack` is an `Assign`, `Invoke`, `Return`, `FallOff` or `Fail` of `Activations`, or a
stutter.

*Compress* (`Compress_proofs`). `WritesApart` (`FreeCell`), `SelectionIsCorrect`
(`KeepsSelected`) and `TypesHold` follow from `IInv`: each thread is inside its segment
(`InSegment`); in the first pass `parZ[t]` is the number of selected rows it has passed,
and `offset` of each summed core the number before its segment (`Counted`); in the
second, `offset[t]` is the number of selected rows before `row[t]`, and a cell is written
exactly if the row with that rank has been passed by its owner (`Placed`). `Segments`
and `Owner` say that the segments cut the rows exactly; `RankOrder`, that different
selected rows have different ranks, which is why two threads never meet. `Selected` is the cardinality
of a set, so that the counting lemmas come from the library's facts about finite sets.

*Control flow* (`ControlFlow_proofs`: `StackIsPath`, `TypesHold`, `JumpsReachTheirLoop`,
`Implements`), for method bodies nested to any depth. What a frame of `runNode` does next
depends on frames far below it, so neither the caught jumps nor the refinement
is inductive. `IInv` says that the C stack is a path (`IsPath`): each frame is at a list, or a
loop, of the node that the frame below it runs (`Linked`), and a frame of a loop lies
below everything inside that loop (`InLoop`). `Goes` is what a frame that comes to
the top may evaluate next, a set that depends on this frame alone; `OnGraph` says
that the graph allows it after the node evaluated last, or that a jump is under way and
its loop still on the stack (`Caught`). One lemma for each of: a list that starts, goes
on and ends, a loop that starts and goes round, the end of the method; `StepFollows` then
maps each step to an edge of `FlowGraph` or a stutter. `Follow` and `LoopOf` are recursive
functions: that their equations have a solution at all (`ParentsFirst`) is proved from
the order of the nodes, by the least number for which there is none.

*Joins* (`Builtins_proofs`), for every hash function, number of partitions, size of cells
and nodes, and all operands. `JoinInv` holds, for each address, that the chain there lists
the rows so far with that address, each by the only node of its key (`Holds`), while
the table is built; then that each row probed has the list of its partners (`ProbeFinds`),
that the cells asked for are as many as there are pairs so far (`JoinState`), and in the
second pass that the cells before the next are those pairs, each once (`Written`).
`TableListsRows`, `PassesAgree`, `HashJoinIsComplete` and `JoinIsSound` follow. The lemmas
`HoldsNewKey`, `HoldsKnownKey` and `HoldsElsewhere` are the three ways in which one
row more changes a chain; `PairsGrow` counts.

*Searches and their heap* (`Builtins_proofs`), over `HashSpec`: searches and joins, one after
the other, of which searches and joins of lists share one heap of any size. None of the properties is inductive
without the others: a new table is empty because the words beyond the top are clear
(`FreeMemoryIsClear`), they stay so because the release clears from the mark to the top, and
that is safe because no link from below leads there (`OldLinks`) and none leaves the
table (`LinkedInOrder`). `NodesAreFirstRows` says that the nodes are the first rows of the values so
far; `CursorPasses`, that a walk has not passed the value it looks for, so that a
new node at its end is the only one. `BoundsEnclose` is the invariant of the
bisections, for sources that ascend; `RowsCopied`, of the copying of `@unique`.
`IndexOfFinds`, `MemberTells`, `UniqueListsValues`, `HeapIsRestored`, `ChainsEnd` and `SearchTypeOK`
follow from `SearchInv`. Joins of two vectors are called from any state between two calls and return to
one (`CallJoin`, `JoinDone`): `CalledJoinsKeepInvariant` says that each call starts in a state that `JoinInv`
allows, whatever calls came before, joins included. The run checks these properties over
`BuiltinsSpec`, which adds sorts: `SortsLeaveHeap` says that it implements `HashSpec`, and
`BuiltinsAmongCalls` that all of these results hold for it, those on joins too.

*Order and group* (`Ordering_proofs`), for every operand, width and number of digits and
probe. Each sort is a recursive function, and is treated in two steps: it satisfies
its own equation, since its calls have arguments that are smaller by a measure
(the rows still to sort, the distance of the two places of the partition, the columns that
follow); and it is right at every argument, by the least measure of an argument at which it
would not be. What a sort of a segment promises is `Arranges` (its rows, each
once) and `InOrder` with respect to a relation, which is the order of the columns in one reading
and, in the other, that equal rows stay as they were. For the radix sort the relation
after a pass is the order by the digits so far, then by place (`Place` is a bijection), and numbers that are not negative differ in the digits
that are looked at; two packed columns are one number in that sense. For the lists, the
rows of a run are equal in the column that they were sorted by and those after the run
are not, for which the bisection needs that the rows are in order. `OrderIsSorted` and
`OrderKeepsEqual` follow. The
cells of `@group` need less than an order: that equal rows lie together (`GroupIsPartition`).
This holds also for a single column of negative 32-bit numbers, which the digits order
wrongly but tell apart. `OrderIsRight`, `OrderStays` and `GroupIsRight` (`Builtins_proofs`) state
the properties of the run for programs. Their hypotheses are those of the properties:
no negative keys where digits decide, which is a limit of the code.

*Shapes* (`Shapes_proofs`), for any number of variables, tables, statements and nodes, any
lengths and any order of the run. That shapes are true is not inductive while the method
runs, since a statement that is right for one length of its operands need not be so for the next.
`CodeSound` is: what the rule said of a statement follows from what the shapes of its operands say,
for every length they may have (`Sound`), or the statement is marked as a gap. A lemma per rule
shows this when the statement is scanned (`ElementwiseIsSound`, `AppendIsSound`, `CompressIsSound`, ...). It stays so
while later statements are scanned, because a known shape never changes and an unknown one says
nothing, so that overwriting it only strengthens what is assumed of the operands, and because a
number once given to a table is given to nothing else (`NumbersGiven`). `AllTrue` then follows for each
statement that runs. `ShapesAreRight` is the invariant; `ShapeTypesHold`, `ConstantsHold` and
`TableNumbersHold` follow.

*Symbols* (`SymbolTable_proofs`), for any set of names, in every order, and any initial
length of the array. `Nodes` and `Height` unfold the tree from above, and an insertion is
under way in most states, so that no property is inductive. The invariant (`IInv`) gives each
address the set of nodes below it and a height. For the nodes, `IsTree`: a node's set is itself and
the sets of its children, those to the left have smaller names and those to the right
larger ones, no two fields point to one node, and the root's set is everything. For the
calls, `IsPath`: each is for the field that the one below descends into, towards the name,
so that a name is not in the tree if its path ends at a null pointer. For the balance:
the heights are those from before the insertion, and agree with the factors
everywhere (`LevelAt`) except at the node that the next return comes to, whose
subtree got one level higher and leans, unless it is a leaf (`GrownAt`). That a grown
subtree leans is what rules out the case that `leftBalance` and `rightBalance` do not
treat. A lemma for each way of returning shows what it leaves: nothing changed, a
factor moved, a single rotation, a double one. `NamesKept` says of the array that the cell of
an index points to its node. `SearchTreeHolds` and `HeightsBalanced` follow once `Nodes` and
`Height` are known to be these sets and heights (`TreeIs`): that the recursive function `Tree` has a
solution, and that this many levels suffice, is proved by the least level at which it
fails. `TypesHold` is the part about types. `Implements` maps names to the indices returned so far: rotations change neither
names nor the array, and a name that is found has the node it got.

## Findings

1. *An unassigned local can be read* (`stale_read`). `runName` tests that the cell is not
   null, but a cell keeps what an earlier invocation left. The message of the test
   says "Variable must be initialized before used".
2. *A cast of a variable binds something else* (`cast`). `runAssignStmt` binds `rtnList`, to
   which a cast of a name or a literal adds nothing: the target gets the result of the
   last call, or the run dies of an arity error. The language reference says that a
   cast changes the type of the expression.
3. *A linear join loses pairs* (`linear_join`). With a short operand the scan stops at the
   first match. The page on `join` says that it is outer and where combined.
4. *A redefinition hides what it reads* (`use_def_redefinition`). In `x = @plus(x, 2)` the read
   of `x` finds the statement itself as its definition, since targets are scanned before
   operands.
5. *Fusion leaves out a statement that is still read* (`fusion_reuse`). The walk up does not
   ask who else reads a variable; a second read by the same statement, a return and a
   condition go unnoticed. In test t16 `x0` is left out and read three times.

## Where a page and the code disagree otherwise

Disagreements of the pages under `src/docs/mkdocs/docs/horseir` with the code that no run
shows, since they are a matter of single operands and need no sequence of steps. Each says
which side the model takes.

- `builtin/indexof.md:9-12` says of `@index_of(x, y)` "find each item from x in y" and "return the length
  of y, if not found". `pfnIndexOf` (`backend/h_primitive.cc:1525`) finds each item of `y` in `x`, or
  returns the length of `x`, and so does `database.md:113-141` of the same pages, in words ("find out the
  same element `y[i]` in `x`") and with an example. `IndexOfFinds` follows the code and
  `database.md`; the code contradicts `indexof.md`, whose operands are exchanged.
- `builtin/order.md:36-38` gives (2,1,4,0,5,3) for the columns (32,12,7,78,12,45) and
  (56,34,32,45,78,23) with the directions (1,0). The code returns (2,4,1,0,5,3): rows 1 and 4 are
  equal in the first column, the second is to descend, and row 4 has 78 in it and row
  1 has 34. The code follows the description of the same page ("ascending/descending (based on b) order
  of x", line 11), and so does `OrderSorts`; the example does not.
- `builtin/order.md:11` has no exception for negative numbers, but the radix sort takes the highest
  byte without its sign (`backend/h_libs.cc:1193`): of 32-bit (0,-1,1) it returns the rows of
  0, 1, -1. The properties leave these operands out (`NoNegative`).
- `database.md:115` has no exception for sources that descend, but `isOrdered` (`backend/h_system.cc:678`) does
  not tell which way, and `searchOrdered` bisects as if they ascended: 3 and 4 are not found in (4,3).
  The properties leave these operands out (`Misread`).
- `builtin/date.md:222` says of the result "Return the same shape as the first parameter", and so does the
  rule `commonDtChange` (`analysis/typerule.cc:1170`), but for a scalar date and a vector of
  intervals `pfnDatetime` (`backend/h_primitive.cc:2373`) returns as many rows as the second has. In
  `Shapes` this is a gap of the rule: the shape is a constant 1 and the value has
  more rows.

## Known limits of the code

Cases for which the code does not do what the operation is for, met while
modelling: the properties name each as a condition, and hold for all other operands.

- `Misread` (`Search`): `@index_of` of booleans finds true in row 0 if it is in no row before
  (`h_libs.cc:310`); integers that descend are searched as if they ascended
  (`h_system.cc:678`), and so `@unique` of them misses values.
- `NoNegative` (`Builtins`): the radix sorts take digits without regard to sign, and of two
  packed 32-bit columns a negative second one overwrites the first (`h_libs.cc:1929`).
- An empty source of `@member` that is not boolean is read at row 0 (`h_libs.cc:948`).
- A join of lists keeps its table (`h_hash_v3.cc:453`).
- The gaps of `Shapes`: `@unique` keeps the shape of its operand (`typerule.cc:341`); `@power` and
  `@logb` take the shape of the right operand, though the left one may be the longer
  (`typerule.cc:662`), `@datetime_add` and `@datetime_sub` that of the left one (line
  1182); a numbered length equals any constant with the same number
  (`typerule.cc:692`); `@append` adds the numbers of selections as if they were lengths
  (`typerule.cc:722`); an unknown shape is overwritten for everyone who points to it
  (`typerule.cc:229`), and kinds are not compared where numbers are (`typerule.cc:233`).
- Two masks with one `ShapeNode` share the number of what they select (`typerule.cc:279`), and all
  rounds of a loop share the numbers of its calls (`typeshape.cc:463`): equal numbers need not
  mean equal lengths.

## Model-checked only, and why

- Termination of `Compress`: liveness under fairness is not provable with `tlapm`.
- `UDChain` and `Fusion` are recursive operators over trees, which `tlapm` does not take: its
  provers lose arithmetic and sets beside them. `ChainsCoverUses`, `FusionKeepsValues`, and the
  types of both modules, are therefore checked on the bounds above only.

## Abstractions

- Values, keys and names are opaque or small numbers. Types of values are those that the
  type pass has checked.
- Conditions of if, while and repeat are nondeterministic.
- In `CallStack`, `MaxDepth` bounds the C stack and `MaxArity` operands and targets.
  `runStack` is counted in cells, since values are pointers of one size.
- In `Compress`, a region gets the number of threads that `setNumberOfCore` saw. OpenMP may
  give fewer when dynamic teams are on; the code has no answer to that.
- In `JoinIndex`, a node's first row, kept inline until there is a second, is the first of
  its list; the build loop of the partitions is sequential in the code too.
- In `UDChain`, `cleanFlow` reads a link of a freed cell: the scan goes on or is aborted.
  Flows are sets: the code keeps them free of duplicates and orders by them only what
  it prints. Programs have no statements after a jump in a list, and no break or continue
  outside a loop.
- In `Fusion`, the right side of an assignment is a call or a literal: for a cast,
  `isMatchedUse` reads the wrong member of a union. Values are not computed: a variable is
  in `wrong` from where the optimised method may have given it another value. Elementwise
  statements are those whose macro `obtainFuncElem` knows; for others the pass ends. The pass
  is the only one (`-o fe`); `-o fp -o fe` finds statements that the patterns have marked.
- In `Search`, operands have one type: `pfnIndexOf` promotes mixed ones, save for an ordered source,
  which it reads with the wrong width (`h_primitive.cc:1529`). The parallel loops over the
  rows of `val` write one cell each and only read the table, so that their order does
  not matter; the bisections of all rows go forward together for the same reason. A word of the heap is as large as a node.
- In `Ordering`, memory for the copies is left out, and two's complement is that of `Digits` digits
  of base `Base`.
- In `Shapes`, types have been checked: a variable is a mask or another vector, and none is of
  char, of which `@like` takes a vector for one string. The statements of a method run in any order,
  which covers every nesting of branches and loops. Casts, copies and the rules that pass on the
  shape of one operand are one action (`LikeOperand`), and so are those of a fresh number (`Sized`).
- Not modelled: see the components with that status in `PROJECT.json`, each with its
  reason. `src/src/horseir/v0` to `v2` are earlier generations of the same system,
  `src/src/plan2ir` offline scripts.

## Not modelled

- The value heap: a pointer that only grows. Its limits do not fit its size
  (`h_memory.cc:46`), which no sequence of steps is needed to see.
- Multi-column joins beyond what they leave in the heap, and ordering comparisons in joins.
- `autofusion.cc` and `pattern.cc`: the walks of `Fusion` over more kinds of statements, and fixed
  patterns.
- Calls of methods in the shape pass, lists, dictionaries and enumerations.
- Elementwise primitives, input and output, printers, the scanner and the parser, the compiler's
  text: data without control, or I/O.

## Plan

1. Proofs: `UDChain` with recursive functions or a step per scanned statement, then the types
   of `Fusion` and `ChainsCoverUses`.
2. `Scopes`: `symtable.cc`, to discharge `ProgramAssumption` of `Programs` from the pass itself.
3. Calls of methods in `Shapes`; then the automatic fusion of `autofusion.cc`, which tests
   shapes, on top of `Fusion`.
4. `JoinIndex` for several columns and for the ordering comparisons.
