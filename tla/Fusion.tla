------------------------------- MODULE Fusion -------------------------------
(***************************************************************************)
(* Elementwise fusion (optimizer/elementwise.cc) along the use-def chains  *)
(* of a method.  From an elementwise statement a walk down the uses finds  *)
(* the last one of its tree, a walk up the definitions from there gathers  *)
(* the tree; the compiler then leaves out all statements of the tree but   *)
(* the root, which becomes one loop over the leaves.                       *)
(*                                                                         *)
(* Then the optimised method runs along any path, beside the method as it  *)
(* was written: no values are needed, only which variables hold another    *)
(* value than they should.                                                 *)
(***************************************************************************)
EXTENDS Statements, FiniteSetsExt, SequencesExt

VARIABLES
  last, phase, chains, reach,  \* as in UDChain
  roots,    \* the statements marked OptG
  edges,    \* <<n, k, d>>: statement d is fused into n for its operand k; d is
            \* marked SkipG
  wrong,    \* history: the variables whose value is not the one it should be
  changed   \* history: the variables assigned since a statement was last reached

udVars == <<prog, last, phase, chains, reach>>
vars == <<udVars, roots, edges, wrong, changed>>

U == INSTANCE UDChain

\* What findUseByName and findDefByName count: the assignments that read the
\* variable of statement n, and those that it may have variable v from.
UsesOf(n) == {u \in U!Assigns : <<u, n>> \in chains /\ Targets(n) \cap Uses(u) # {}}
DefsOf(n, v) == {d \in U!Assigns : <<n, d>> \in chains /\ v \in Targets(d)}

\* Mutant: both return the one found last.
SoleOrLast(found) == found # {}

\* They return a statement when there is one.
Sole(found) == Cardinality(found) = 1

\* findFusionDown from a statement, as the set of the statement that it returns;
\* empty for NULL.  passed has the statements on the way: the walk does not
\* know them, and for one that it meets again it does not return.
Endless == {0}
RECURSIVE FindFusionDown(_, _)
FindFusionDown(n, passed) ==
  IF n \in passed THEN Endless
  ELSE IF Kind(n) # "elementwise" THEN {}
  ELSE IF ~ Sole(UsesOf(n)) THEN {n}
  ELSE LET below == FindFusionDown(CHOOSE u \in UsesOf(n) : TRUE, passed \cup {n})
       IN  IF below = {} THEN {n} ELSE below

\* Mutant: a statement is not marked.
VisitedBefore(visited, n) == visited

\* The mark isVisited, which walks up and statements without a tree set.
Visited(visited, n) == visited \cup {n}

\* What a walk up returns: whether it found a tree, and its edges; the statements
\* visited so far; and whether it met a statement without a call, for which it
\* reads a member of a null pointer.
Up(found, tree, visited, crashed) ==
  [found |-> found, tree |-> tree, visited |-> visited, crashed |-> crashed]

\* The children of a tree once operand k, with the only definition d, is in it.
Absorb(up, n, k, d, child) ==
  Up(up.found, up.tree \cup child.tree \cup (IF child.found THEN {<<n, k, d>>} ELSE {}),
     child.visited, up.crashed \/ child.crashed)

\* findFusionUp.  Parameters are in a list with the last one first; an operand
\* with several definitions or none ends the walk without a tree.
RECURSIVE FindFusionUp(_, _)
FindFusionUp(n, visited) ==
  LET Operand(k, up) ==
        LET defs == DefsOf(n, prog[n].uses[k])
            d == CHOOSE d \in defs : TRUE
        IN  IF ~ up.found \/ up.crashed THEN up
            ELSE IF ~ Sole(defs) THEN Up(FALSE, {}, up.visited, up.crashed)
            ELSE Absorb(up, n, k, d, FindFusionUp(d, up.visited))
  IN  IF n \in visited THEN Up(FALSE, {}, visited, FALSE)
      ELSE IF Kind(n) = "literal" THEN Up(FALSE, {}, visited, TRUE)
      ELSE IF Kind(n) # "elementwise" THEN Up(FALSE, {}, Visited(visited, n), FALSE)
      ELSE FoldRight(Operand, [k \in DOMAIN prog[n].uses |-> k],
                     Up(TRUE, {}, Visited(visited, n), FALSE))

\* The state of the pass over a method; failed when it ran out of stack or
\* crashed.
Pass == [roots |-> {}, edges |-> {}, visited |-> {}, failed |-> FALSE]

\* findFusionSub for a statement that no walk has visited.
FindFusion(pass, n) ==
  LET bottom == FindFusionDown(n, {})
      root == CHOOSE b \in bottom : TRUE
      up == FindFusionUp(root, pass.visited)
  IN  IF pass.failed \/ n \in pass.visited THEN pass
      ELSE IF bottom = Endless THEN [pass EXCEPT !.failed = TRUE]
      ELSE IF bottom = {} THEN [pass EXCEPT !.visited = Visited(@, n)]
      ELSE [roots |-> pass.roots \cup (IF up.tree # {} THEN {root} ELSE {}),
            edges |-> pass.edges \cup up.tree,
            visited |-> up.visited,
            failed |-> up.crashed]

\* The assignments of the method, in source order.
InOrder == SelectSeq([n \in Nodes |-> n], LAMBDA n : n \in U!Assigns)
Optimised == FoldLeft(FindFusion, Pass, InOrder)

\* optElementwise, over one method.
Optimise ==
  /\ phase = "built"
  /\ phase' = IF Optimised.failed THEN "aborted" ELSE "optimised"
  /\ roots' = Optimised.roots
  /\ edges' = Optimised.edges
  /\ UNCHANGED <<prog, last, chains, reach, wrong, changed>>

----------------------------------------------------------------------------
(* The run of the optimised method (scanNode of translator/compiler.cc     *)
(* prints nothing for a statement marked SkipG, and the call of the loop   *)
(* for one marked OptG).                                                   *)

\* The statement fused into n for operand k, as a set; the statements left out.
FusedAt(n, k) == {e[3] : e \in {f \in edges : f[1] = n /\ f[2] = k}}
Skipped == {e[3] : e \in edges}

\* What statement n, evaluated now, computes is what it computed, or would
\* have, when it was last reached; stale are the variables assigned since.  An
\* operand is either read, or computed by the statement that is fused there,
\* which must be the one that the variable then came from.
RECURSIVE Delivers(_, _)
Delivers(n, stale) ==
  \A k \in DOMAIN prog[n].uses :
    LET v == prog[n].uses[k]
    IN  /\ v \notin stale
        /\ FusedAt(n, k) = {} => v \notin wrong
        /\ \A d \in FusedAt(n, k) : reach[v] = d /\ Delivers(d, changed[d])

\* The next statement of the method, in both versions.
Step ==
  /\ phase = "optimised"
  /\ U!Go
  /\ LET n == last'
         targets == IF n = U!G!Exit THEN {} ELSE Targets(n)
     IN  /\ wrong' = IF n \in Skipped \/ (targets # {} /\ ~ Delivers(n, {}))
                     THEN wrong \cup targets ELSE wrong \ targets
         /\ changed' = [m \in Nodes |-> (IF m = n THEN {} ELSE changed[m]) \cup targets]
  /\ UNCHANGED <<phase, chains, roots, edges>>

Init ==
  /\ U!Init
  /\ roots = {} /\ edges = {}
  /\ wrong = {} /\ changed = [n \in Nodes |-> {}]

Next == (U!Build /\ UNCHANGED <<roots, edges, wrong, changed>>) \/ Optimise \/ Step

Spec == Init /\ [][Next]_vars

----------------------------------------------------------------------------
(* Properties.                                                             *)

\* The types of the variables: roots and the statements in them are elementwise,
\* each in one tree and in one place of it (isVisited, line 79).
TypeOK ==
  /\ phase \in {"build", "built", "aborted", "optimised"}
  /\ \A e \in edges : /\ Kind(e[1]) = "elementwise" /\ Kind(e[3]) = "elementwise"
                      /\ e[2] \in DOMAIN prog[e[1]].uses
                      /\ Cardinality({f \in edges : f[3] = e[3]}) = 1
  /\ roots \cap Skipped = {}
  /\ U!VarTypes
  /\ wrong \subseteq Names
  /\ changed \in [Nodes -> SUBSET Names]

\* A statement or a condition that is left in the method reads, or has computed
\* for it, the values that it read in the method as written (findFusionUp,
\* lines 80-124, and genCodeElem, lines 239-281).
FusionKeepsValues ==
  [][last' # last /\ last' \notin {U!G!Exit} \cup Skipped => Delivers(last', {})]_vars

\* The chains hold the definition that reaches a read (UDChain), whichever
\* statements the pass has left out.
ChainsCoverUses == [][U!Covered]_vars
=============================================================================
