------------------------------ MODULE UDChain ------------------------------
(***************************************************************************)
(* The use-def chains of a method (analysis/udchain.cc): a walk over the   *)
(* statement tree that carries the flow, which are the statements whose    *)
(* definitions may reach the point, and goes round each loop until the     *)
(* flow at its head is stable.  Then the method runs, along any path of    *)
(* its control-flow graph.                                                 *)
(*                                                                         *)
(* cleanFlow (line 119) reads the link of a cell that it has just freed:   *)
(* the walk either continues or is aborted.  The variables of a method     *)
(* that it does not assign (its parameters) have no definition.            *)
(***************************************************************************)
EXTENDS Statements, SequencesExt

VARIABLES
  last,    \* as in FlowGraph
  phase,   \* "build", then "built" or "aborted"
  chains,  \* pairs of a use and a definition; chain_defs, and turned chain_uses
  reach    \* history: the last definition of each variable, 0 if there is none

vars == <<prog, last, phase, chains, reach>>

G == INSTANCE FlowGraph

\* The flow, the chains, flow_list_input and flow_list_exit (the flows that
\* continue and break take to the head and the end of the innermost loop; only
\* their union is ever used), flow_sink, and whether cleanFlow met a cell.
Walk == [flow |-> {}, chains |-> {}, input |-> {}, exit |-> {}, sink |-> {}, freed |-> FALSE]

Assigns == {n \in Nodes : Kind(n) \in Assigning}

\* setFlow, on the flow.
SetFlow(w, flow) == [w EXCEPT !.flow = flow, !.freed = @ \/ w.flow # {}]

\* The left-hand side of an assignment: statements that define one of its
\* variables leave the flow whole.
Define(w, n) ==
  [w EXCEPT !.flow = {d \in @ : Targets(d) \cap Targets(n) = {}} \cup {n}]

\* Mutant: whatever is in the flow is taken for a definition of the variable.
UseAll(w, n) == [w EXCEPT !.chains = @ \cup {n} \X w.flow]

\* The variables that a statement or a condition reads.
Use(w, n) ==
  LET defs == {d \in w.flow : Targets(d) \cap Uses(n) # {}}
  IN  [w EXCEPT !.chains = @ \cup {n} \X defs]

\* Mutant: the flow of break gets lost.
ExitFlowNoBreak(w) == w.flow

\* What meets at the head of a loop, after a loop and after an if.
HeadFlow(w, entry) == entry \cup w.flow \cup w.input
ExitFlow(w) == w.flow \cup w.exit
Join(then, other) == then.flow \cup other.flow

RECURSIVE Scan(_, _)
ScanList(w, list) == FoldLeft(LAMBDA v, n : Scan(v, n), w, list)

\* One round over the condition and the body of a loop; rounds until the flow
\* at the head is the one that the round began with.
Round(w, n) == ScanList(Use([w EXCEPT !.input = {}, !.exit = {}], n), Block(n))
RECURSIVE Rounds(_, _, _)
Rounds(w, n, entry) ==
  LET v == Round(w, n)
      head == HeadFlow(v, entry)
  IN  IF head = w.flow
      THEN SetFlow(v, ExitFlow([v EXCEPT !.flow = head]))
      ELSE Rounds(SetFlow(v, head), n, entry)

Scan(w, n) ==
  CASE Kind(n) \in Assigning -> Use(Define(w, n), n)
    [] Kind(n) = "expr"     -> Use(w, n)
    [] Kind(n) = "return"   ->
         [Use(w, n) EXCEPT !.sink = @ \cup w.flow, !.freed = @ \/ w.sink # {}]
    [] Kind(n) = "continue" -> [w EXCEPT !.input = @ \cup w.flow]
    [] Kind(n) = "break"    -> [w EXCEPT !.exit = @ \cup w.flow]
    [] Kind(n) = "if"       ->
         LET cond == Use(w, n)
             then == ScanList(cond, Block(n))
             other == ScanList([then EXCEPT !.flow = w.flow], Other(n))
         IN  SetFlow([other EXCEPT !.flow = w.flow], Join(then, other))
    [] Kind(n) \in Loops    ->
         [Rounds(w, n, w.flow) EXCEPT !.input = w.input, !.exit = w.exit]

Built == ScanList(Walk, Block(1))

\* scanMethod.
Build ==
  /\ phase = "build"
  /\ \/ phase' = "built" /\ chains' = Built.chains
     \/ phase' = "aborted" /\ Built.freed /\ UNCHANGED chains
  /\ UNCHANGED <<prog, last, reach>>

\* A statement or a condition of the running method is evaluated.
Go ==
  /\ G!Next
  /\ reach' = [v \in Names |->
                 IF last' # G!Exit /\ v \in Targets(last') THEN last' ELSE reach[v]]
Step == phase = "built" /\ Go /\ UNCHANGED <<phase, chains>>

Init == G!Init /\ phase = "build" /\ chains = {} /\ reach = [v \in Names |-> 0]

Next == Build \/ Step

Spec == Init /\ [][Next]_vars

----------------------------------------------------------------------------
(* Properties.                                                             *)

\* The types of the variables: each chain goes from a statement to one that
\* assigns a variable that it reads (lines 350-365).
VarTypes ==
  /\ last \in {G!Exit} \cup Nodes
  /\ \A chain \in chains : /\ chain \in Nodes \X Assigns
                           /\ Uses(chain[1]) \cap Targets(chain[2]) # {}
  /\ reach \in [Names -> {0} \cup Assigns]
TypeOK == phase \in {"build", "built", "aborted"} /\ VarTypes

\* Whatever the path by which control comes to a read of a variable, the
\* statement that defined it last is in the chain of the reading one (lines
\* 254-266 and 426-535): the optimizer fuses a statement into the only user
\* that its chain shows.
Covered ==
  last' # last /\ last' # G!Exit =>
    \A v \in Uses(last') : reach[v] # 0 => <<last', reach[v]>> \in chains
ChainsCoverUses == [][Covered]_vars
=============================================================================
