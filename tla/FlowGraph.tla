----------------------------- MODULE FlowGraph -----------------------------
(***************************************************************************)
(* The control-flow graph of a method body: which statement or condition   *)
(* may be evaluated right after another.  It is what the interpreter is to *)
(* follow (module ControlFlow) and what the use-def chains are to be true  *)
(* of (module UDChain).                                                    *)
(***************************************************************************)
EXTENDS Statements

VARIABLE last  \* the node evaluated last; 1, the method, at first

Exit == 0

Parent(n) == CHOOSE m \in Nodes : n \in Range(Block(m)) \cup Range(Other(m))
List(n) == IF n \in Range(Block(Parent(n))) THEN Block(Parent(n)) ELSE Other(Parent(n))
IndexIn(list, n) == CHOOSE k \in DOMAIN list : list[k] = n
IsLast(n) == IndexIn(List(n), n) = Len(List(n))

\* The first statement of a list, or what follows an empty one.
Enter(list, after) == IF list = <<>> THEN after ELSE {list[1]}

\* Where control goes when node n is done, and when the body of loop n is.
Follow[n \in Nodes] ==
  IF n = 1 THEN {Exit}
  ELSE IF ~ IsLast(n) THEN {List(n)[IndexIn(List(n), n) + 1]}
  ELSE CASE Kind(Parent(n)) \in {"method", "if"} -> Follow[Parent(n)]
         [] Kind(Parent(n)) = "while"  -> {Parent(n)}
         [] Kind(Parent(n)) = "repeat" ->
              Enter(Block(Parent(n)), {}) \cup Follow[Parent(n)]
Again(n) == IF Kind(n) = "while" THEN {n} ELSE Enter(Block(n), {}) \cup Follow[n]

\* The loop around node n; 1 outside of loops.
LoopOf[n \in Nodes] ==
  IF n = 1 \/ Kind(Parent(n)) \in Loops \cup {"method"} THEN (IF n = 1 THEN 1 ELSE Parent(n))
  ELSE LoopOf[Parent(n)]

Successors(n) ==
  CASE Kind(n) = "method"   -> Enter(Block(n), {Exit})
    [] Kind(n) = "return"   -> {Exit}
    [] Kind(n) = "break"    -> Follow[LoopOf[n]]
    [] Kind(n) = "continue" -> Again(LoopOf[n])
    [] Kind(n) = "if"       -> Enter(Block(n), Follow[n]) \cup Enter(Other(n), Follow[n])
    [] Kind(n) \in Loops    -> Enter(Block(n), Again(n)) \cup Follow[n]
    [] OTHER                -> Follow[n]

Init == prog \in Programs /\ last = 1

Next == last # Exit /\ last' \in Successors(last) /\ UNCHANGED prog

Spec == Init /\ [][Next]_<<prog, last>>
=============================================================================
