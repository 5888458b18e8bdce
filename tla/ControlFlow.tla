---------------------------- MODULE ControlFlow ----------------------------
(***************************************************************************)
(* Structured control flow in the HorseIR interpreter                      *)
(* (translator/interpreter.cc): runNode and the functions below it call    *)
(* each other recursively, and break, continue and return travel up        *)
(* through the flag isR, which every level tests and the loops reset.      *)
(*                                                                         *)
(* A condition is a boolean or a count of which nothing is known.  The     *)
(* call of runWhile by itself for the next iteration is its last action,   *)
(* so that its frame stands for all the iterations.                        *)
(***************************************************************************)
EXTENDS Statements, Integers

CONSTANT Counts  \* the counts of repeat statements

CountsAssumption == Counts \subseteq Int
ASSUME CountsAssumption

VARIABLES
  cstack,  \* the C frames of runMethod's runNode, the innermost last
  isR,     \* 0, or the jump under way: 1 return, 2 break, 3 continue
  last     \* the node evaluated last; 0 when the method is done

vars == <<prog, cstack, isR, last>>

\* runList with what is left of its list, in the method or the branch or the
\* body of node n, and the two loops with their bodies running; a repeat with its t.
RunList(n, list) == [fn |-> "runList", node |-> n, todo |-> list]
RunWhile(n) == [fn |-> "runWhile", node |-> n]
RunRepeat(n, t) == [fn |-> "runRepeat", node |-> n, t |-> t]

Top == cstack[Len(cstack)]
Below == SubSeq(cstack, 1, Len(cstack) - 1)
In(fn) == cstack # <<>> /\ Top.fn = fn

\* runBreak, runContinue, runReturn; the other simple statements leave it.
JumpOf(n) ==
  CASE Kind(n) = "return" -> 1 [] Kind(n) = "break" -> 2
    [] Kind(n) = "continue" -> 3 [] OTHER -> 0

\* Mutant: repeat treated as a while.
FramesAllWhile(stk, n) ==
  CASE Kind(n) \in Simple -> {stk}
    [] Kind(n) = "if"     -> {Append(stk, RunList(n, Block(n))), Append(stk, RunList(n, Other(n)))}
    [] Kind(n) \in Loops  -> {stk, stk \o <<RunWhile(n), RunList(n, Block(n))>>}

\* The frames above a stack when a statement is evaluated.
Frames(stk, n) ==
  CASE Kind(n) \in Simple -> {stk}
    [] Kind(n) = "if"     -> {Append(stk, RunList(n, Block(n))), Append(stk, RunList(n, Other(n)))}
    [] Kind(n) = "while"  -> {stk, stk \o <<RunWhile(n), RunList(n, Block(n))>>}
    [] Kind(n) = "repeat" -> {Append(stk, RunRepeat(n, t)) : t \in Counts}

\* runList calls runNode on the next statement ...
RunNode ==
  /\ In("runList") /\ Top.todo # <<>> /\ isR = 0
  /\ last' = Head(Top.todo)
  /\ cstack' \in Frames(Append(Below, RunList(Top.node, Tail(Top.todo))), last')
  /\ isR' = JumpOf(last')
  /\ UNCHANGED prog

\* ... and returns at its end, or when a jump is under way.
ListReturns ==
  /\ In("runList") /\ (Top.todo = <<>> \/ isR # 0)
  /\ cstack' = Below
  /\ UNCHANGED <<prog, isR, last>>

\* Mutants: break is not reset, or continue ends the loop too.
AfterBodyKeepingBreak == IF isR = 3 THEN 0 ELSE isR
GoesOnUnlessJump == isR = 0

\* The flag when a loop is done with a round of its body; whether it goes on.
AfterBody == IF isR = 1 THEN 1 ELSE 0
GoesOn == isR \in {0, 3}

\* runWhile after its body: the condition again, or the end of the loop.
While ==
  /\ In("runWhile")
  /\ isR' = AfterBody
  /\ IF GoesOn
     THEN last' = Top.node /\ cstack' \in Frames(Below, Top.node)
     ELSE cstack' = Below /\ UNCHANGED last
  /\ UNCHANGED prog

\* while(t--) of runRepeat, before the first round and after each; a negative
\* count does not get to zero.
Repeat ==
  /\ In("runRepeat")
  /\ isR' = AfterBody
  /\ IF GoesOn /\ Top.t # 0
     THEN LET t == IF Top.t > 0 THEN Top.t - 1 ELSE Top.t
          IN  cstack' = Below \o <<RunRepeat(Top.node, t), RunList(Top.node, Block(Top.node))>>
     ELSE cstack' = Below
  /\ UNCHANGED <<prog, last>>

\* runMethod after runNode.
MethodReturns ==
  /\ cstack = <<>> /\ last # 0
  /\ last' = 0
  /\ UNCHANGED <<prog, cstack, isR>>

Init ==
  /\ prog \in Programs
  /\ cstack = <<RunList(1, Block(1))>>
  /\ isR = 0
  /\ last = 1

Next == RunNode \/ ListReturns \/ While \/ Repeat \/ MethodReturns

Spec == Init /\ [][Next]_vars

----------------------------------------------------------------------------
(* Properties.                                                             *)

\* The types of the variables.
ListFrame == [fn : {"runList"}, node : Nodes, todo : Seq(Nodes)]
WhileFrame == [fn : {"runWhile"}, node : {n \in Nodes : Kind(n) = "while"}]
RepeatFrame == [fn : {"runRepeat"}, node : {n \in Nodes : Kind(n) = "repeat"}, t : Int]
TypeOK ==
  /\ prog \in Programs
  /\ cstack \in Seq(ListFrame \cup WhileFrame \cup RepeatFrame)
  /\ isR \in 0 .. 3
  /\ last \in {0} \cup Nodes

\* Every statement and condition is evaluated right after one that it follows
\* in the control-flow graph: the flag takes break, continue and return (lines
\* 522-561) past all the levels they leave and no further.
G == INSTANCE FlowGraph
FollowsFlowGraph == G!Spec

\* A jump under way is the one evaluated last, and the innermost loop whose body
\* is running is the one that a break or a continue is for; outside of loops,
\* which nothing refuses, there is none and the jump ends the method.
LoopFrames == {d \in DOMAIN cstack : cstack[d].fn \in {"runWhile", "runRepeat"}}
Catcher(d) == d \in LoopFrames /\ \A e \in LoopFrames : e <= d
JumpsAreCaught ==
  isR # 0 /\ last # 0 =>
    /\ isR = JumpOf(last)
    /\ isR \in {2, 3} =>
         \/ \E d \in LoopFrames : Catcher(d) /\ cstack[d].node = G!LoopOf[last]
         \/ LoopFrames = {} /\ G!LoopOf[last] = 1
=============================================================================
