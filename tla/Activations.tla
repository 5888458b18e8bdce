---------------------------- MODULE Activations ----------------------------
(***************************************************************************)
(* What a HorseIR program may rely on when it calls a method.              *)
(*                                                                         *)
(* Every invocation of a method gets an activation of its own: the method  *)
(* and an environment that binds its parameters and its locals.  Only the  *)
(* activation on top is read and written.  A call pushes an activation     *)
(* whose parameters are the values of the operands; a return pops it and   *)
(* binds the returned values to the targets of the call in the activation  *)
(* underneath, all of whose other bindings are as they were.  The language *)
(* reference calls this "pass-by-value and return by value".               *)
(*                                                                         *)
(* Nothing here knows of a shared variable store or of a run-time stack:   *)
(* module CallStack is the interpreter, which has both and implements this *)
(* specification.                                                          *)
(***************************************************************************)
EXTENDS Programs

VARIABLES
  acts,        \* the activations, the running one last
  status       \* "running", "done", or "error" after a run-time error

vars == <<acts, status>>

Activation(m, env, targets) == [method |-> m, env |-> env, targets |-> targets]
Depth == Len(acts)
Top == acts[Depth]

Init ==
  /\ \E env \in [OwnVars(Main) -> Words] :
       acts = <<Activation(Main, env, <<>>)>>
  /\ status = "running"

\* Variables of the running activation get new values.
Assign ==
  /\ Len(acts') = Depth
  /\ \E env \in [OwnVars(Top.method) -> Words] :
       acts' = [acts EXCEPT ![Depth] = Activation(Top.method, env, <<>>)]
  /\ UNCHANGED status

\* The callee's parameters are values of the caller's variables or literals;
\* its locals start out unspecified.
Arguments == {Top.env[v] : v \in OwnVars(Top.method)} \cup Values
Invoke ==
  /\ Len(acts') = Depth + 1
  /\ \E targets \in TargetLists(Top.method) :
       LET caller == Activation(Top.method, Top.env, targets)
       IN  acts' = Append([acts EXCEPT ![Depth] = caller], acts'[Depth + 1])
  /\ \E m \in Methods : \E env \in [OwnVars(m) -> Words] :
       /\ \A v \in Range(ParamVars[m]) : env[v] \in Arguments
       /\ acts'[Depth + 1] = Activation(m, env, <<>>)
  /\ UNCHANGED status

\* The running activation ends and hands ws to the targets of its call.
Finish(ws) ==
  IF Depth = 1
  THEN acts' = <<>> /\ status' = "done"
  ELSE LET caller == acts[Depth - 1]
           env    == Bound(caller.env, caller.targets, ws)
       IN  /\ caller.targets = <<>> \/ Len(caller.targets) = Len(ws)
           /\ acts' = [SubSeq(acts, 1, Depth - 1) EXCEPT
                         ![Depth - 1] = Activation(caller.method, env, <<>>)]
           /\ UNCHANGED status

\* A return statement hands over the values of its operands ...
Return == \E ops \in OperandLists(Top.method) : Finish(ValuesIn(Top.env, ops))

\* ... and a method that ends without one hands over unspecified values.
FallOff == Top.method \in FallsOff /\ \E ws \in ListsOver(Words) : Finish(ws)

\* A run-time error ends the program.
Fail == status' = "error" /\ UNCHANGED acts

Next ==
  /\ status = "running"
  /\ Fail \/ Assign \/ Invoke \/ Return \/ FallOff

Spec == Init /\ [][Next]_vars
=============================================================================
