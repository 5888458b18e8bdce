----------------------------- MODULE CallStack -----------------------------
(***************************************************************************)
(* Method invocation in the HorseIR interpreter                            *)
(* (translator/interpreter.cc).                                            *)
(*                                                                         *)
(* Every declared variable has one cell, SymbolName.value, shared by all   *)
(* invocations of its method.  What gives each invocation variables of its *)
(* own is that runMethod saves the cells of the CALLER on runStack before  *)
(* it loads the parameters of the callee, and restores them, locals first, *)
(* when the callee is done.  Operands and results travel through two       *)
(* global lists, paramList and rtnList, that statements do not always      *)
(* clear.                                                                  *)
(*                                                                         *)
(* The program is arbitrary: at any moment the running method may execute  *)
(* any statement over its own variables.  Values are opaque pointers, and  *)
(* have the types the program declares.  EP() ends the process: an error   *)
(* step only records why.                                                  *)
(***************************************************************************)
EXTENDS Programs

CONSTANTS
  Malloced,    \* what malloc may leave in a SymbolName.value or in runStack
  STACK_SIZE,  \* size of runStack, in cells
  MaxDepth     \* bound on the depth of the C stack

StackAssumption ==
  /\ STACK_SIZE \in Nat
  /\ MaxDepth \in Nat
  /\ Malloced \subseteq {NULL, Junk} /\ Malloced # {}
ASSUME StackAssumption

VARIABLES
  value,          \* SymbolName.value of every variable
  runStack,       \* the cells of runStack
  stackPtr,       \* its first free cell
  stackPeak,      \* the largest stackPtr seen
  currentMethod,  \* the running method
  callers,        \* the C frames of the suspended runMethod calls, see Frame
  paramList,      \* operands of the current statement
  rtnList,        \* results of the last call
  status,         \* "running", "done", or the error that ended the run
  unset           \* history: variables this invocation has not yet assigned

lists == <<paramList, rtnList>>
stack == <<runStack, stackPtr, stackPeak, currentMethod, callers>>
vars == <<value, stack, lists, status, unset>>

Cells == 0 .. STACK_SIZE - 1
Errors == {"Stack overflow", "not initialized", "arity", "null dereference"}

\* prevNode of a suspended runMethod and the targets of the call (none for an
\* expression statement); as history, its stackPtr and its unset variables.
Frame(m, targets, base, u) ==
  [method |-> m, targets |-> targets, base |-> base, unset |-> u]
Frames == [method : Methods, targets : Seq(Vars \cup {Underscore}), base : Nat,
           unset : SUBSET Vars]

----------------------------------------------------------------------------
(* saveToStack and loadFromStack: a pair of calls each, on the two lists.  *)

\* The cells after saveToStackSub stored the variables of list from sp on.
SaveSub(list, stk, sp) ==
  [c \in DOMAIN stk |-> IF c \in sp .. sp + Len(list) - 1
                        THEN value[list[c - sp + 1]] ELSE stk[c]]

\* The variables after loadFromStackSub read list back from sp on.
LoadSub(list, val, sp) ==
  [v \in DOMAIN val |->
     IF v \in Range(list)
     THEN runStack[sp + Position(list, v) - 1] ELSE val[v]]

\* An empty list returns before the test that guards the stack.
Fits(list, sp) == Len(list) = 0 \/ sp + Len(list) < STACK_SIZE
SaveFits(m) ==
  /\ Fits(ParamVars[m], stackPtr)
  /\ Fits(LocalVars[m], stackPtr + Len(ParamVars[m]))

SaveToStack(m) ==
  LET p   == stackPtr + Len(ParamVars[m])
      top == p + Len(LocalVars[m])
  IN  /\ runStack' = SaveSub(LocalVars[m],
                             SaveSub(ParamVars[m], runStack, stackPtr), p)
      /\ stackPtr' = top
      /\ stackPeak' = IF top > stackPeak THEN top ELSE stackPeak

\* Mutants: the parameters are not popped, or not restored.
LoadPtrLocalsOnly(m) == stackPtr - Len(LocalVars[m])
LoadLocalsOnly(m) == LoadSub(LocalVars[m], value, stackPtr - Len(LocalVars[m]))

LoadPtr(m) == stackPtr - Len(LocalVars[m]) - Len(ParamVars[m])

\* Mutant: the parameters are popped first.
LoadParamsFirst(m) ==
  LoadSub(LocalVars[m],
          LoadSub(ParamVars[m], value, stackPtr - Len(ParamVars[m])),
          LoadPtr(m))

LoadFromStack(m) ==
  LoadSub(ParamVars[m],
          LoadSub(LocalVars[m], value, stackPtr - Len(LocalVars[m])),
          LoadPtr(m))

\* loadParams walks both lists from their ends, the last parameter first.
LoadParams(m, args) ==
  [v \in Vars |->
     IF v \in Range(ParamVars[m])
     THEN args[Position(ParamVars[m], v) + Len(args) - Len(ParamVars[m])]
     ELSE value[v]]

----------------------------------------------------------------------------
(* Statements.                                                             *)

\* Mutant: no test of the value.
AlwaysReadable(ops) == TRUE

\* runName refuses a null value.
Readable(ops) == \A i \in DOMAIN ops : ValueIn(value, ops[i]) # NULL

Die(error) ==
  /\ status' = error
  /\ UNCHANGED <<value, stack, lists, unset>>

\* checkRtns and assignVars: the results are bound, or their number is wrong.
CheckRtns(xs, results) ==
  /\ value' = Bound(value, xs, results)
  /\ unset' = unset \ Range(xs)
  /\ UNCHANGED <<stack, status>>

Targets == TargetLists(currentMethod)

\* xs = o, for a name or a literal o.
Assign(o, xs) ==
  \/ ~ Readable(<<o>>) /\ Die("not initialized")
  \/ Readable(<<o>>) /\ Len(xs) > 1 /\ Die("arity")
  \/ /\ Readable(<<o>>) /\ Len(xs) = 1
     /\ paramList' = <<ValueIn(value, o)>>
     /\ CheckRtns(xs, paramList')
     /\ UNCHANGED rtnList

\* xs = check_cast(o, type), for a name or a literal o: the operand goes to
\* paramList, but the targets are bound to rtnList.
Cast(o, xs) ==
  \/ ~ Readable(<<o>>) /\ Die("not initialized")
  \/ Readable(<<o>>) /\ Len(xs) # Len(rtnList) /\ Die("arity")
  \/ /\ Readable(<<o>>) /\ Len(xs) = Len(rtnList)
     /\ paramList' = <<ValueIn(value, o)>>
     /\ CheckRtns(xs, rtnList)
     /\ UNCHANGED rtnList

\* xs = @f(ops), or the statement @f(ops) that drops the result, for a builtin
\* f that returns r.
CallBuiltin(ops, r) ==
  \/ ~ Readable(ops) /\ Die("not initialized")
  \/ /\ Readable(ops)
     /\ \E xs \in Targets : Len(xs) > 1 /\ Die("arity")
  \/ /\ Readable(ops)
     /\ paramList' = ValuesIn(value, ops)
     /\ rtnList' = <<r>>
     /\ \E xs \in Targets : Len(xs) <= 1 /\ CheckRtns(xs, rtnList')

\* The operand of an if, a while or a repeat replaces paramList, that of an
\* expression statement is added to it.
Evaluate(o, clean) ==
  \/ ~ Readable(<<o>>) /\ Die("not initialized")
  \/ /\ Readable(<<o>>)
     /\ clean \/ Len(paramList) < MaxArity
     /\ paramList' = (IF clean THEN <<>> ELSE paramList) \o <<ValueIn(value, o)>>
     /\ UNCHANGED <<value, stack, rtnList, status, unset>>

\* xs = @m(ops), or the statement @m(ops), for a method m: up to the first
\* statement of m.
Invoke(m, ops) ==
  \/ ~ Readable(ops) /\ Die("not initialized")
  \/ Readable(ops) /\ ~ SaveFits(currentMethod) /\ Die("Stack overflow")
  \/ /\ Readable(ops) /\ SaveFits(currentMethod)
     /\ Len(ops) < Len(ParamVars[m])
     /\ Die("null dereference")
  \/ /\ Readable(ops) /\ SaveFits(currentMethod)
     /\ Len(ops) >= Len(ParamVars[m])
     /\ Len(callers) < MaxDepth
     /\ SaveToStack(currentMethod)
     /\ paramList' = ValuesIn(value, ops)
     /\ rtnList' = <<>>
     /\ value' = LoadParams(m, paramList')
     /\ currentMethod' = m
     /\ \E xs \in Targets :
          callers' = Append(callers, Frame(currentMethod, xs, stackPtr, unset))
     /\ unset' = Range(LocalVars[m])
     /\ UNCHANGED status

\* The running method ends with results in paramList: the rest of runMethod,
\* and of the call and the assignment that the caller was executing.
Finish(results) ==
  IF callers = <<>>
  THEN /\ status' = "done"
       /\ paramList' = results
       /\ UNCHANGED <<value, stack, rtnList, unset>>
  ELSE LET n == Len(callers)
           f == callers[n]
       IN  \/ f.targets # <<>> /\ Len(f.targets) # Len(results) /\ Die("arity")
           \/ /\ f.targets = <<>> \/ Len(f.targets) = Len(results)
              /\ value' = Bound(LoadFromStack(f.method), f.targets, results)
              /\ stackPtr' = LoadPtr(f.method)
              /\ currentMethod' = f.method
              /\ callers' = SubSeq(callers, 1, n - 1)
              /\ paramList' = results
              /\ rtnList' = results
              /\ unset' = f.unset \ Range(f.targets)
              /\ UNCHANGED <<runStack, stackPeak, status>>

\* checkReturnType walks the returned values and the declared types together.
Return(ops) ==
  \/ ~ Readable(ops) /\ Die("not initialized")
  \/ /\ Readable(ops) /\ Len(ops) < RtnArity[currentMethod]
     /\ Die("null dereference")
  \/ /\ Readable(ops) /\ Len(ops) >= RtnArity[currentMethod]
     /\ Finish(ValuesIn(value, ops))

\* The last statement was not a return: whatever is in paramList is returned.
FallOff == currentMethod \in FallsOff /\ Finish(paramList)

----------------------------------------------------------------------------
Init ==
  /\ value \in [Vars -> Malloced]
  /\ runStack \in [Cells -> Malloced]
  /\ stackPtr = 0 /\ stackPeak = 0
  /\ currentMethod = Main
  /\ callers = <<>>
  /\ paramList = <<>> /\ rtnList = <<>>
  /\ status = "running"
  /\ unset = OwnVars(Main)

Simple ==
  \E o \in OwnVars(currentMethod) \cup Values :
    \/ \E xs \in Targets \ {<<>>} : Assign(o, xs) \/ Cast(o, xs)
    \/ \E clean \in BOOLEAN : Evaluate(o, clean)

Calls ==
  \E ops \in OperandLists(currentMethod) :
    \/ \E r \in Values : CallBuiltin(ops, r)
    \/ \E m \in Methods : Invoke(m, ops)

Returns == FallOff \/ \E ops \in OperandLists(currentMethod) : Return(ops)

Next == status = "running" /\ (Simple \/ Calls \/ Returns)

Spec == Init /\ [][Next]_vars

----------------------------------------------------------------------------
(* Properties.                                                             *)

\* The types of the variables; no null word gets into the two lists.
TypeOK ==
  /\ value \in [Vars -> Words]
  /\ runStack \in [Cells -> Words]
  /\ stackPtr \in Nat /\ stackPeak \in Nat
  /\ currentMethod \in Methods
  /\ callers \in Seq(Frames)
  /\ paramList \in Seq(Words \ {NULL}) /\ rtnList \in Seq(Words \ {NULL})
  /\ status \in {"running", "done"} \cup Errors
  /\ unset \subseteq Vars

\* The first cell above the first d frames.
Size(m) == Len(ParamVars[m]) + Len(LocalVars[m])
FrameEnd(frames, d) ==
  IF d = 0 THEN 0 ELSE frames[d].base + Size(frames[d].method)

\* runStack holds exactly the variables of the suspended invocations, one
\* frame after the other, so that what a return pops is what its call pushed:
\* saveToStack and loadFromStack (lines 223-248) agree on every size although
\* they take the two lists in opposite orders.
StackLayout ==
  /\ \A d \in DOMAIN callers : callers[d].base = FrameEnd(callers, d - 1)
  /\ stackPtr = FrameEnd(callers, Len(callers))
  /\ stackPtr <= stackPeak
  /\ stackPeak = 0 \/ stackPeak < STACK_SIZE

\* The words that cells hold for the variables of a suspended invocation.
Slot(m, v) == Position(AllVars(m), v) - 1
SavedEnv(cells, f) ==
  [v \in OwnVars(f.method) |-> cells[f.base + Slot(f.method, v)]]

\* A variable that an invocation has assigned, or got as a parameter, can be
\* read for the rest of that invocation, whatever the calls in between do to
\* the cell that it shares with the other invocations of the method: runName
\* (line 425) never meets a null word there.
AssignedStaysReadable ==
  /\ \A v \in OwnVars(currentMethod) \ unset : value[v] # NULL
  /\ \A d \in DOMAIN callers :
       LET f == callers[d]
       IN  \A v \in OwnVars(f.method) \ f.unset : SavedEnv(runStack, f)[v] # NULL

\* The interpreter implements activations of their own: the running one is in
\* the variables' cells, the suspended ones are on runStack.
Running ==
  [method |-> currentMethod, env |-> [v \in OwnVars(currentMethod) |-> value[v]],
   targets |-> <<>>]
Suspended(cells, f) ==
  [method |-> f.method, env |-> SavedEnv(cells, f), targets |-> f.targets]
ActsOf ==
  [d \in 1 .. Len(callers) + 1 |->
     IF d <= Len(callers) THEN Suspended(runStack, callers[d]) ELSE Running]

ActsBar == IF status = "done" THEN <<>> ELSE ActsOf
StatusBar == IF status \in Errors THEN "error" ELSE status
A == INSTANCE Activations WITH acts <- ActsBar, status <- StatusBar

\* Pass-by-value and return by value, for every invocation, recursive ones
\* included (runMethod, lines 598-619, and the call and return around it).
ImplementsActivations == A!Spec

\* "Variable must be initialized before used" (runName, line 429): a variable
\* not yet assigned in the invocation that reads it is refused.
UninitialisedReadFails ==
  status = "running" => \A v \in unset \cap OwnVars(currentMethod) : value[v] = NULL

\* "A type cast changes the type of the expression": what a cast of a variable
\* or a literal binds to its target is that operand (lines 397-417).
CastYieldsOperand ==
  [][\A x \in OwnVars(currentMethod), o \in OwnVars(currentMethod) \cup Values :
       Cast(o, <<x>>) /\ status' = "running" => value'[x] = ValueIn(value, o)]_vars
=============================================================================
