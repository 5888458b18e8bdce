-------------------------- MODULE CallStack_proofs --------------------------
(***************************************************************************)
(* Theorems about CallStack, for every program, every size of the stack    *)
(* and every depth: the types, the layout of runStack, that a variable an  *)
(* invocation has assigned stays readable, and the refinement of           *)
(* Activations.                                                            *)
(***************************************************************************)
EXTENDS CallStack, LeastNumber, SequenceTheorems, TLAPS

----------------------------------------------------------------------------
(* Lists and positions.                                                    *)

\* The last position of an element of a list is one of its positions.
LEMMA LastPositionIsPosition ==
  ASSUME NEW S, NEW xs \in Seq(S), NEW v \in Range(xs)
  PROVE  LastPosition(xs, v) \in 1 .. Len(xs) /\ xs[LastPosition(xs, v)] = v
<1> DEFINE T == {Len(xs) - i : i \in {k \in 1 .. Len(xs) : xs[k] = v}}
<1>1. T \subseteq Nat /\ T # {}
  BY DEF Range
<1>2. PICK x \in T : \A y \in T : x <= y
  BY <1>1, LeastNatural
<1>3. PICK i \in 1 .. Len(xs) : xs[i] = v /\ x = Len(xs) - i
  OBVIOUS
<1>4. \A j \in 1 .. Len(xs) : xs[j] = v => j <= i
  <2> SUFFICES ASSUME NEW j \in 1 .. Len(xs), xs[j] = v PROVE j <= i
    OBVIOUS
  <2>1. Len(xs) - j \in T
    OBVIOUS
  <2>2. Len(xs) - i <= Len(xs) - j
    BY <2>1, <1>2, <1>3
  <2>3. Len(xs) \in Nat
    OBVIOUS
  <2> HIDE DEF T
  <2> QED BY <2>2, <2>3
<1> QED BY <1>3, <1>4 DEF LastPosition

LEMMA PositionIsPosition ==
  ASSUME NEW S, NEW list \in Seq(S), NEW v \in Range(list)
  PROVE  Position(list, v) \in 1 .. Len(list) /\ list[Position(list, v)] = v
BY DEF Position, Range

\* The lists of a method hold declared variables only.
LEMMA MethodLists ==
  ASSUME NEW m \in Methods
  PROVE  /\ ParamVars[m] \in Seq(Vars) /\ LocalVars[m] \in Seq(Vars)
         /\ Len(ParamVars[m]) \in Nat /\ Len(LocalVars[m]) \in Nat
         /\ OwnVars(m) \subseteq Vars
BY ProgramAssumption DEF ProgramAssumption, OwnVars, Range

\* A list of operands or targets is a sequence.
LEMMA ListsAreSequences ==
  ASSUME NEW S, NEW s \in ListsOver(S)
  PROVE  s \in Seq(S) /\ Len(s) \in 0 .. MaxArity /\ DOMAIN s = 1 .. Len(s)
<1>1. PICK n \in 0 .. MaxArity : s \in [1 .. n -> S]
  BY DEF ListsOver
<1> QED BY <1>1, ProgramAssumption DEF ProgramAssumption

\* Pushing an element leaves the others where they are.
LEMMA Pushed ==
  ASSUME NEW S, NEW s \in Seq(S), NEW e \in S
  PROVE  /\ Append(s, e) \in Seq(S)
         /\ Len(s) \in Nat /\ Len(Append(s, e)) = Len(s) + 1
         /\ DOMAIN s = 1 .. Len(s)
         /\ DOMAIN Append(s, e) = 1 .. Len(s) + 1
         /\ \A d \in 1 .. Len(s) : Append(s, e)[d] = s[d]
         /\ Append(s, e)[Len(s) + 1] = e
OBVIOUS

\* Popping the last element leaves the others where they are.
LEMMA Popped ==
  ASSUME NEW S, NEW s \in Seq(S), s # <<>>
  PROVE  /\ Len(s) \in Nat \ {0} /\ s[Len(s)] \in S
         /\ SubSeq(s, 1, Len(s) - 1) \in Seq(S)
         /\ Len(SubSeq(s, 1, Len(s) - 1)) = Len(s) - 1
         /\ DOMAIN SubSeq(s, 1, Len(s) - 1) = 1 .. Len(s) - 1
         /\ \A d \in 1 .. Len(s) - 1 : SubSeq(s, 1, Len(s) - 1)[d] = s[d]
<1>1. Len(s) \in Nat \ {0} /\ DOMAIN s = 1 .. Len(s)
  BY EmptySeq, LenProperties
<1>2. \A d \in 1 .. Len(s) - 1 : d \in 1 .. Len(s) /\ s[d] \in S
  BY <1>1
<1>3. \A d \in 1 .. (Len(s) - 1) - 1 + 1 :
        SubSeq(s, 1, Len(s) - 1)[d] = s[1 + d - 1]
  BY <1>1, <1>2, SubSeqProperties
<1>4. /\ SubSeq(s, 1, Len(s) - 1) \in Seq(S)
      /\ Len(SubSeq(s, 1, Len(s) - 1)) = Len(s) - 1
  BY <1>1, <1>2, SubSeqProperties
<1> QED BY <1>1, <1>2, <1>3, <1>4, LenProperties

----------------------------------------------------------------------------
(* The operators that read and write environments and cells.               *)

\* Binding targets keeps an environment one of words of the same kind.
LEMMA BoundType ==
  ASSUME NEW D, NEW W, NEW env \in [D -> W], NEW S, NEW xs \in Seq(S),
         NEW ws \in Seq(W), Len(xs) = Len(ws)
  PROVE  Bound(env, xs, ws) \in [D -> W]
<1> SUFFICES ASSUME NEW v \in D, v \in Range(xs)
             PROVE  ws[LastPosition(xs, v)] \in W
  BY DEF Bound
<1> QED BY LastPositionIsPosition

\* Readable operands evaluate to words that are not null, one for each.
LEMMA OperandValues ==
  ASSUME NEW m \in Methods, NEW ops \in OperandLists(m),
         value \in [Vars -> Words], Readable(ops)
  PROVE  /\ ValuesIn(value, ops) \in Seq(Words \ {NULL})
         /\ Len(ValuesIn(value, ops)) = Len(ops)
         /\ Len(ops) \in Nat
<1>1. ops \in Seq(OwnVars(m) \cup Values) /\ DOMAIN ops = 1 .. Len(ops)
  BY ListsAreSequences DEF OperandLists
<1>2. \A i \in 1 .. Len(ops) : ValueIn(value, ops[i]) \in Words \ {NULL}
  BY <1>1, MethodLists DEF ValueIn, Words, Readable
<1> QED BY <1>1, <1>2 DEF ValuesIn

LEMMA OneOperand ==
  ASSUME NEW m \in Methods, NEW o \in OwnVars(m) \cup Values,
         value \in [Vars -> Words], Readable(<<o>>)
  PROVE  <<ValueIn(value, o)>> \in Seq(Words \ {NULL})
<1>1. ValueIn(value, o) \in Words
  BY MethodLists DEF ValueIn, Words
<1>2. ValueIn(value, o) # NULL
  <2>1. 1 \in DOMAIN <<o>> /\ <<o>>[1] = o
    OBVIOUS
  <2> QED BY <2>1 DEF Readable
<1> QED BY <1>1, <1>2

\* saveToStack writes words into cells, and reaches no cell past the stack.
LEMMA SaveSubType ==
  ASSUME value \in [Vars -> Words], NEW list \in Seq(Vars),
         NEW stk \in [Cells -> Words], NEW sp \in Nat
  PROVE  SaveSub(list, stk, sp) \in [Cells -> Words]
<1> SUFFICES ASSUME NEW c \in Cells, c \in sp .. sp + Len(list) - 1
             PROVE  value[list[c - sp + 1]] \in Words
  BY DEF SaveSub
<1>1. c - sp + 1 \in 1 .. Len(list)
  OBVIOUS
<1> QED BY <1>1

\* loadFromStack reads cells of the stack only.
LEMMA LoadSubType ==
  ASSUME runStack \in [Cells -> Words], NEW list \in Seq(Vars),
         NEW val \in [Vars -> Words], NEW sp \in Nat,
         sp + Len(list) <= STACK_SIZE
  PROVE  LoadSub(list, val, sp) \in [Vars -> Words]
<1> SUFFICES ASSUME NEW v \in Vars, v \in Range(list)
             PROVE  runStack[sp + Position(list, v) - 1] \in Words
  BY DEF LoadSub
<1>1. sp + Position(list, v) - 1 \in Cells
  BY PositionIsPosition, StackAssumption DEF Cells, StackAssumption
<1> QED BY <1>1

\* Enough operands give every parameter a value.
LEMMA LoadParamsType ==
  ASSUME value \in [Vars -> Words], NEW m \in Methods, NEW W,
         NEW args \in Seq(W), Len(args) >= Len(ParamVars[m])
  PROVE  /\ \A v \in Range(ParamVars[m]) : LoadParams(m, args)[v] \in W
         /\ W \subseteq Words => LoadParams(m, args) \in [Vars -> Words]
<1>1. \A v \in Range(ParamVars[m]) :
        args[Position(ParamVars[m], v) + Len(args) - Len(ParamVars[m])] \in W
  <2> SUFFICES ASSUME NEW v \in Range(ParamVars[m])
               PROVE  Position(ParamVars[m], v) + Len(args) - Len(ParamVars[m])
                        \in 1 .. Len(args)
    OBVIOUS
  <2> QED BY MethodLists, PositionIsPosition
<1>2. Range(ParamVars[m]) \subseteq Vars
  BY MethodLists DEF Range
<1> QED BY <1>1, <1>2 DEF LoadParams

----------------------------------------------------------------------------
(* The types and the layout of the stack.                                  *)
(*                                                                         *)
(* Neither is inductive alone: that loadFromStack reads cells of the stack *)
(* needs to know where the frames end, and the end of a frame needs to be  *)
(* the size of the lists of a method.                                      *)

Layout == TypeOK /\ StackLayout

\* The program counter of the proofs: everything but the lists and status.
LEMMA LayoutOfUnchanged ==
  ASSUME Layout, UNCHANGED <<value, stack, unset>>,
         paramList' \in Seq(Words \ {NULL}), rtnList' \in Seq(Words \ {NULL}),
         status' \in {"running", "done"} \cup Errors
  PROVE  Layout'
BY DEF Layout, TypeOK, StackLayout, FrameEnd, Size, stack, Cells

LEMMA FrameEndOfPrefix ==
  ASSUME NEW n \in Nat, NEW f, NEW g, \A d \in 1 .. n : f[d] = g[d]
  PROVE  \A d \in 0 .. n : FrameEnd(f, d) = FrameEnd(g, d)
<1> SUFFICES ASSUME NEW d \in 0 .. n, d # 0
             PROVE  FrameEnd(f, d) = FrameEnd(g, d)
  BY DEF FrameEnd
<1>1. f[d] = g[d]
  OBVIOUS
<1> QED BY <1>1 DEF FrameEnd

LEMMA LayoutOfDie ==
  ASSUME Layout, NEW e \in Errors, Die(e)
  PROVE  Layout'
BY LayoutOfUnchanged DEF Die, lists, Layout, TypeOK

LEMMA LayoutOfCheckRtns ==
  ASSUME Layout, NEW xs \in Targets, NEW results \in Seq(Words \ {NULL}),
         Len(xs) = Len(results), CheckRtns(xs, results),
         paramList' \in Seq(Words \ {NULL}), rtnList' \in Seq(Words \ {NULL})
  PROVE  Layout'
<1>1. value' \in [Vars -> Words]
  <2>1. xs \in Seq(OwnVars(currentMethod) \cup {Underscore})
    BY ListsAreSequences DEF Targets, TargetLists
  <2>2. results \in Seq(Words) /\ value \in [Vars -> Words]
    BY DEF Layout, TypeOK
  <2> QED BY <2>1, <2>2, BoundType DEF CheckRtns
<1>2. unset' \subseteq Vars
  BY DEF CheckRtns, Layout, TypeOK
<1> QED BY <1>1, <1>2 DEF CheckRtns, stack, Layout, TypeOK, StackLayout,
                          FrameEnd, Size, Cells

\* The stack has room for the frame that SaveFits lets through.
LEMMA RoomForFrame ==
  ASSUME stackPtr \in Nat, NEW m \in Methods, SaveFits(m),
         stackPtr <= stackPeak, stackPeak \in Nat,
         stackPeak = 0 \/ stackPeak < STACK_SIZE,
         SaveToStack(m)
  PROVE  /\ stackPtr' = stackPtr + Size(m) /\ stackPtr' \in Nat
         /\ stackPtr' <= stackPeak' /\ stackPeak' \in Nat
         /\ stackPeak' = 0 \/ stackPeak' < STACK_SIZE
<1> DEFINE p == Len(ParamVars[m])
           l == Len(LocalVars[m])
<1>1. p \in Nat /\ l \in Nat /\ Size(m) = p + l
  BY MethodLists DEF Size
<1>2. /\ p = 0 \/ stackPtr + p < STACK_SIZE
      /\ l = 0 \/ stackPtr + p + l < STACK_SIZE
  BY DEF SaveFits, Fits
<1>3. /\ stackPtr' = stackPtr + p + l
      /\ stackPeak' = IF stackPtr + p + l > stackPeak
                      THEN stackPtr + p + l ELSE stackPeak
  BY DEF SaveToStack
<1>4. STACK_SIZE \in Nat
  BY StackAssumption DEF StackAssumption
<1> HIDE DEF p, l
<1> QED BY <1>1, <1>2, <1>3, <1>4

LEMMA SavedType ==
  ASSUME value \in [Vars -> Words], runStack \in [Cells -> Words],
         stackPtr \in Nat, NEW m \in Methods, SaveToStack(m)
  PROVE  runStack' \in [Cells -> Words]
<1>1. SaveSub(ParamVars[m], runStack, stackPtr) \in [Cells -> Words]
  BY MethodLists, SaveSubType
<1>2. stackPtr + Len(ParamVars[m]) \in Nat
  BY MethodLists
<1> QED BY <1>1, <1>2, MethodLists, SaveSubType DEF SaveToStack

LEMMA LayoutOfInvoke ==
  ASSUME Layout, NEW m \in Methods, NEW ops \in OperandLists(currentMethod),
         Invoke(m, ops)
  PROVE  Layout'
<1> USE DEF Errors
<1>1. CASE \/ ~ Readable(ops) /\ Die("not initialized")
           \/ Readable(ops) /\ ~ SaveFits(currentMethod) /\ Die("Stack overflow")
           \/ /\ Readable(ops) /\ SaveFits(currentMethod)
              /\ Len(ops) < Len(ParamVars[m])
              /\ Die("null dereference")
  BY <1>1, LayoutOfDie
<1>2. CASE /\ Readable(ops) /\ SaveFits(currentMethod)
           /\ Len(ops) >= Len(ParamVars[m])
           /\ Len(callers) < MaxDepth
           /\ SaveToStack(currentMethod)
           /\ paramList' = ValuesIn(value, ops)
           /\ rtnList' = <<>>
           /\ value' = LoadParams(m, paramList')
           /\ currentMethod' = m
           /\ \E xs \in Targets :
                callers' = Append(callers,
                                  Frame(currentMethod, xs, stackPtr, unset))
           /\ unset' = Range(LocalVars[m])
           /\ UNCHANGED status
  <2>1. currentMethod \in Methods /\ value \in [Vars -> Words]
    BY DEF Layout, TypeOK
  <2>2. paramList' \in Seq(Words \ {NULL}) /\ Len(paramList') = Len(ops)
    BY <1>2, <2>1, OperandValues
  <2>3. value' \in [Vars -> Words]
    BY <1>2, <2>1, <2>2, LoadParamsType, Words \ {NULL} \subseteq Words
  <2>4. runStack' \in [Cells -> Words]
    BY <1>2, <2>1, SavedType DEF Layout, TypeOK
  <2>5. /\ stackPtr' = stackPtr + Size(currentMethod) /\ stackPtr' \in Nat
        /\ stackPtr' <= stackPeak' /\ stackPeak' \in Nat
        /\ stackPeak' = 0 \/ stackPeak' < STACK_SIZE
    BY <1>2, <2>1, RoomForFrame DEF Layout, TypeOK, StackLayout
  <2>6. PICK xs \in Targets :
          callers' = Append(callers, Frame(currentMethod, xs, stackPtr, unset))
    BY <1>2
  <2>7. Frame(currentMethod, xs, stackPtr, unset)
          \in Frames
    <3>1. xs \in Seq(OwnVars(currentMethod) \cup {Underscore})
      BY ListsAreSequences DEF Targets, TargetLists
    <3>2. xs \in Seq(Vars \cup {Underscore})
      BY <3>1, <2>1, MethodLists
    <3> QED BY <3>2, <2>1 DEF Frames, Frame, Layout, TypeOK
  <2> DEFINE n == Len(callers)
  <2>8. /\ callers' \in Seq(Frames)
        /\ n \in Nat /\ Len(callers') = n + 1
        /\ DOMAIN callers = 1 .. n /\ DOMAIN callers' = 1 .. n + 1
        /\ \A d \in 1 .. n : callers'[d] = callers[d]
        /\ callers'[n + 1] = Frame(currentMethod, xs, stackPtr, unset)
    <3>1. callers \in Seq(Frames)
      BY DEF Layout, TypeOK, Frames
    <3> QED BY <3>1, <2>6, <2>7, Pushed
  <2>9. TypeOK'
    <3>1. unset' \subseteq Vars
      BY <1>2, MethodLists DEF Range
    <3>2. rtnList' \in Seq(Words \ {NULL})
      BY <1>2
    <3>3. status' \in {"running", "done"} \cup Errors
      BY <1>2 DEF Layout, TypeOK
    <3> QED BY <1>2, <2>2, <2>3, <2>4, <2>5, <2>8, <3>1, <3>2, <3>3
            DEF TypeOK, Cells, Frames
  <2>10. StackLayout'
    <3>1. \A d \in 0 .. n : FrameEnd(callers', d) = FrameEnd(callers, d)
      BY <2>8, FrameEndOfPrefix
    <3>2. FrameEnd(callers', n + 1) = stackPtr'
      <4>1. /\ callers'[n + 1].base = stackPtr
            /\ callers'[n + 1].method = currentMethod
        BY <2>8 DEF Frame
      <4>2. n + 1 # 0
        BY <2>8
      <4> QED BY <4>1, <4>2, <2>5 DEF FrameEnd
    <3>3. callers'[n + 1].base = FrameEnd(callers', n)
      BY <2>8, <3>1 DEF Frame, Layout, StackLayout
    <3>4. \A d \in 1 .. n : callers'[d].base = FrameEnd(callers', d - 1)
      <4> SUFFICES ASSUME NEW d \in 1 .. n
                   PROVE  callers'[d].base = FrameEnd(callers', d - 1)
        OBVIOUS
      <4>1. d \in DOMAIN callers
        BY <2>8
      <4>2. callers[d].base = FrameEnd(callers, d - 1) /\ d - 1 \in 0 .. n
        BY <4>1, <2>8 DEF Layout, StackLayout
      <4> QED BY <4>2, <2>8, <3>1
    <3>5. \A d \in 1 .. n + 1 : callers'[d].base = FrameEnd(callers', d - 1)
      BY <3>3, <3>4, <2>8
    <3> QED BY <2>8, <3>2, <3>5, <2>5 DEF StackLayout
  <2> QED BY <2>9, <2>10 DEF Layout
<1> QED BY <1>1, <1>2 DEF Invoke

LEMMA SizeOfFrame ==
  ASSUME stackPtr \in Nat, NEW m \in Methods
  PROVE  Size(m) \in Nat /\ LoadPtr(m) = stackPtr - Size(m)
<1> DEFINE p == Len(ParamVars[m])
           l == Len(LocalVars[m])
<1>1. p \in Nat /\ l \in Nat
  BY MethodLists
<1>2. Size(m) = p + l /\ LoadPtr(m) = stackPtr - l - p
  BY DEF Size, LoadPtr
<1> HIDE DEF p, l
<1> QED BY <1>1, <1>2

\* What a return pops is the frame of the last suspended invocation.
LEMMA LastFrame ==
  ASSUME Layout, callers # <<>>, NEW n, n = Len(callers)
  PROVE  /\ n \in Nat \ {0} /\ callers[n] \in Frames
         /\ callers[n].base = LoadPtr(callers[n].method)
         /\ callers[n].base = FrameEnd(callers, n - 1)
         /\ callers[n].base \in Nat
         /\ stackPtr = callers[n].base + Size(callers[n].method)
         /\ stackPtr <= STACK_SIZE
         /\ n \in DOMAIN callers
<1> DEFINE f == callers[n]
<1>1. callers \in Seq(Frames) /\ stackPtr \in Nat
  BY DEF Layout, TypeOK
<1>2. n \in Nat \ {0} /\ f \in Frames /\ n \in DOMAIN callers
  BY <1>1, EmptySeq, LenProperties, ElementOfSeq
<1>3. f.base \in Nat /\ f.method \in Methods
  BY <1>2 DEF Frames
<1>4. f.base = FrameEnd(callers, n - 1) /\ stackPtr = f.base + Size(f.method)
  BY <1>2 DEF Layout, StackLayout, FrameEnd
<1>5. f.base = LoadPtr(f.method)
  BY <1>1, <1>3, <1>4, SizeOfFrame
<1>6. stackPtr <= STACK_SIZE
  BY StackAssumption DEF StackAssumption, Layout, TypeOK, StackLayout
<1> QED BY <1>2, <1>3, <1>4, <1>5, <1>6

LEMMA LoadedType ==
  ASSUME Layout, NEW m \in Methods, LoadPtr(m) \in Nat,
         stackPtr = LoadPtr(m) + Size(m), stackPtr <= STACK_SIZE
  PROVE  LoadFromStack(m) \in [Vars -> Words]
<1> DEFINE lp == stackPtr - Len(LocalVars[m])
<1>1. /\ lp \in Nat /\ lp + Len(LocalVars[m]) <= STACK_SIZE
      /\ LoadPtr(m) + Len(ParamVars[m]) <= STACK_SIZE
  <2>1. Len(ParamVars[m]) \in Nat /\ Len(LocalVars[m]) \in Nat
    BY MethodLists
  <2>2. stackPtr \in Nat /\ STACK_SIZE \in Nat
    BY StackAssumption DEF StackAssumption, Layout, TypeOK
  <2>3. LoadPtr(m) = stackPtr - Len(LocalVars[m]) - Len(ParamVars[m])
    BY DEF LoadPtr
  <2> QED BY <2>1, <2>2, <2>3
<1>2. LoadSub(LocalVars[m], value, lp) \in [Vars -> Words]
  BY <1>1, MethodLists, LoadSubType DEF Layout, TypeOK
<1> HIDE DEF lp
<1>3. LoadSub(ParamVars[m], LoadSub(LocalVars[m], value, lp), LoadPtr(m))
        \in [Vars -> Words]
  BY <1>1, <1>2, MethodLists, LoadSubType DEF Layout, TypeOK
<1> QED BY <1>3 DEF LoadFromStack, lp

LEMMA LayoutOfFinish ==
  ASSUME Layout, status = "running", NEW results \in Seq(Words \ {NULL}),
         Finish(results)
  PROVE  Layout'
<1>1. CASE callers = <<>>
  BY <1>1, LayoutOfUnchanged DEF Finish, stack, Layout, TypeOK
<1> DEFINE n == Len(callers)
           f == callers[n]
<1>2. CASE callers # <<>> /\ f.targets # <<>> /\ Len(f.targets) # Len(results)
           /\ Die("arity")
  BY <1>2, LayoutOfDie DEF Errors
<1>3. CASE /\ callers # <<>>
           /\ f.targets = <<>> \/ Len(f.targets) = Len(results)
           /\ value' = Bound(LoadFromStack(f.method), f.targets, results)
           /\ stackPtr' = LoadPtr(f.method)
           /\ currentMethod' = f.method
           /\ callers' = SubSeq(callers, 1, n - 1)
           /\ paramList' = results
           /\ rtnList' = results
           /\ unset' = f.unset \ Range(f.targets)
           /\ UNCHANGED <<runStack, stackPeak, status>>
  <2>1. /\ n \in Nat \ {0} /\ f \in Frames
        /\ f.base = LoadPtr(f.method) /\ f.base = FrameEnd(callers, n - 1)
        /\ f.base \in Nat
        /\ stackPtr = f.base + Size(f.method)
        /\ stackPtr <= STACK_SIZE
    BY <1>3, LastFrame
  <2>2. /\ f.method \in Methods /\ f.targets \in Seq(Vars \cup {Underscore})
        /\ f.unset \subseteq Vars
    BY <2>1 DEF Frames
  <2>3. /\ callers' \in Seq(Frames)
        /\ Len(callers') = n - 1 /\ DOMAIN callers' = 1 .. n - 1
        /\ \A d \in 1 .. n - 1 : callers'[d] = callers[d]
    BY <1>3, Popped DEF Layout, TypeOK
  <2> HIDE DEF f, n
  <2>4. value' \in [Vars -> Words]
    <3>1. LoadFromStack(f.method) \in [Vars -> Words]
      BY <2>1, <2>2, LoadedType
    <3>2. CASE f.targets = <<>>
      BY <1>3, <3>1, <3>2 DEF Bound, Range
    <3>3. CASE Len(f.targets) = Len(results)
      <4>1. results \in Seq(Words)
        OBVIOUS
      <4> QED BY <1>3, <3>1, <3>3, <4>1, <2>2, BoundType
    <3> QED BY <1>3, <3>2, <3>3
  <2>5. TypeOK'
    <3>1. unset' \subseteq Vars
      BY <1>3, <2>2
    <3>2. stackPtr' \in Nat /\ currentMethod' \in Methods
      BY <1>3, <2>1, <2>2
    <3> QED BY <1>3, <2>3, <2>4, <3>1, <3>2
            DEF Layout, TypeOK, Cells
  <2>6. StackLayout'
    <3>1. \A d \in 0 .. n - 1 : FrameEnd(callers', d) = FrameEnd(callers, d)
      <4>1. n - 1 \in Nat
        BY <2>1
      <4> QED BY <4>1, <2>3, FrameEndOfPrefix, ZenonT(60)
    <3>2. stackPtr' = FrameEnd(callers', n - 1)
      BY <1>3, <2>1, <3>1
    <3>3. stackPtr' <= stackPtr
      <4>1. Size(f.method) \in Nat
        BY <2>2, SizeOfFrame DEF Layout, TypeOK
      <4>2. stackPtr' = f.base
        BY <1>3, <2>1
      <4> QED BY <4>1, <4>2, <2>1
    <3>4. \A d \in 1 .. n - 1 :
            callers'[d].base = FrameEnd(callers', d - 1)
      <4> SUFFICES ASSUME NEW d \in 1 .. n - 1
                   PROVE  callers'[d].base = FrameEnd(callers', d - 1)
        OBVIOUS
      <4>1. d \in DOMAIN callers /\ d - 1 \in 0 .. n - 1
        BY <2>1, LenProperties DEF Layout, TypeOK, n
      <4> QED BY <4>1, <2>3, <3>1 DEF Layout, StackLayout
    <3>5. stackPtr' <= stackPeak'
      BY <1>3, <2>1, <2>5, <3>3 DEF Layout, TypeOK, StackLayout
    <3>6. stackPeak' = 0 \/ stackPeak' < STACK_SIZE
      BY <1>3 DEF Layout, StackLayout
    <3> QED BY <2>3, <3>2, <3>4, <3>5, <3>6 DEF StackLayout
  <2> QED BY <2>5, <2>6 DEF Layout
<1> QED BY <1>1, <1>2, <1>3 DEF Finish

LEMMA LayoutOfSimple ==
  ASSUME Layout, Simple
  PROVE  Layout'
<1> PICK o \in OwnVars(currentMethod) \cup Values :
      \/ \E xs \in Targets \ {<<>>} : Assign(o, xs) \/ Cast(o, xs)
      \/ \E clean \in BOOLEAN : Evaluate(o, clean)
  BY DEF Simple
<1>1. currentMethod \in Methods /\ value \in [Vars -> Words]
  BY DEF Layout, TypeOK
<1>2. /\ paramList \in Seq(Words \ {NULL}) /\ rtnList \in Seq(Words \ {NULL})
      /\ status \in {"running", "done"} \cup Errors
  BY DEF Layout, TypeOK
<1>3. Readable(<<o>>) => <<ValueIn(value, o)>> \in Seq(Words \ {NULL})
  BY <1>1, OneOperand
<1>4. ASSUME NEW xs \in Targets, Assign(o, xs) PROVE Layout'
  <2>1. CASE Die("not initialized") \/ Die("arity")
    BY <2>1, LayoutOfDie DEF Errors
  <2>2. CASE /\ Readable(<<o>>) /\ Len(xs) = 1
             /\ paramList' = <<ValueIn(value, o)>>
             /\ CheckRtns(xs, paramList')
             /\ UNCHANGED rtnList
    <3>1. Len(paramList') = Len(xs)
      BY <2>2
    <3> QED BY <2>2, <3>1, <1>2, <1>3, LayoutOfCheckRtns
  <2> QED BY <1>4, <2>1, <2>2 DEF Assign
<1>5. ASSUME NEW xs \in Targets, Cast(o, xs) PROVE Layout'
  <2>1. CASE Die("not initialized") \/ Die("arity")
    BY <2>1, LayoutOfDie DEF Errors
  <2>2. CASE /\ Readable(<<o>>) /\ Len(xs) = Len(rtnList)
             /\ paramList' = <<ValueIn(value, o)>>
             /\ CheckRtns(xs, rtnList)
             /\ UNCHANGED rtnList
    BY <2>2, <1>2, <1>3, LayoutOfCheckRtns
  <2> QED BY <1>5, <2>1, <2>2 DEF Cast
<1>6. ASSUME NEW clean \in BOOLEAN, Evaluate(o, clean) PROVE Layout'
  <2>1. CASE Die("not initialized")
    BY <2>1, LayoutOfDie DEF Errors
  <2>2. CASE /\ Readable(<<o>>)
             /\ paramList' = (IF clean THEN <<>> ELSE paramList)
                               \o <<ValueIn(value, o)>>
             /\ UNCHANGED <<value, stack, rtnList, status, unset>>
    <3>1. paramList' \in Seq(Words \ {NULL})
      BY <2>2, <1>2, <1>3, EmptySeq, ConcatProperties
    <3> QED BY <3>1, <2>2, <1>2, LayoutOfUnchanged
  <2> QED BY <1>6, <2>1, <2>2 DEF Evaluate
<1> QED BY <1>4, <1>5, <1>6

LEMMA LayoutOfCalls ==
  ASSUME Layout, Calls
  PROVE  Layout'
<1> PICK ops \in OperandLists(currentMethod) :
      \/ \E r \in Values : CallBuiltin(ops, r)
      \/ \E m \in Methods : Invoke(m, ops)
  BY DEF Calls
<1>1. ASSUME NEW r \in Values, CallBuiltin(ops, r) PROVE Layout'
  <2>1. CASE Die("not initialized") \/ Die("arity")
    BY <2>1, LayoutOfDie DEF Errors
  <2>2. ASSUME Readable(ops), paramList' = ValuesIn(value, ops), rtnList' = <<r>>,
               NEW xs \in Targets, Len(xs) <= 1, CheckRtns(xs, rtnList')
        PROVE  Layout'
    <3>1. paramList' \in Seq(Words \ {NULL})
      BY <2>2, OperandValues DEF Layout, TypeOK
    <3>2. rtnList' \in Seq(Words \ {NULL}) /\ Len(rtnList') = 1
      BY <2>2, NamesAssumption DEF NamesAssumption, Words
    <3>3. Len(xs) \in Nat
      BY ListsAreSequences DEF Targets, TargetLists
    <3>4. CASE Len(xs) = 1
      BY <2>2, <3>1, <3>2, <3>4, LayoutOfCheckRtns
    <3>5. CASE Len(xs) = 0
      <4>1. xs = <<>>
        BY <3>5, ListsAreSequences, EmptySeq DEF Targets, TargetLists
      <4>2. value' = value /\ unset' = unset
        BY <2>2, <4>1 DEF CheckRtns, Bound, Range, Layout, TypeOK
      <4> QED BY <2>2, <3>1, <3>2, <4>2, LayoutOfUnchanged
              DEF CheckRtns, Layout, TypeOK
    <3> QED BY <3>3, <3>4, <3>5, <2>2
  <2> QED BY <1>1, <2>1, <2>2 DEF CallBuiltin
<1> QED BY <1>1, LayoutOfInvoke

LEMMA LayoutOfReturns ==
  ASSUME Layout, status = "running", Returns
  PROVE  Layout'
<1>1. CASE FallOff
  BY <1>1, LayoutOfFinish DEF FallOff, Layout, TypeOK
<1>2. ASSUME NEW ops \in OperandLists(currentMethod), Return(ops) PROVE Layout'
  <2>1. CASE Die("not initialized") \/ Die("null dereference")
    BY <2>1, LayoutOfDie DEF Errors
  <2>2. CASE Readable(ops) /\ Finish(ValuesIn(value, ops))
    BY <2>2, OperandValues, LayoutOfFinish DEF Layout, TypeOK
  <2> QED BY <1>2, <2>1, <2>2 DEF Return
<1> QED BY <1>1, <1>2 DEF Returns

THEOREM LayoutInvariant == Spec => []Layout
<1>1. Init => Layout
  <2> SUFFICES ASSUME Init PROVE Layout
    OBVIOUS
  <2>1. Malloced \subseteq Words
    BY StackAssumption DEF StackAssumption, Words
  <2>2. TypeOK
    BY <2>1, MethodLists, ProgramAssumption, EmptySeq
       DEF Init, TypeOK, ProgramAssumption
  <2>3. StackLayout
    BY DEF Init, StackLayout, FrameEnd
  <2> QED BY <2>2, <2>3 DEF Layout
<1>2. Layout /\ [Next]_vars => Layout'
  <2> SUFFICES ASSUME Layout, [Next]_vars PROVE Layout'
    OBVIOUS
  <2>1. CASE Simple
    BY <2>1, LayoutOfSimple
  <2>2. CASE Calls
    BY <2>2, LayoutOfCalls
  <2>3. CASE Returns /\ status = "running"
    BY <2>3, LayoutOfReturns
  <2>4. CASE UNCHANGED vars
    BY <2>4, LayoutOfUnchanged DEF vars, lists, Layout, TypeOK
  <2> QED BY <2>1, <2>2, <2>3, <2>4 DEF Next
<1> QED BY <1>1, <1>2, PTL DEF Spec

\* Every reachable state is well typed; in particular no null word gets into
\* the lists of operands and results (runName, line 425).
THEOREM TypesHold == Spec => []TypeOK
<1>1. Layout => TypeOK
  BY DEF Layout
<1> QED BY <1>1, LayoutInvariant, PTL

\* runStack holds the frames of the suspended invocations and nothing else,
\* inside its bounds (lines 206-248 and 598-619).
THEOREM StackLayoutHolds == Spec => []StackLayout
<1>1. Layout => StackLayout
  BY DEF Layout
<1> QED BY <1>1, LayoutInvariant, PTL

----------------------------------------------------------------------------
(* What the stack gives back is what it was given.                         *)

\* The slot of a variable in the frame of its method: the parameters come
\* first, then the locals.
LEMMA SlotOfVariable ==
  ASSUME NEW m \in Methods
  PROVE  /\ \A v \in Range(ParamVars[m]) :
              Slot(m, v) = Position(ParamVars[m], v) - 1
         /\ \A v \in Range(LocalVars[m]) :
              Slot(m, v) = Len(ParamVars[m]) + Position(LocalVars[m], v) - 1
         /\ Range(ParamVars[m]) \cap Range(LocalVars[m]) = {}
<1> DEFINE P == ParamVars[m]
           L == LocalVars[m]
<1>1. /\ P \in Seq(Vars) /\ L \in Seq(Vars) /\ P \o L \in Seq(Vars)
      /\ Len(P) \in Nat /\ Len(L) \in Nat /\ Len(P \o L) = Len(P) + Len(L)
      /\ DOMAIN (P \o L) = 1 .. Len(P) + Len(L)
      /\ \A i \in 1 .. Len(P) : (P \o L)[i] = P[i]
      /\ \A i \in 1 .. Len(L) : (P \o L)[Len(P) + i] = L[i]
  <2>1. P \in Seq(Vars) /\ L \in Seq(Vars)
    BY MethodLists
  <2> HIDE DEF P, L
  <2>2. Len(P) \in Nat /\ Len(L) \in Nat
    BY <2>1, LenProperties
  <2>3. /\ P \o L \in Seq(Vars) /\ Len(P \o L) = Len(P) + Len(L)
        /\ \A i \in 1 .. Len(P) + Len(L) :
             (P \o L)[i] = IF i <= Len(P) THEN P[i] ELSE L[i - Len(P)]
    BY <2>1, ConcatProperties
  <2>4. DOMAIN (P \o L) = 1 .. Len(P) + Len(L)
    BY <2>3, LenProperties
  <2>5. \A i \in 1 .. Len(P) : (P \o L)[i] = P[i]
    BY <2>2, <2>3
  <2>6. \A i \in 1 .. Len(L) : (P \o L)[Len(P) + i] = L[i]
    <3> SUFFICES ASSUME NEW i \in 1 .. Len(L)
                 PROVE  (P \o L)[Len(P) + i] = L[i]
      OBVIOUS
    <3>1. /\ Len(P) + i \in 1 .. Len(P) + Len(L)
          /\ ~ (Len(P) + i <= Len(P)) /\ (Len(P) + i) - Len(P) = i
      BY <2>2
    <3> QED BY <3>1, <2>3
  <2> QED BY <2>1, <2>2, <2>3, <2>4, <2>5, <2>6
<1>2. \A i, j \in 1 .. Len(P) + Len(L) :
        AllVars(m)[i] = AllVars(m)[j] => i = j
  BY <1>1, ProgramAssumption DEF ProgramAssumption, IsInjective, AllVars
<1>3. ASSUME NEW v, NEW k \in 1 .. Len(P) + Len(L), AllVars(m)[k] = v
      PROVE  Slot(m, v) = k - 1
  <2>1. /\ Position(AllVars(m), v) \in 1 .. Len(P) + Len(L)
        /\ AllVars(m)[Position(AllVars(m), v)] = v
    BY <1>3, <1>1 DEF Position, AllVars
  <2> QED BY <2>1, <1>2, <1>3 DEF Slot
<1>4. ASSUME NEW v \in Range(P) PROVE Slot(m, v) = Position(P, v) - 1
  <2>1. Position(P, v) \in 1 .. Len(P) /\ P[Position(P, v)] = v
    BY <1>1, PositionIsPosition
  <2>2. AllVars(m)[Position(P, v)] = v
    BY <2>1, <1>1 DEF AllVars
  <2> HIDE DEF P, L
  <2>3. Position(P, v) \in 1 .. Len(P) + Len(L)
    BY <2>1, <1>1
  <2> QED BY <2>2, <2>3, <1>3
<1>5. ASSUME NEW v \in Range(L)
      PROVE  Slot(m, v) = Len(P) + Position(L, v) - 1
  <2>1. Position(L, v) \in 1 .. Len(L) /\ L[Position(L, v)] = v
    BY <1>1, PositionIsPosition
  <2>2. PICK k : k = Len(P) + Position(L, v)
    OBVIOUS
  <2>3. AllVars(m)[k] = v
    BY <2>1, <2>2, <1>1 DEF AllVars
  <2> HIDE DEF P, L
  <2>4. k \in 1 .. Len(P) + Len(L)
    BY <2>1, <2>2, <1>1
  <2>5. Slot(m, v) = k - 1
    BY <2>3, <2>4, <1>3
  <2> QED BY <1>1, <2>1, <2>2, <2>4, <2>5
<1>6. ASSUME NEW v \in Range(P), v \in Range(L) PROVE FALSE
  <2>1. Position(P, v) \in 1 .. Len(P) /\ Position(L, v) \in 1 .. Len(L)
    BY <1>1, <1>6, PositionIsPosition
  <2>2. Position(P, v) - 1 = Len(P) + Position(L, v) - 1
    BY <1>4, <1>5, <1>6
  <2> HIDE DEF P, L
  <2> QED BY <2>1, <2>2, <1>1
<1> QED BY <1>4, <1>5, <1>6

LEMMA SlotInFrame ==
  ASSUME NEW m \in Methods, NEW v \in OwnVars(m)
  PROVE  Slot(m, v) \in 0 .. Size(m) - 1
<1> DEFINE P == ParamVars[m]
           L == LocalVars[m]
<1>1. /\ P \in Seq(Vars) /\ L \in Seq(Vars)
      /\ Len(P) \in Nat /\ Len(L) \in Nat /\ Size(m) = Len(P) + Len(L)
  BY MethodLists DEF Size
<1>2. \/ v \in Range(P) /\ Slot(m, v) = Position(P, v) - 1
      \/ v \in Range(L) /\ Slot(m, v) = Len(P) + Position(L, v) - 1
  BY SlotOfVariable DEF OwnVars
<1>3. /\ v \in Range(P) => Position(P, v) \in 1 .. Len(P)
      /\ v \in Range(L) => Position(L, v) \in 1 .. Len(L)
  BY <1>1, PositionIsPosition
<1> HIDE DEF P, L
<1> QED BY <1>1, <1>2, <1>3

\* A save stores every variable of the method in its slot of the new frame,
\* and leaves the frames below alone.
LEMMA SavedCells ==
  ASSUME runStack \in [Cells -> Words], stackPtr \in Nat, NEW m \in Methods,
         SaveFits(m), SaveToStack(m)
  PROVE  /\ \A v \in OwnVars(m) : runStack'[stackPtr + Slot(m, v)] = value[v]
         /\ \A c \in Cells : c < stackPtr => runStack'[c] = runStack[c]
<1> DEFINE P == ParamVars[m]
           L == LocalVars[m]
           p == stackPtr + Len(P)
           first == SaveSub(P, runStack, stackPtr)
<1>1. /\ P \in Seq(Vars) /\ L \in Seq(Vars)
      /\ Len(P) \in Nat /\ Len(L) \in Nat /\ p \in Nat
  BY MethodLists
<1>2. first = [c \in Cells |-> IF c \in stackPtr .. stackPtr + Len(P) - 1
                               THEN value[P[c - stackPtr + 1]] ELSE runStack[c]]
  BY DEF SaveSub
<1>3. runStack' = [c \in Cells |-> IF c \in p .. p + Len(L) - 1
                                   THEN value[L[c - p + 1]] ELSE first[c]]
  BY <1>2 DEF SaveToStack, SaveSub
<1>4. /\ Len(P) = 0 \/ stackPtr + Len(P) < STACK_SIZE
      /\ Len(L) = 0 \/ stackPtr + Len(P) + Len(L) < STACK_SIZE
      /\ STACK_SIZE \in Nat
  BY StackAssumption DEF SaveFits, Fits, StackAssumption
<1>5. ASSUME NEW v \in Range(P)
      PROVE  runStack'[stackPtr + Slot(m, v)] = value[v]
  <2> DEFINE i == Position(P, v)
             c == stackPtr + i - 1
  <2>1. i \in 1 .. Len(P) /\ P[i] = v
    BY <1>1, PositionIsPosition
  <2>2. stackPtr + Slot(m, v) = c
    BY <2>1, SlotOfVariable
  <2>3. /\ c \in stackPtr .. stackPtr + Len(P) - 1 /\ c - stackPtr + 1 = i
        /\ c \notin p .. p + Len(L) - 1 /\ c \in Cells
    <3> HIDE DEF P, L, i
    <3> QED BY <2>1, <1>1, <1>4 DEF Cells
  <2>4. first[c] = value[v]
    BY <2>1, <2>3, <1>2
  <2> HIDE DEF first, c, p
  <2> QED BY <2>2, <2>3, <2>4, <1>3
<1>6. ASSUME NEW v \in Range(L)
      PROVE  runStack'[stackPtr + Slot(m, v)] = value[v]
  <2> DEFINE i == Position(L, v)
             c == p + i - 1
  <2>1. i \in 1 .. Len(L) /\ L[i] = v
    BY <1>1, PositionIsPosition
  <2>2. stackPtr + Slot(m, v) = c
    BY <2>1, <1>1, SlotOfVariable
  <2>3. c \in p .. p + Len(L) - 1 /\ c - p + 1 = i /\ c \in Cells
    <3> HIDE DEF P, L, i
    <3> QED BY <2>1, <1>1, <1>4 DEF Cells
  <2> HIDE DEF first, c, p
  <2> QED BY <2>1, <2>2, <2>3, <1>3
<1>7. ASSUME NEW c \in Cells, c < stackPtr
      PROVE  runStack'[c] = runStack[c]
  <2>1. /\ c \notin stackPtr .. stackPtr + Len(P) - 1
        /\ c \notin p .. p + Len(L) - 1
    BY <1>1, <1>4, <1>7 DEF Cells
  <2> HIDE DEF first, p
  <2> QED BY <2>1, <1>2, <1>3
<1> QED BY <1>5, <1>6, <1>7 DEF OwnVars

\* A load gives every variable of the method the word in its slot.
LEMMA LoadedVars ==
  ASSUME value \in [Vars -> Words], stackPtr \in Nat, NEW m \in Methods,
         NEW v \in OwnVars(m)
  PROVE  LoadFromStack(m)[v] = runStack[LoadPtr(m) + Slot(m, v)]
<1> DEFINE P == ParamVars[m]
           L == LocalVars[m]
           inner == LoadSub(L, value, stackPtr - Len(L))
<1>1. /\ P \in Seq(Vars) /\ L \in Seq(Vars) /\ v \in Vars
      /\ Len(P) \in Nat /\ Len(L) \in Nat
  BY MethodLists
<1>2. LoadPtr(m) = stackPtr - Len(L) - Len(P)
  BY DEF LoadPtr
<1>3. inner = [w \in Vars |->
                 IF w \in Range(L)
                 THEN runStack[(stackPtr - Len(L)) + Position(L, w) - 1]
                 ELSE value[w]]
  BY DEF LoadSub
<1>4. LoadFromStack(m) = [w \in Vars |->
                            IF w \in Range(P)
                            THEN runStack[LoadPtr(m) + Position(P, w) - 1]
                            ELSE inner[w]]
  BY <1>3 DEF LoadFromStack, LoadSub
<1> HIDE DEF inner
<1>5. CASE v \in Range(P)
  <2>1. LoadFromStack(m)[v] = runStack[LoadPtr(m) + Position(P, v) - 1]
    BY <1>1, <1>4, <1>5
  <2>2. Position(P, v) \in 1 .. Len(P) /\ Slot(m, v) = Position(P, v) - 1
    BY <1>1, <1>5, PositionIsPosition, SlotOfVariable
  <2>3. LoadPtr(m) + Position(P, v) - 1 = LoadPtr(m) + Slot(m, v)
    BY <2>2, <1>1, <1>2
  <2> QED BY <2>1, <2>3
<1>6. CASE v \in Range(L)
  <2>1. v \notin Range(P)
    BY <1>6, SlotOfVariable
  <2>2. LoadFromStack(m)[v] = runStack[(stackPtr - Len(L)) + Position(L, v) - 1]
    BY <1>1, <1>3, <1>4, <1>6, <2>1
  <2>3. /\ Position(L, v) \in 1 .. Len(L)
        /\ Slot(m, v) = Len(P) + Position(L, v) - 1
    BY <1>1, <1>6, PositionIsPosition, SlotOfVariable
  <2>4. (stackPtr - Len(L)) + Position(L, v) - 1 = LoadPtr(m) + Slot(m, v)
    <3> HIDE DEF P, L
    <3> QED BY <2>3, <1>1, <1>2
  <2> QED BY <2>2, <2>4
<1> QED BY <1>5, <1>6 DEF OwnVars

\* No frame reaches above the stack pointer.
LEMMA FramesBelowStackPtr ==
  ASSUME Layout
  PROVE  \A d \in 0 .. Len(callers) : FrameEnd(callers, d) <= stackPtr
<1> DEFINE n == Len(callers)
           T == {k \in 0 .. n : FrameEnd(callers, n - k) > stackPtr}
<1>1. /\ callers \in Seq(Frames) /\ n \in Nat /\ DOMAIN callers = 1 .. n
      /\ stackPtr \in Nat
  BY LenProperties DEF Layout, TypeOK
<1>2. ASSUME NEW d \in 1 .. n
      PROVE  /\ callers[d].base \in Nat /\ Size(callers[d].method) \in Nat
             /\ callers[d].base = FrameEnd(callers, d - 1)
             /\ FrameEnd(callers, d) = callers[d].base + Size(callers[d].method)
  <2>1. callers[d] \in Frames
    BY <1>1, ElementOfSeq
  <2>2. callers[d].base \in Nat /\ callers[d].method \in Methods
    BY <2>1 DEF Frames
  <2>3. Size(callers[d].method) \in Nat
    BY <1>1, <2>2, SizeOfFrame
  <2>4. callers[d].base = FrameEnd(callers, d - 1)
    BY <1>1 DEF Layout, StackLayout
  <2>5. d # 0
    BY <1>1
  <2> QED BY <2>2, <2>3, <2>4, <2>5 DEF FrameEnd
<1>3. \A d \in 0 .. n : FrameEnd(callers, d) \in Nat
  <2> SUFFICES ASSUME NEW d \in 0 .. n, d # 0
               PROVE  FrameEnd(callers, d) \in Nat
    BY DEF FrameEnd
  <2>1. d \in 1 .. n
    BY <1>1
  <2>2. FrameEnd(callers, d) = callers[d].base + Size(callers[d].method)
    BY <2>1, <1>2
  <2>3. callers[d].base \in Nat /\ Size(callers[d].method) \in Nat
    BY <2>1, <1>2
  <2> QED BY <2>2, <2>3
<1>4. T = {}
  <2> SUFFICES ASSUME T # {} PROVE FALSE
    OBVIOUS
  <2>1. PICK k \in T : \A j \in T : k <= j
    <3>1. T \subseteq Nat
      BY <1>1
    <3> HIDE DEF T
    <3> QED BY <3>1, LeastNatural
  <2> HIDE DEF n
  <2>2. k \in 0 .. n /\ FrameEnd(callers, n - k) > stackPtr
    OBVIOUS
  <2>3. k # 0
    <3>1. FrameEnd(callers, n) = stackPtr
      BY DEF Layout, StackLayout, n
    <3> SUFFICES ASSUME k = 0 PROVE FALSE
      OBVIOUS
    <3>2. n - k = n
      BY <1>1
    <3> QED BY <3>1, <3>2, <2>2, <1>1
  <2> DEFINE d == n - k + 1
  <2>4. d \in 1 .. n /\ d - 1 = n - k /\ k - 1 \in 0 .. n /\ n - (k - 1) = d
    BY <2>2, <2>3, <1>1
  <2> HIDE DEF d
  <2>5. FrameEnd(callers, d) >= FrameEnd(callers, d - 1)
    BY <2>4, <1>2
  <2>6. FrameEnd(callers, d) > stackPtr
    <3>1. FrameEnd(callers, d) \in Nat /\ FrameEnd(callers, d - 1) \in Nat
      BY <2>4, <1>1, <1>3
    <3> QED BY <3>1, <2>2, <2>4, <2>5, <1>1
  <2>7. k - 1 \in T
    BY <2>4, <2>6
  <2> QED BY <2>1, <2>7, <2>2
<1>5. ASSUME NEW d \in 0 .. n PROVE FrameEnd(callers, d) <= stackPtr
  <2>1. n - d \notin T
    BY <1>4
  <2> HIDE DEF n
  <2>2. n - d \in 0 .. n /\ n - (n - d) = d
    BY <1>1
  <2>3. ~ (FrameEnd(callers, d) > stackPtr)
    BY <2>1, <2>2
  <2> QED BY <2>3, <1>1, <1>3
<1> QED BY <1>5

\* A save leaves the words of every suspended invocation as they are.
LEMMA SuspendedKept ==
  ASSUME Layout, SaveFits(currentMethod), SaveToStack(currentMethod),
         NEW d \in DOMAIN callers
  PROVE  SavedEnv(runStack', callers[d]) = SavedEnv(runStack, callers[d])
<1> DEFINE f == callers[d]
<1>1. /\ callers \in Seq(Frames) /\ DOMAIN callers = 1 .. Len(callers)
      /\ Len(callers) \in Nat
      /\ stackPtr \in Nat /\ STACK_SIZE \in Nat /\ currentMethod \in Methods
      /\ runStack \in [Cells -> Words]
      /\ stackPeak \in Nat /\ stackPtr <= stackPeak
      /\ stackPeak = 0 \/ stackPeak < STACK_SIZE
  BY LenProperties, StackAssumption
     DEF Layout, TypeOK, StackLayout, StackAssumption
<1>2. f \in Frames
  BY <1>1, ElementOfSeq
<1>3. f.base \in Nat /\ f.method \in Methods
  BY <1>2 DEF Frames
<1>4. f.base + Size(f.method) <= stackPtr
  <2>1. d \in 0 .. Len(callers) /\ d # 0
    BY <1>1
  <2> QED BY <2>1, FramesBelowStackPtr DEF FrameEnd
<1> HIDE DEF f
<1>5. ASSUME NEW v \in OwnVars(f.method)
      PROVE  runStack'[f.base + Slot(f.method, v)]
               = runStack[f.base + Slot(f.method, v)]
  <2>1. PICK c : c = f.base + Slot(f.method, v)
    OBVIOUS
  <2>2. Slot(f.method, v) \in 0 .. Size(f.method) - 1
    BY <1>3, SlotInFrame
  <2>3. Size(f.method) \in Nat
    BY <1>1, <1>3, SizeOfFrame
  <2>4. c \in Cells /\ c < stackPtr
    BY <2>1, <2>2, <2>3, <1>1, <1>3, <1>4 DEF Cells
  <2> QED BY <2>1, <2>4, <1>1, SavedCells
<1> QED BY <1>5 DEF SavedEnv, f

----------------------------------------------------------------------------
(* A variable that an invocation has assigned stays readable.              *)

Readability == Layout /\ AssignedStaysReadable

LEMMA ReadabilityOfUnchanged ==
  ASSUME Readability, UNCHANGED <<value, stack, unset>>, Layout'
  PROVE  Readability'
BY DEF Readability, AssignedStaysReadable, stack, SavedEnv

\* Binding non-null results makes the targets readable and no other variable
\* unreadable.
LEMMA BoundReadable ==
  ASSUME NEW env \in [Vars -> Words], NEW S, NEW xs \in Seq(S),
         NEW results \in Seq(Words \ {NULL}),
         xs = <<>> \/ Len(xs) = Len(results),
         NEW U, NEW V \in SUBSET Vars, \A v \in V \ U : env[v] # NULL
  PROVE  \A v \in V \ (U \ Range(xs)) : Bound(env, xs, results)[v] # NULL
<1> SUFFICES ASSUME NEW v \in V \ (U \ Range(xs))
             PROVE  Bound(env, xs, results)[v] # NULL
  OBVIOUS
<1>1. CASE v \notin Range(xs)
  BY <1>1 DEF Bound
<1>2. CASE v \in Range(xs)
  <2>1. xs # <<>>
    BY <1>2 DEF Range
  <2>2. LastPosition(xs, v) \in 1 .. Len(results)
    BY <1>2, <2>1, LastPositionIsPosition
  <2>3. results[LastPosition(xs, v)] # NULL
    BY <2>2, ElementOfSeq
  <2> QED BY <1>2, <2>3 DEF Bound
<1> QED BY <1>1, <1>2

LEMMA ReadabilityOfCheckRtns ==
  ASSUME Readability, NEW xs \in Targets, NEW results \in Seq(Words \ {NULL}),
         xs = <<>> \/ Len(xs) = Len(results), CheckRtns(xs, results), Layout'
  PROVE  Readability'
<1>1. xs \in Seq(OwnVars(currentMethod) \cup {Underscore})
  BY ListsAreSequences DEF Targets, TargetLists
<1>2. /\ value \in [Vars -> Words] /\ OwnVars(currentMethod) \subseteq Vars
      /\ \A v \in OwnVars(currentMethod) \ unset : value[v] # NULL
  BY MethodLists DEF Readability, Layout, TypeOK, AssignedStaysReadable
<1>3. \A v \in OwnVars(currentMethod) \ unset' : value'[v] # NULL
  BY <1>1, <1>2, BoundReadable DEF CheckRtns
<1> QED BY <1>3 DEF CheckRtns, Readability, AssignedStaysReadable, stack

LEMMA ReadabilityOfInvoke ==
  ASSUME Readability, NEW m \in Methods,
         NEW ops \in OperandLists(currentMethod), Invoke(m, ops), Layout'
  PROVE  Readability'
<1>1. CASE \E e \in Errors : Die(e)
  BY <1>1, ReadabilityOfUnchanged DEF Die
<1>2. CASE /\ Readable(ops) /\ SaveFits(currentMethod)
           /\ Len(ops) >= Len(ParamVars[m])
           /\ SaveToStack(currentMethod)
           /\ paramList' = ValuesIn(value, ops)
           /\ value' = LoadParams(m, paramList')
           /\ currentMethod' = m
           /\ \E xs \in Targets :
                callers' = Append(callers,
                                  Frame(currentMethod, xs, stackPtr, unset))
           /\ unset' = Range(LocalVars[m])
  <2>1. /\ currentMethod \in Methods /\ value \in [Vars -> Words]
        /\ runStack \in [Cells -> Words] /\ stackPtr \in Nat
        /\ callers \in Seq(Frames) /\ unset \subseteq Vars
    BY DEF Readability, Layout, TypeOK
  <2>2. paramList' \in Seq(Words \ {NULL}) /\ Len(paramList') = Len(ops)
    BY <1>2, <2>1, OperandValues
  <2>3. \A v \in OwnVars(m) \ unset' : value'[v] # NULL
    <3>1. OwnVars(m) \ unset' \subseteq Range(ParamVars[m])
      BY <1>2 DEF OwnVars
    <3>2. Len(paramList') >= Len(ParamVars[m])
      BY <1>2, <2>2
    <3>3. \A v \in Range(ParamVars[m]) :
            LoadParams(m, paramList')[v] \in Words \ {NULL}
      BY <3>2, <2>1, <2>2, LoadParamsType
    <3> QED BY <3>1, <3>3, <1>2
  <2>4. PICK xs \in Targets :
          callers' = Append(callers, Frame(currentMethod, xs, stackPtr, unset))
    BY <1>2
  <2> DEFINE n == Len(callers)
             f == Frame(currentMethod, xs, stackPtr, unset)
  <2>5. /\ n \in Nat /\ DOMAIN callers = 1 .. n /\ DOMAIN callers' = 1 .. n + 1
        /\ \A d \in 1 .. n : callers'[d] = callers[d]
        /\ callers'[n + 1] = f
    <3>1. xs \in Seq(OwnVars(currentMethod) \cup {Underscore})
      BY ListsAreSequences DEF Targets, TargetLists
    <3>2. xs \in Seq(Vars \cup {Underscore})
      BY <3>1, <2>1, MethodLists
    <3>3. f \in Frames
      BY <3>2, <2>1 DEF Frame, Frames
    <3> QED BY <3>3, <2>1, <2>4, Pushed
  <2>6. f.method = currentMethod /\ f.base = stackPtr /\ f.unset = unset
    BY DEF Frame
  <2> HIDE DEF f, n
  <2>7. \A v \in OwnVars(f.method) \ f.unset : SavedEnv(runStack', f)[v] # NULL
    <3> SUFFICES ASSUME NEW v \in OwnVars(f.method) \ f.unset
                 PROVE  SavedEnv(runStack', f)[v] # NULL
      OBVIOUS
    <3>1. runStack'[f.base + Slot(f.method, v)] = value[v]
      BY <1>2, <2>1, <2>6, SavedCells
    <3>2. value[v] # NULL
      BY <2>6 DEF Readability, AssignedStaysReadable
    <3> QED BY <3>1, <3>2 DEF SavedEnv
  <2>8. ASSUME NEW d \in 1 .. n
        PROVE  \A v \in OwnVars(callers[d].method) \ callers[d].unset :
                 SavedEnv(runStack', callers[d])[v] # NULL
    <3>1. SavedEnv(runStack', callers[d]) = SavedEnv(runStack, callers[d])
      BY <1>2, <2>5, SuspendedKept DEF Readability
    <3> QED BY <3>1, <2>5 DEF Readability, AssignedStaysReadable
  <2>9. \A d \in DOMAIN callers' :
          \A v \in OwnVars(callers'[d].method) \ callers'[d].unset :
            SavedEnv(runStack', callers'[d])[v] # NULL
    <3> SUFFICES ASSUME NEW d \in 1 .. n + 1
                 PROVE  \A v \in OwnVars(callers'[d].method) \ callers'[d].unset :
                          SavedEnv(runStack', callers'[d])[v] # NULL
      BY <2>5
    <3>1. CASE d = n + 1
      BY <3>1, <2>5, <2>7
    <3>2. CASE d \in 1 .. n
      BY <3>2, <2>5, <2>8
    <3> QED BY <3>1, <3>2, <2>5
  <2> QED BY <1>2, <2>3, <2>9 DEF Readability, AssignedStaysReadable
<1> QED BY <1>1, <1>2 DEF Invoke, Errors

LEMMA ReadabilityOfFinish ==
  ASSUME Readability, NEW results \in Seq(Words \ {NULL}), Finish(results),
         Layout'
  PROVE  Readability'
<1> DEFINE n == Len(callers)
           f == callers[n]
<1>1. CASE callers = <<>> \/ Die("arity")
  BY <1>1, ReadabilityOfUnchanged DEF Finish, Die, stack
<1>2. CASE /\ callers # <<>>
           /\ f.targets = <<>> \/ Len(f.targets) = Len(results)
           /\ value' = Bound(LoadFromStack(f.method), f.targets, results)
           /\ currentMethod' = f.method
           /\ callers' = SubSeq(callers, 1, n - 1)
           /\ unset' = f.unset \ Range(f.targets)
           /\ UNCHANGED <<runStack, stackPeak, status>>
  <2>1. /\ n \in Nat \ {0} /\ f \in Frames /\ n \in DOMAIN callers
        /\ f.base = LoadPtr(f.method) /\ f.base \in Nat
        /\ stackPtr = f.base + Size(f.method) /\ stackPtr <= STACK_SIZE
    BY <1>2, LastFrame DEF Readability
  <2>2. /\ f.method \in Methods /\ f.targets \in Seq(Vars \cup {Underscore})
        /\ f.unset \subseteq Vars
    BY <2>1 DEF Frames
  <2>3. /\ DOMAIN callers' = 1 .. n - 1
        /\ \A d \in 1 .. n - 1 : callers'[d] = callers[d]
    BY <1>2, Popped DEF Readability, Layout, TypeOK
  <2>4. \A v \in OwnVars(f.method) \ f.unset : SavedEnv(runStack, f)[v] # NULL
    BY <2>1 DEF Readability, AssignedStaysReadable
  <2>5. DOMAIN callers = 1 .. n
    BY LenProperties DEF Readability, Layout, TypeOK
  <2> HIDE DEF f, n
  <2>6. LoadFromStack(f.method) \in [Vars -> Words]
    BY <2>1, <2>2, LoadedType DEF Readability
  <2>7. ASSUME NEW v \in OwnVars(f.method) \ f.unset
        PROVE  LoadFromStack(f.method)[v] # NULL
    <3>1. LoadFromStack(f.method)[v] = runStack[f.base + Slot(f.method, v)]
      BY <2>1, <2>2, LoadedVars DEF Readability, Layout, TypeOK
    <3> QED BY <3>1, <2>4 DEF SavedEnv
  <2>8. \A v \in OwnVars(f.method) \ unset' : value'[v] # NULL
    <3>1. OwnVars(f.method) \subseteq Vars
      BY <2>2, MethodLists
    <3> QED BY <3>1, <1>2, <2>2, <2>6, <2>7, BoundReadable
  <2>9. \A d \in DOMAIN callers' :
          \A v \in OwnVars(callers'[d].method) \ callers'[d].unset :
            SavedEnv(runStack', callers'[d])[v] # NULL
    <3> SUFFICES ASSUME NEW d \in 1 .. n - 1
                 PROVE  \A v \in OwnVars(callers'[d].method) \ callers'[d].unset :
                          SavedEnv(runStack', callers'[d])[v] # NULL
      BY <2>3
    <3>1. d \in DOMAIN callers /\ callers'[d] = callers[d]
      BY <2>1, <2>3, <2>5
    <3>2. runStack' = runStack
      BY <1>2
    <3> QED BY <3>1, <3>2 DEF Readability, AssignedStaysReadable
  <2> QED BY <1>2, <2>8, <2>9 DEF Readability, AssignedStaysReadable
<1> QED BY <1>1, <1>2 DEF Finish

\* A variable that an invocation has assigned or got as a parameter can be read
\* for the rest of that invocation, whatever it calls in between.
THEOREM AssignedReadable == Spec => []AssignedStaysReadable
<1>1. Init /\ Layout => Readability
  BY DEF Init, Readability, AssignedStaysReadable
<1>2. Readability /\ Layout' /\ [Next]_vars => Readability'
  <2> SUFFICES ASSUME Readability, Layout', [Next]_vars PROVE Readability'
    OBVIOUS
  <2>1. /\ currentMethod \in Methods /\ value \in [Vars -> Words]
        /\ paramList \in Seq(Words \ {NULL}) /\ rtnList \in Seq(Words \ {NULL})
        /\ paramList' \in Seq(Words \ {NULL}) /\ rtnList' \in Seq(Words \ {NULL})
    BY DEF Readability, Layout, TypeOK
  <2>2. ASSUME NEW e, Die(e) PROVE Readability'
    BY <2>2, ReadabilityOfUnchanged DEF Die
  <2>3. CASE Simple
    <3> PICK o \in OwnVars(currentMethod) \cup Values :
          \/ \E xs \in Targets \ {<<>>} : Assign(o, xs) \/ Cast(o, xs)
          \/ \E clean \in BOOLEAN : Evaluate(o, clean)
      BY <2>3 DEF Simple
    <3>1. ASSUME NEW xs \in Targets, Assign(o, xs) PROVE Readability'
      <4>1. CASE /\ Len(xs) = 1 /\ paramList' = <<ValueIn(value, o)>>
                 /\ CheckRtns(xs, paramList')
        <5>1. Len(xs) = Len(paramList')
          BY <4>1
        <5> QED BY <4>1, <5>1, <2>1, ReadabilityOfCheckRtns
      <4> QED BY <3>1, <4>1, <2>2 DEF Assign
    <3>2. ASSUME NEW xs \in Targets, Cast(o, xs) PROVE Readability'
      BY <3>2, <2>1, <2>2, ReadabilityOfCheckRtns DEF Cast
    <3>3. ASSUME NEW clean \in BOOLEAN, Evaluate(o, clean) PROVE Readability'
      BY <3>3, <2>2, ReadabilityOfUnchanged DEF Evaluate
    <3> QED BY <3>1, <3>2, <3>3
  <2>4. CASE Calls
    <3> PICK ops \in OperandLists(currentMethod) :
          \/ \E r \in Values : CallBuiltin(ops, r)
          \/ \E m \in Methods : Invoke(m, ops)
      BY <2>4 DEF Calls
    <3>1. ASSUME NEW r \in Values, CallBuiltin(ops, r) PROVE Readability'
      <4>1. ASSUME NEW xs \in Targets, Len(xs) <= 1, rtnList' = <<r>>,
                   CheckRtns(xs, rtnList')
            PROVE  Readability'
        <5>1. xs = <<>> \/ Len(xs) = Len(rtnList')
          BY <4>1, ListsAreSequences, EmptySeq DEF Targets, TargetLists
        <5> QED BY <4>1, <5>1, <2>1, ReadabilityOfCheckRtns
      <4> QED BY <3>1, <4>1, <2>2 DEF CallBuiltin
    <3> QED BY <3>1, ReadabilityOfInvoke
  <2>5. CASE Returns
    <3>1. ASSUME NEW ops \in OperandLists(currentMethod), Return(ops)
          PROVE  Readability'
      BY <3>1, <2>1, <2>2, OperandValues, ReadabilityOfFinish DEF Return
    <3> QED BY <3>1, <2>1, <2>5, ReadabilityOfFinish DEF Returns, FallOff
  <2>6. CASE UNCHANGED vars
    BY <2>6, ReadabilityOfUnchanged DEF vars
  <2> QED BY <2>3, <2>4, <2>5, <2>6 DEF Next
<1>3. Readability => AssignedStaysReadable
  BY DEF Readability
<1> QED BY <1>1, <1>2, <1>3, LayoutInvariant, PTL DEF Spec

----------------------------------------------------------------------------
(* The interpreter implements Activations: each invocation has variables  *)
(* of its own.                                                             *)

\* Besides the layout of the stack, the targets of a suspended call belong to
\* the method that made it, and operands stay within their bound.
Ownership ==
  /\ \A d \in DOMAIN callers : callers[d].targets \in TargetLists(callers[d].method)
  /\ Len(paramList) <= MaxArity
  /\ status = "done" => callers = <<>>

LEMMA ActsShape ==
  ASSUME Layout
  PROVE  /\ Len(callers) \in Nat
         /\ ActsOf \in Seq({ActsOf[d] : d \in 1 .. Len(callers) + 1})
         /\ Len(ActsOf) = Len(callers) + 1
         /\ DOMAIN ActsOf = 1 .. Len(callers) + 1
         /\ ActsOf[Len(callers) + 1] = Running
         /\ \A d \in 1 .. Len(callers) : ActsOf[d] = Suspended(runStack, callers[d])
         /\ DOMAIN callers = 1 .. Len(callers)
<1>1. Len(callers) \in Nat /\ DOMAIN callers = 1 .. Len(callers)
  BY LenProperties DEF Layout, TypeOK
<1>2. ActsOf = [d \in 1 .. Len(callers) + 1 |->
                  IF d <= Len(callers) THEN Suspended(runStack, callers[d]) ELSE Running]
  BY DEF ActsOf
<1>3. /\ ActsOf \in Seq({ActsOf[d] : d \in 1 .. Len(callers) + 1})
      /\ Len(ActsOf) = Len(callers) + 1
  BY <1>1, <1>2
<1> QED BY <1>1, <1>2, <1>3

\* The instance reads the program as CallStack does.
LEMMA SameProgram ==
  /\ A!Words = Words
  /\ \A m : A!OwnVars(m) = OwnVars(m)
  /\ \A m : A!TargetLists(m) = TargetLists(m) /\ A!OperandLists(m) = OperandLists(m)
  /\ \A S : A!ListsOver(S) = ListsOver(S)
<1>1. A!Words = Words /\ \A m : A!OwnVars(m) = OwnVars(m)
  BY DEF A!Words, Words, A!OwnVars, OwnVars, A!Range, Range
<1>2. \A S : A!ListsOver(S) = ListsOver(S)
  BY DEF A!ListsOver, ListsOver
<1> QED BY <1>1, <1>2
        DEF A!TargetLists, TargetLists, A!OperandLists, OperandLists

\* A run-time error.
LEMMA FailRefines ==
  ASSUME status = "running", NEW e \in Errors, Die(e)
  PROVE  A!Next
<1>1. ActsBar' = ActsBar
  BY DEF Die, ActsBar, ActsOf, Running, Suspended, SavedEnv, stack, Errors
<1>2. StatusBar' = "error" /\ StatusBar = "running"
  BY DEF Die, StatusBar, Errors
<1> QED BY <1>1, <1>2 DEF A!Next, A!Fail

\* A statement that changes nothing but the variables' cells and the lists.
LEMMA AssignRefines ==
  ASSUME Layout, status = "running", UNCHANGED <<stack, status>>,
         value' \in [Vars -> Words]
  PROVE  A!Next
<1> DEFINE n == Len(callers)
           env == [v \in OwnVars(currentMethod) |-> value'[v]]
<1>1. /\ n \in Nat /\ Len(ActsOf) = n + 1 /\ DOMAIN ActsOf = 1 .. n + 1
      /\ ActsOf[n + 1] = Running
      /\ \A d \in 1 .. n : ActsOf[d] = Suspended(runStack, callers[d])
  BY ActsShape
<1>2. ActsBar = ActsOf /\ ActsBar' = ActsOf' /\ StatusBar = "running"
      /\ StatusBar' = StatusBar
  BY DEF ActsBar, StatusBar, Errors
<1>3. env \in [OwnVars(currentMethod) -> Words]
  BY MethodLists DEF Layout, TypeOK
<1>4. ActsOf' = [d \in 1 .. n + 1 |->
                   IF d <= n THEN Suspended(runStack, callers[d])
                   ELSE A!Activation(currentMethod, env, <<>>)]
  BY DEF ActsOf, Running, Suspended, SavedEnv, stack, A!Activation
<1>5. ActsOf = [d \in 1 .. n + 1 |->
                  IF d <= n THEN Suspended(runStack, callers[d]) ELSE Running]
  BY DEF ActsOf
<1> HIDE DEF env, n
<1>6. ActsOf' = [ActsOf EXCEPT ![n + 1] = A!Activation(currentMethod, env, <<>>)]
  <2> DEFINE x == A!Activation(currentMethod, env, <<>>)
  <2> HIDE DEF x
  <2>1. ActsOf' = [d \in 1 .. n + 1 |-> IF d <= n THEN Suspended(runStack, callers[d]) ELSE x]
    BY <1>4 DEF x
  <2>2. \A d \in 1 .. n + 1 : d <= n <=> d # n + 1
    BY <1>1
  <2>3. [ActsOf EXCEPT ![n + 1] = x]
          = [d \in 1 .. n + 1 |-> IF d = n + 1 THEN x ELSE ActsOf[d]]
    BY <1>1, <1>5
  <2>4. ActsOf' = [ActsOf EXCEPT ![n + 1] = x]
    BY <2>1, <2>2, <2>3, <1>5
  <2> QED BY <2>4 DEF x
<1>7. Len(ActsOf') = n + 1
  BY <1>1, <1>4
<1>8. A!Top.method = currentMethod /\ A!Depth = n + 1
  BY <1>1, <1>2 DEF A!Top, A!Depth, Running
<1>9. A!Assign
  BY <1>1, <1>2, <1>3, <1>6, <1>7, <1>8, SameProgram DEF A!Assign
<1> QED BY <1>9, <1>2 DEF A!Next

\* Activations as a list: pushing and binding, element by element.
LEMMA PushedList ==
  ASSUME NEW S, NEW s \in Seq(S), NEW e \in S, NEW n, n = Len(s),
         NEW t, t = [d \in 1 .. n + 1 |-> IF d <= n THEN s[d] ELSE e]
  PROVE  t = Append(s, e)
<1>1. n \in Nat /\ DOMAIN t = 1 .. n + 1
  BY LenProperties
<1>2. /\ Append(s, e) \in Seq(S) /\ Len(Append(s, e)) = n + 1
      /\ \A d \in 1 .. n : Append(s, e)[d] = s[d]
      /\ Append(s, e)[n + 1] = e
  BY Pushed
<1>3. t \in Seq(S) /\ Len(t) = n + 1
  <2>1. \A d \in 1 .. n + 1 : t[d] \in S
    BY <1>1, ElementOfSeq
  <2> QED BY <1>1, <2>1
<1>4. \A d \in 1 .. n + 1 : t[d] = Append(s, e)[d]
  BY <1>1, <1>2
<1> QED BY <1>2, <1>3, <1>4, SeqEqual

\* The values that a call passes are values of the caller's variables and
\* literals.
LEMMA ArgumentsRefine ==
  ASSUME Layout, NEW m \in Methods, NEW ops \in OperandLists(currentMethod),
         Len(ops) >= Len(ParamVars[m])
  PROVE  \A v \in Range(ParamVars[m]) :
           LoadParams(m, ValuesIn(value, ops))[v]
             \in {value[w] : w \in OwnVars(currentMethod)} \cup Values
<1> DEFINE W == {value[w] : w \in OwnVars(currentMethod)} \cup Values
<1>1. currentMethod \in Methods /\ value \in [Vars -> Words]
  BY DEF Layout, TypeOK
<1>2. ops \in Seq(OwnVars(currentMethod) \cup Values) /\ DOMAIN ops = 1 .. Len(ops)
      /\ Len(ops) \in Nat
  BY ListsAreSequences, LenProperties DEF OperandLists
<1>3. \A i \in 1 .. Len(ops) : ValueIn(value, ops[i]) \in W
  <2> SUFFICES ASSUME NEW i \in 1 .. Len(ops) PROVE ValueIn(value, ops[i]) \in W
    OBVIOUS
  <2>1. ops[i] \in OwnVars(currentMethod) \cup Values
    BY <1>2, ElementOfSeq
  <2>2. OwnVars(currentMethod) \subseteq Vars /\ Vars \cap Values = {}
    BY <1>1, MethodLists, NamesAssumption DEF NamesAssumption, Words
  <2> QED BY <2>1, <2>2 DEF ValueIn
<1> HIDE DEF W
<1>4. ValuesIn(value, ops) \in Seq(W) /\ Len(ValuesIn(value, ops)) = Len(ops)
  BY <1>2, <1>3 DEF ValuesIn
<1>5. \A v \in Range(ParamVars[m]) : LoadParams(m, ValuesIn(value, ops))[v] \in W
  BY <1>1, <1>4, LoadParamsType
<1> QED BY <1>5 DEF W

LEMMA InvokeRefines ==
  ASSUME Layout, Layout', status = "running", NEW m \in Methods,
         NEW ops \in OperandLists(currentMethod), Invoke(m, ops)
  PROVE  A!Next
<1>1. CASE \E e \in Errors : Die(e)
  BY <1>1, FailRefines
<1>2. CASE /\ Readable(ops) /\ SaveFits(currentMethod)
           /\ Len(ops) >= Len(ParamVars[m])
           /\ SaveToStack(currentMethod)
           /\ paramList' = ValuesIn(value, ops)
           /\ value' = LoadParams(m, paramList')
           /\ currentMethod' = m
           /\ \E xs \in Targets :
                callers' = Append(callers,
                                  Frame(currentMethod, xs, stackPtr, unset))
           /\ UNCHANGED status
  <2> DEFINE n == Len(callers)
             env == [v \in OwnVars(m) |-> value'[v]]
             env0 == [v \in OwnVars(currentMethod) |-> value[v]]
  <2>1. /\ n \in Nat /\ Len(ActsOf) = n + 1 /\ DOMAIN ActsOf = 1 .. n + 1
        /\ ActsOf[n + 1] = Running /\ DOMAIN callers = 1 .. n
        /\ \A d \in 1 .. n : ActsOf[d] = Suspended(runStack, callers[d])
    BY ActsShape
  <2>2. /\ currentMethod \in Methods /\ value' \in [Vars -> Words]
        /\ runStack \in [Cells -> Words] /\ stackPtr \in Nat
        /\ callers \in Seq(Frames) /\ unset \subseteq Vars
    BY DEF Layout, TypeOK
  <2>3. PICK xs \in Targets :
          callers' = Append(callers, Frame(currentMethod, xs, stackPtr, unset))
    BY <1>2
  <2> DEFINE f == Frame(currentMethod, xs, stackPtr, unset)
             called == A!Activation(m, env, <<>>)
             caller == A!Activation(currentMethod, env0, xs)
  <2>4. /\ Len(callers') = n + 1 /\ DOMAIN callers' = 1 .. n + 1
        /\ \A d \in 1 .. n : callers'[d] = callers[d]
        /\ callers'[n + 1] = f
    <3>1. xs \in Seq(OwnVars(currentMethod) \cup {Underscore})
      BY ListsAreSequences DEF Targets, TargetLists
    <3>2. xs \in Seq(Vars \cup {Underscore})
      BY <3>1, <2>2, MethodLists
    <3>3. f \in Frames
      BY <3>2, <2>2 DEF Frame, Frames
    <3> QED BY <3>3, <2>2, <2>3, Pushed
  <2>5. ActsBar = ActsOf /\ ActsBar' = ActsOf' /\ StatusBar = "running"
        /\ StatusBar' = StatusBar
    BY <1>2 DEF ActsBar, StatusBar, Errors
  <2>6. env \in [OwnVars(m) -> Words]
    BY <2>2, MethodLists
  <2>7. \A d \in 1 .. n : Suspended(runStack', callers'[d]) = Suspended(runStack, callers[d])
    <3> SUFFICES ASSUME NEW d \in 1 .. n
                 PROVE  Suspended(runStack', callers'[d]) = Suspended(runStack, callers[d])
      OBVIOUS
    <3>1. SavedEnv(runStack', callers[d]) = SavedEnv(runStack, callers[d])
      BY <1>2, <2>1, SuspendedKept
    <3>2. callers'[d] = callers[d]
      BY <2>4
    <3> QED BY <3>1, <3>2 DEF Suspended
  <2>8. Suspended(runStack', callers'[n + 1]) = caller
    <3>1. callers'[n + 1] = f
      BY <2>4
    <3>2. /\ f.method = currentMethod /\ f.base = stackPtr /\ f.targets = xs
      BY DEF Frame
    <3>3. \A v \in OwnVars(currentMethod) :
            runStack'[stackPtr + Slot(currentMethod, v)] = value[v]
      BY <1>2, <2>2, SavedCells
    <3>4. SavedEnv(runStack', f) = env0
      BY <3>2, <3>3 DEF SavedEnv
    <3> HIDE DEF f, env0
    <3> QED BY <3>1, <3>2, <3>4 DEF Suspended, A!Activation
  <2>9. Running' = called
    BY <1>2 DEF Running, A!Activation
  <2>10. ActsOf' = [d \in 1 .. n + 2 |->
                      IF d <= n + 1 THEN Suspended(runStack', callers'[d]) ELSE called]
    <3>1. ActsOf' = [d \in 1 .. (n + 1) + 1 |->
                       IF d <= n + 1 THEN Suspended(runStack', callers'[d]) ELSE Running']
      BY <2>4 DEF ActsOf
    <3>2. (n + 1) + 1 = n + 2
      BY <2>1
    <3> QED BY <3>1, <3>2, <2>9
  <2>11. A!Top = Running /\ A!Depth = n + 1
    BY <2>1, <2>5 DEF A!Top, A!Depth
  <2>12. A!Activation(A!Top.method, A!Top.env, xs) = caller
    BY <2>11 DEF Running
  <2>13. \A v \in Range(ParamVars[m]) : env[v] \in A!Arguments
    <3>1. \A v \in Range(ParamVars[m]) :
            value'[v] \in {value[w] : w \in OwnVars(currentMethod)} \cup Values
      BY <1>2, ArgumentsRefine
    <3>2. A!Top.method = currentMethod /\ A!Top.env = env0
      BY <2>11 DEF Running
    <3>3. A!Arguments = {value[w] : w \in OwnVars(currentMethod)} \cup Values
      BY <3>2, SameProgram DEF A!Arguments
    <3>4. Range(ParamVars[m]) \subseteq OwnVars(m)
      BY DEF OwnVars
    <3> QED BY <3>1, <3>3, <3>4
  <2> HIDE DEF called, caller, env, n, f
  <2> DEFINE first == [ActsOf EXCEPT ![n + 1] = caller]
  <2>14. ActsOf' = Append(first, called)
    <3> DEFINE S == {first[d] : d \in 1 .. n + 1} \cup {called}
    <3>1. first = [d \in 1 .. n + 1 |->
                     IF d = n + 1 THEN caller ELSE Suspended(runStack, callers[d])]
      <4>1. ActsOf = [d \in 1 .. n + 1 |->
                        IF d <= n THEN Suspended(runStack, callers[d]) ELSE Running]
        BY DEF ActsOf, n
      <4>2. \A d \in 1 .. n + 1 : d <= n <=> d # n + 1
        BY <2>1
      <4> QED BY <4>1, <4>2
    <3> HIDE DEF first
    <3>2. \A d \in 1 .. n + 1 : first[d] \in S
      OBVIOUS
    <3> HIDE DEF S
    <3>3. first \in Seq(S) /\ Len(first) = n + 1
      BY <3>1, <3>2, <2>1
    <3>4. \A d \in 1 .. n + 1 : Suspended(runStack', callers'[d]) = first[d]
      <4> SUFFICES ASSUME NEW d \in 1 .. n + 1
                   PROVE  Suspended(runStack', callers'[d]) = first[d]
        OBVIOUS
      <4>1. CASE d = n + 1
        BY <4>1, <3>1, <2>1, <2>8
      <4>2. CASE d # n + 1
        <5>1. d \in 1 .. n
          BY <4>2, <2>1
        <5> QED BY <5>1, <4>2, <3>1, <2>7
      <4> QED BY <4>1, <4>2
    <3>5. n + 2 = (n + 1) + 1
      BY <2>1
    <3>6. ActsOf' = [d \in 1 .. (n + 1) + 1 |->
                       IF d <= n + 1 THEN first[d] ELSE called]
      BY <2>10, <3>4, <3>5, <2>1
    <3>7. called \in S
      BY DEF S
    <3> QED BY <3>3, <3>6, <3>7, PushedList
  <2>15. Len(ActsOf') = n + 2 /\ ActsOf'[n + 2] = called
    BY <2>1, <2>10
  <2>16. A!Invoke
    <3>1. n + 2 = (n + 1) + 1
      BY <2>1
    <3>2. xs \in A!TargetLists(A!Top.method)
      BY <2>11, SameProgram DEF Targets, Running
    <3>3. ActsBar' = Append([ActsBar EXCEPT ![A!Depth] =
                               A!Activation(A!Top.method, A!Top.env, xs)],
                            ActsBar'[A!Depth + 1])
      BY <2>5, <2>11, <2>12, <2>14, <2>15, <3>1
    <3>4. ActsBar'[A!Depth + 1] = A!Activation(m, env, <<>>)
      BY <2>5, <2>11, <2>15, <3>1 DEF called
    <3>5. env \in [A!OwnVars(m) -> A!Words]
      BY <2>6, SameProgram
    <3>6. \A v \in A!Range(ParamVars[m]) : env[v] \in A!Arguments
      BY <2>13 DEF A!Range, Range
    <3>7. Len(ActsBar') = A!Depth + 1
      BY <2>5, <2>11, <2>15, <3>1
    <3> QED BY <3>2, <3>3, <3>4, <3>5, <3>6, <3>7, <2>5 DEF A!Invoke
  <2> QED BY <2>16, <2>5 DEF A!Next
<1> QED BY <1>1, <1>2 DEF Invoke, Errors

LEMMA FinishRefines ==
  ASSUME Layout, Layout', Ownership, status = "running",
         NEW results \in Seq(Words \ {NULL}), Finish(results)
  PROVE  \/ A!Next
         \/ A!Finish(results)
<1> DEFINE n == Len(callers)
           f == callers[n]
<1>1. CASE \E e \in Errors : Die(e)
  BY <1>1, FailRefines
<1>2. /\ ActsBar = ActsOf /\ StatusBar = "running"
      /\ n \in Nat /\ Len(ActsOf) = n + 1 /\ DOMAIN ActsOf = 1 .. n + 1
      /\ ActsOf[n + 1] = Running
      /\ \A d \in 1 .. n : ActsOf[d] = Suspended(runStack, callers[d])
      /\ DOMAIN callers = 1 .. n
  BY ActsShape DEF ActsBar, StatusBar, Errors
<1>3. A!Depth = n + 1
  BY <1>2 DEF A!Depth
<1>4. CASE callers = <<>> /\ status' = "done"
  <2>1. A!Depth = 1
    BY <1>3, <1>4
  <2>2. ActsBar' = <<>> /\ StatusBar' = "done"
    BY <1>4 DEF ActsBar, StatusBar, Errors
  <2> QED BY <2>1, <2>2 DEF A!Finish
<1>5. CASE /\ callers # <<>>
           /\ f.targets = <<>> \/ Len(f.targets) = Len(results)
           /\ value' = Bound(LoadFromStack(f.method), f.targets, results)
           /\ currentMethod' = f.method
           /\ callers' = SubSeq(callers, 1, n - 1)
           /\ UNCHANGED <<runStack, stackPeak, status>>
  <2> DEFINE saved == SavedEnv(runStack, f)
             env == Bound(saved, f.targets, results)
             resumed == A!Activation(f.method, env, <<>>)
  <2>1. /\ n \in Nat \ {0} /\ f \in Frames /\ n \in DOMAIN callers
        /\ f.base = LoadPtr(f.method) /\ f.base \in Nat
        /\ stackPtr = f.base + Size(f.method) /\ stackPtr <= STACK_SIZE
    BY <1>5, LastFrame
  <2>2. f.method \in Methods /\ f.targets \in Seq(Vars \cup {Underscore})
    BY <2>1 DEF Frames
  <2>3. /\ Len(callers') = n - 1 /\ DOMAIN callers' = 1 .. n - 1
        /\ \A d \in 1 .. n - 1 : callers'[d] = callers[d]
    BY <1>5, Popped DEF Layout, TypeOK
  <2>4. ActsBar' = ActsOf' /\ StatusBar' = StatusBar
    BY <1>5 DEF ActsBar, StatusBar, Errors
  <2>5. ActsOf[n] = Suspended(runStack, f)
    BY <1>2, <2>1
  <2>6. LoadFromStack(f.method) \in [Vars -> Words] /\ OwnVars(f.method) \subseteq Vars
    BY <2>1, <2>2, LoadedType, MethodLists
  <2> HIDE DEF n, f
  <2>7. Running' = resumed
    <3>1. saved = [v \in OwnVars(f.method) |-> LoadFromStack(f.method)[v]]
      <4>1. \A v \in OwnVars(f.method) :
              LoadFromStack(f.method)[v] = runStack[f.base + Slot(f.method, v)]
        BY <2>1, <2>2, LoadedVars DEF Layout, TypeOK
      <4> QED BY <4>1 DEF SavedEnv
    <3>2. env = [v \in OwnVars(f.method) |-> value'[v]]
      BY <3>1, <2>6, <1>5 DEF Bound
    <3> HIDE DEF env
    <3> QED BY <3>2, <1>5 DEF Running, A!Activation
  <2> HIDE DEF resumed
  <2>8. ActsOf' = [d \in 1 .. n |-> IF d <= n - 1
                                    THEN Suspended(runStack, callers[d])
                                    ELSE resumed]
    <3>1. (n - 1) + 1 = n
      BY <2>1
    <3>2. ActsOf' = [d \in 1 .. (n - 1) + 1 |->
                       IF d <= n - 1 THEN Suspended(runStack', callers'[d])
                       ELSE Running']
      BY <2>3 DEF ActsOf
    <3>3. \A d \in 1 .. (n - 1) + 1 : d <= n - 1 =>
            Suspended(runStack', callers'[d]) = Suspended(runStack, callers[d])
      <4> SUFFICES ASSUME NEW d \in 1 .. (n - 1) + 1, d <= n - 1
                   PROVE  Suspended(runStack', callers'[d])
                            = Suspended(runStack, callers[d])
        OBVIOUS
      <4>1. callers'[d] = callers[d] /\ runStack' = runStack
        BY <2>1, <2>3, <1>5
      <4> QED BY <4>1
    <3> QED BY <3>1, <3>2, <3>3, <2>7
  <2>9. ActsOf' = [SubSeq(ActsOf, 1, n) EXCEPT ![n] = resumed]
    <3> DEFINE front == SubSeq(ActsOf, 1, n)
    <3>1. /\ Len(front) = n /\ DOMAIN front = 1 .. n
          /\ \A d \in 1 .. n : front[d] = ActsOf[d]
      <4> DEFINE S == {ActsOf[d] : d \in 1 .. Len(callers) + 1}
      <4>1. ActsOf \in Seq(S) /\ ActsOf # <<>> /\ Len(ActsOf) - 1 = n
        BY ActsShape, <1>2, <2>1 DEF n
      <4> HIDE DEF S
      <4> QED BY <4>1, Popped
    <3>2. front = [d \in 1 .. n |-> Suspended(runStack, callers[d])]
      <4>1. front \in [1 .. n -> {front[d] : d \in 1 .. n}]
        <5> DEFINE S == {ActsOf[d] : d \in 1 .. Len(callers) + 1}
        <5>1. ActsOf \in Seq(S) /\ ActsOf # <<>> /\ Len(ActsOf) - 1 = n
          BY ActsShape, <1>2, <2>1 DEF n
        <5> HIDE DEF S
        <5>2. front \in Seq(S)
          BY <5>1, Popped
        <5> HIDE DEF front
        <5> QED BY <5>2, <3>1, LenProperties
      <4> HIDE DEF front
      <4>2. \A d \in 1 .. n : front[d] = Suspended(runStack, callers[d])
        BY <3>1, <1>2, <2>1
      <4> QED BY <4>1, <4>2
    <3> HIDE DEF front
    <3>3. [front EXCEPT ![n] = resumed]
            = [d \in 1 .. n |-> IF d = n THEN resumed
                                ELSE Suspended(runStack, callers[d])]
      BY <3>2
    <3>4. \A d \in 1 .. n : d <= n - 1 <=> d # n
      BY <2>1
    <3>5. ActsOf' = [front EXCEPT ![n] = resumed]
      BY <3>3, <3>4, <2>8
    <3> QED BY <3>5 DEF front
  <2>10. /\ ActsBar[n].method = f.method /\ ActsBar[n].env = saved
         /\ ActsBar[n].targets = f.targets
    BY <1>2, <2>5 DEF Suspended
  <2>11. A!Bound(saved, f.targets, results) = env
    BY DEF A!Bound, Bound, A!Range, Range, A!LastPosition, LastPosition
  <2>12. A!Depth # 1 /\ A!Depth - 1 = n
    BY <1>3, <2>1
  <2> HIDE DEF env, saved
  <2>13. A!Activation(ActsBar[n].method,
           A!Bound(ActsBar[n].env, ActsBar[n].targets, results), <<>>) = resumed
    BY <2>10, <2>11 DEF resumed
  <2>14. A!Finish(results)
    BY <1>2, <1>5, <2>4, <2>9, <2>10, <2>12, <2>13 DEF A!Finish
  <2> QED BY <2>14
<1> QED BY <1>1, <1>4, <1>5 DEF Finish, Errors

LEMMA ReturnsRefine ==
  ASSUME Layout, Layout', Ownership, status = "running", Returns
  PROVE  A!Next
<1>1. /\ currentMethod \in Methods /\ value \in [Vars -> Words]
      /\ paramList \in Seq(Words \ {NULL}) /\ Len(paramList) <= MaxArity
      /\ Len(paramList) \in Nat
  BY LenProperties DEF Layout, TypeOK, Ownership
<1>2. /\ A!Top = Running /\ StatusBar = "running"
  BY ActsShape DEF ActsBar, StatusBar, Errors, A!Top, A!Depth
<1>3. CASE FallOff
  <2>1. A!Next \/ A!Finish(paramList)
    BY <1>1, <1>3, FinishRefines DEF FallOff
  <2>2. paramList \in A!ListsOver(A!Words)
    <3>1. paramList \in [1 .. Len(paramList) -> Words]
      BY <1>1, LenProperties
    <3> QED BY <3>1, <1>1, SameProgram, ProgramAssumption
            DEF ListsOver, ProgramAssumption
  <2>3. A!Top.method \in FallsOff
    BY <1>2, <1>3 DEF Running, FallOff
  <2> QED BY <1>2, <2>1, <2>2, <2>3 DEF A!Next, A!FallOff
<1>4. ASSUME NEW ops \in OperandLists(currentMethod), Return(ops)
      PROVE  A!Next
  <2>1. CASE \E e \in Errors : Die(e)
    BY <2>1, FailRefines
  <2>2. CASE Readable(ops) /\ Finish(ValuesIn(value, ops))
    <3>1. A!Next \/ A!Finish(ValuesIn(value, ops))
      BY <1>1, <2>2, OperandValues, FinishRefines
    <3>2. A!Top.method = currentMethod
          /\ A!Top.env = [v \in OwnVars(currentMethod) |-> value[v]]
      BY <1>2 DEF Running
    <3>3. A!ValuesIn(A!Top.env, ops) = ValuesIn(value, ops)
      <4>1. ops \in Seq(OwnVars(currentMethod) \cup Values)
            /\ DOMAIN ops = 1 .. Len(ops)
        BY <1>1, ListsAreSequences DEF OperandLists
      <4>2. ASSUME NEW i \in DOMAIN ops
            PROVE  A!ValueIn(A!Top.env, ops[i]) = ValueIn(value, ops[i])
        <5>1. ops[i] \in OwnVars(currentMethod) \cup Values
          BY <4>1, ElementOfSeq
        <5>2. Vars \cap Values = {}
          BY NamesAssumption DEF NamesAssumption, Words
        <5> QED BY <5>1, <5>2, <3>2 DEF A!ValueIn, ValueIn
      <4> QED BY <4>2 DEF A!ValuesIn, ValuesIn
    <3>4. ops \in A!OperandLists(A!Top.method)
      BY <3>2, SameProgram
    <3> QED BY <1>2, <3>1, <3>3, <3>4 DEF A!Next, A!Return
  <2> QED BY <1>4, <2>1, <2>2 DEF Return, Errors
<1> QED BY <1>3, <1>4 DEF Returns

LEMMA OwnershipOfSimple ==
  ASSUME Layout, Ownership, status = "running", UNCHANGED <<callers, status>>,
         paramList' = paramList \/ Len(paramList') <= MaxArity
  PROVE  Ownership'
BY DEF Ownership

LEMMA OwnershipInductive ==
  ASSUME Layout, Ownership, [Next]_vars
  PROVE  Ownership'
<1>1. /\ currentMethod \in Methods /\ value \in [Vars -> Words]
      /\ callers \in Seq(Frames) /\ unset \subseteq Vars /\ stackPtr \in Nat
      /\ MaxArity \in Nat \ {0}
      /\ paramList \in Seq(Words \ {NULL}) /\ Len(paramList) \in Nat
  BY LenProperties, ProgramAssumption
     DEF Layout, TypeOK, ProgramAssumption
<1>2. ASSUME NEW e \in Errors, Die(e), status = "running" PROVE Ownership'
  BY <1>2 DEF Die, Ownership, stack, lists, Errors
<1>3. CASE Simple /\ status = "running"
  <2> PICK o \in OwnVars(currentMethod) \cup Values :
        \/ \E xs \in Targets \ {<<>>} : Assign(o, xs) \/ Cast(o, xs)
        \/ \E clean \in BOOLEAN : Evaluate(o, clean)
    BY <1>3 DEF Simple
  <2> DEFINE w == ValueIn(value, o)
  <2>1. Len(<<w>>) <= MaxArity
    BY <1>1
  <2>2. ASSUME NEW xs \in Targets, Assign(o, xs) \/ Cast(o, xs) PROVE Ownership'
    BY <1>2, <1>3, <2>1, <2>2, OwnershipOfSimple
       DEF Assign, Cast, CheckRtns, stack, Errors
  <2>3. ASSUME NEW clean \in BOOLEAN, Evaluate(o, clean) PROVE Ownership'
    <3>1. CASE /\ clean \/ Len(paramList) < MaxArity
               /\ paramList' = (IF clean THEN <<>> ELSE paramList) \o <<w>>
               /\ UNCHANGED <<value, stack, rtnList, status, unset>>
      <4>1. Len(paramList') <= MaxArity
        <5>1. CASE clean
          BY <5>1, <3>1, <1>1
        <5>2. CASE ~ clean
          <6> HIDE DEF w
          <6>1. paramList \in Seq({w} \cup (Words \ {NULL}))
            BY <1>1
          <6>2. Len(paramList') = Len(paramList) + 1
            BY <5>2, <3>1, <6>1, ConcatProperties
          <6> QED BY <5>2, <3>1, <6>2, <1>1
        <5> QED BY <5>1, <5>2
      <4> QED BY <4>1, <3>1, <1>3, OwnershipOfSimple DEF stack
    <3> QED BY <3>1, <2>3, <1>2, <1>3 DEF Evaluate, Errors
  <2> QED BY <2>2, <2>3
<1>4. CASE Calls /\ status = "running"
  <2> PICK ops \in OperandLists(currentMethod) :
        \/ \E r \in Values : CallBuiltin(ops, r)
        \/ \E m \in Methods : Invoke(m, ops)
    BY <1>4 DEF Calls
  <2>1. Len(ops) <= MaxArity /\ Len(ValuesIn(value, ops)) = Len(ops)
    <3>1. DOMAIN ops = 1 .. Len(ops) /\ Len(ops) \in 0 .. MaxArity
      BY ListsAreSequences DEF OperandLists
    <3>2. Len(ops) \in Nat /\ Len(ops) <= MaxArity
      BY <3>1, <1>1
    <3> QED BY <3>1, <3>2 DEF ValuesIn
  <2>2. ASSUME NEW r \in Values, CallBuiltin(ops, r) PROVE Ownership'
    BY <1>2, <1>4, <2>1, <2>2, OwnershipOfSimple
       DEF CallBuiltin, CheckRtns, stack, Errors
  <2>3. ASSUME NEW m \in Methods, Invoke(m, ops) PROVE Ownership'
    <3>1. CASE /\ paramList' = ValuesIn(value, ops)
               /\ \E xs \in Targets :
                    callers' = Append(callers,
                                      Frame(currentMethod, xs, stackPtr, unset))
               /\ UNCHANGED status
      <4>1. PICK xs \in Targets :
              callers' = Append(callers, Frame(currentMethod, xs, stackPtr, unset))
        BY <3>1
      <4> DEFINE n == Len(callers)
                 f == Frame(currentMethod, xs, stackPtr, unset)
      <4>2. /\ n \in Nat /\ DOMAIN callers = 1 .. n
            /\ DOMAIN callers' = 1 .. n + 1
            /\ \A d \in 1 .. n : callers'[d] = callers[d]
            /\ callers'[n + 1] = f
        <5>1. xs \in Seq(OwnVars(currentMethod) \cup {Underscore})
          BY ListsAreSequences DEF Targets, TargetLists
        <5>2. xs \in Seq(Vars \cup {Underscore})
          BY <5>1, <1>1, MethodLists
        <5>3. f \in Frames
          BY <5>2, <1>1 DEF Frame, Frames
        <5> QED BY <5>3, <1>1, <4>1, Pushed
      <4>3. f.targets \in TargetLists(f.method)
        BY DEF Frame, Targets
      <4> HIDE DEF f, n
      <4>4. \A d \in 1 .. n + 1 :
              callers'[d].targets \in TargetLists(callers'[d].method)
        <5> SUFFICES ASSUME NEW d \in 1 .. n + 1
                     PROVE  callers'[d].targets \in TargetLists(callers'[d].method)
          OBVIOUS
        <5>1. CASE d = n + 1
          BY <5>1, <4>2, <4>3
        <5>2. CASE d \in 1 .. n
          BY <5>2, <4>2 DEF Ownership
        <5> QED BY <5>1, <5>2, <4>2
      <4> QED BY <4>2, <4>4, <3>1, <2>1, <1>4 DEF Ownership
    <3> QED BY <3>1, <2>3, <1>2, <1>4 DEF Invoke, Errors
  <2> QED BY <2>2, <2>3
<1>5. ASSUME NEW results \in Seq(Words \ {NULL}), Len(results) <= MaxArity,
             Finish(results), status = "running"
      PROVE  Ownership'
  <2>1. CASE callers = <<>>
    BY <2>1, <1>5 DEF Finish, Ownership, stack
  <2>2. CASE /\ callers # <<>>
             /\ callers' = SubSeq(callers, 1, Len(callers) - 1)
             /\ paramList' = results
             /\ UNCHANGED <<runStack, stackPeak, status>>
    <3> DEFINE n == Len(callers)
    <3>1. /\ n \in Nat \ {0} /\ DOMAIN callers' = 1 .. n - 1
          /\ DOMAIN callers = 1 .. n
          /\ \A d \in 1 .. n - 1 : callers'[d] = callers[d]
      BY <2>2, <1>1, Popped, LenProperties
    <3> HIDE DEF n
    <3>2. \A d \in 1 .. n - 1 : d \in 1 .. n
      BY <3>1
    <3> QED BY <3>1, <3>2, <2>2, <1>5 DEF Ownership
  <2> QED BY <2>1, <2>2, <1>2, <1>5 DEF Finish, Errors
<1>6. CASE Returns /\ status = "running"
  <2>1. ASSUME NEW ops \in OperandLists(currentMethod), Return(ops)
        PROVE  Ownership'
    <3>1. CASE Readable(ops) /\ Finish(ValuesIn(value, ops))
      <4>1. ValuesIn(value, ops) \in Seq(Words \ {NULL})
        BY <1>1, <3>1, OperandValues
      <4>2. Len(ValuesIn(value, ops)) <= MaxArity
        <5>1. Len(ops) \in 0 .. MaxArity
          BY ListsAreSequences DEF OperandLists
        <5>2. Len(ops) <= MaxArity
          BY <5>1, <1>1
        <5> QED BY <5>2, <3>1, <1>1, OperandValues
      <4> QED BY <4>1, <4>2, <3>1, <1>5, <1>6
    <3> QED BY <3>1, <2>1, <1>2, <1>6 DEF Return, Errors
  <2>2. CASE FallOff
    BY <2>2, <1>1, <1>5, <1>6 DEF FallOff, Ownership
  <2> QED BY <2>1, <2>2, <1>6 DEF Returns
<1>7. CASE UNCHANGED vars
  BY <1>7 DEF vars, stack, lists, Ownership
<1> QED BY <1>3, <1>4, <1>6, <1>7 DEF Next

\* Every step of the interpreter is a step of the activations, or none.
LEMMA StepRefines ==
  ASSUME Layout, Layout', Ownership, [Next]_vars
  PROVE  A!Next \/ UNCHANGED <<ActsBar, StatusBar>>
<1>1. /\ currentMethod \in Methods /\ value' \in [Vars -> Words]
  BY DEF Layout, TypeOK
<1>2. CASE UNCHANGED vars
  BY <1>2 DEF vars, stack, ActsBar, StatusBar, ActsOf, Running, Suspended, SavedEnv
<1>3. CASE status = "running" /\ Simple
  <2> PICK o \in OwnVars(currentMethod) \cup Values :
        \/ \E xs \in Targets \ {<<>>} : Assign(o, xs) \/ Cast(o, xs)
        \/ \E clean \in BOOLEAN : Evaluate(o, clean)
    BY <1>3 DEF Simple
  <2>1. CASE \E e \in Errors : Die(e)
    BY <1>3, <2>1, FailRefines
  <2>2. CASE UNCHANGED <<stack, status>>
    BY <1>1, <1>3, <2>2, AssignRefines
  <2> QED BY <2>1, <2>2 DEF Assign, Cast, Evaluate, CheckRtns, Errors, stack
<1>4. CASE status = "running" /\ Calls
  <2> PICK ops \in OperandLists(currentMethod) :
        \/ \E r \in Values : CallBuiltin(ops, r)
        \/ \E m \in Methods : Invoke(m, ops)
    BY <1>4 DEF Calls
  <2>1. CASE \E e \in Errors : Die(e)
    BY <1>4, <2>1, FailRefines
  <2>2. CASE UNCHANGED <<stack, status>>
    BY <1>1, <1>4, <2>2, AssignRefines
  <2>3. CASE \E m \in Methods : Invoke(m, ops)
    BY <1>4, <2>3, InvokeRefines
  <2> QED BY <2>1, <2>2, <2>3 DEF CallBuiltin, CheckRtns, Errors, stack
<1>5. CASE status = "running" /\ Returns
  BY <1>5, ReturnsRefine
<1> QED BY <1>2, <1>3, <1>4, <1>5 DEF Next

LEMMA InitRefines ==
  ASSUME Init
  PROVE  A!Init
<1> DEFINE env == [v \in OwnVars(Main) |-> value[v]]
<1>1. ActsBar = ActsOf /\ StatusBar = "running"
  BY DEF Init, ActsBar, StatusBar, Errors
<1>2. ActsOf = <<A!Activation(Main, env, <<>>)>>
  <2>1. ActsOf = [d \in 1 .. 1 |-> Running]
    BY DEF Init, ActsOf
  <2>2. Running = A!Activation(Main, env, <<>>)
    BY DEF Init, Running, A!Activation
  <2> HIDE DEF env
  <2> QED BY <2>1, <2>2
<1>3. env \in [A!OwnVars(Main) -> A!Words]
  <2>1. Main \in Methods /\ Malloced \subseteq Words
    BY ProgramAssumption, StackAssumption
       DEF ProgramAssumption, StackAssumption, Words
  <2> QED BY <2>1, MethodLists, SameProgram DEF Init
<1> QED BY <1>1, <1>2, <1>3 DEF A!Init

\* Pass-by-value and return by value: whatever the interpreter does with its
\* shared cells, its stack and its two lists, a program sees activations of
\* its own for every invocation (lines 206-346, 372-432, 497-503, 598-619).
THEOREM Implements == Spec => ImplementsActivations
<1>1. Init => Ownership
  BY EmptySeq, ProgramAssumption DEF Init, Ownership, ProgramAssumption
<1>2. Layout /\ Ownership /\ [Next]_vars => Ownership'
  BY OwnershipInductive
<1>3. Init => A!Init
  BY InitRefines
<1>4. Layout /\ Layout' /\ Ownership /\ [Next]_vars => [A!Next]_(A!vars)
  BY StepRefines DEF A!vars
<1> QED BY <1>1, <1>2, <1>3, <1>4, LayoutInvariant, PTL
        DEF Spec, ImplementsActivations, A!Spec

=============================================================================
