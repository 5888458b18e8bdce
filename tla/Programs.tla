------------------------------ MODULE Programs ------------------------------
(***************************************************************************)
(* The static part of a HorseIR program that method invocation depends on: *)
(* its methods and, for each, the lists of variables that the symbol table *)
(* pass (analysis/symtable.cc) collects, with the assumptions that pass    *)
(* enforces.  A variable stands for one SymbolName of kind localS.         *)
(***************************************************************************)
EXTENDS Naturals, Sequences, Functions

CONSTANTS
  Vars,        \* the declared variables, all methods together
  Methods,     \* the methods
  Main,        \* the entry method
  ParamVars,   \* method |-> MetaMethod.paramVars, in source order
  LocalVars,   \* method |-> MetaMethod.localVars, nested blocks included
  RtnArity,    \* method |-> number of declared return types
  FallsOff,    \* the methods that may end without a return statement
  Values,      \* the values literals and builtin functions produce
  NULL,        \* the null word
  Junk,        \* an arbitrary non-null word
  Underscore,  \* the target _ of an assignment, which drops its value
  MaxArity     \* bound on the operands and the targets of a statement

AllVars(m) == ParamVars[m] \o LocalVars[m]
OwnVars(m) == Range(ParamVars[m]) \cup Range(LocalVars[m])
Words == Values \cup {NULL, Junk}

\* Each variable is declared once, in one method, as parameter or as local.
ProgramAssumption ==
  /\ Main \in Methods
  /\ ParamVars \in [Methods -> Seq(Vars)]
  /\ LocalVars \in [Methods -> Seq(Vars)]
  /\ RtnArity \in [Methods -> Nat]
  /\ FallsOff \subseteq Methods
  /\ MaxArity \in Nat \ {0}
  /\ \A m \in Methods : IsInjective(AllVars(m))
  /\ \A m, n \in Methods : m # n => OwnVars(m) \cap OwnVars(n) = {}
NamesAssumption ==
  /\ NULL \notin Values \cup {Junk}
  /\ Vars \cap (Words \cup {Underscore}) = {}
ASSUME ProgramAssumption
ASSUME NamesAssumption

ListsOver(S) == UNION {[1..n -> S] : n \in 0..MaxArity}
OperandLists(m) == ListsOver(OwnVars(m) \cup Values)
TargetLists(m) == ListsOver(OwnVars(m) \cup {Underscore})

\* The value of an operand, a variable or a literal, and of several.
ValueIn(env, o) == IF o \in Vars THEN env[o] ELSE o
ValuesIn(env, ops) == [i \in DOMAIN ops |-> ValueIn(env, ops[i])]

\* An index of v in a list, and the last one.
Position(list, v) == CHOOSE i \in DOMAIN list : list[i] = v
LastPosition(list, v) ==
  CHOOSE i \in DOMAIN list :
    list[i] = v /\ \A j \in DOMAIN list : list[j] = v => j <= i

\* An environment after the targets xs were bound to ws, from left to right.
Bound(env, xs, ws) ==
  [v \in DOMAIN env |-> IF v \in Range(xs) THEN ws[LastPosition(xs, v)]
                                              ELSE env[v]]
=============================================================================
