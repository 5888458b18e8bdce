----------------------------- MODULE Interning -----------------------------
(***************************************************************************)
(* What the backend relies on when it stores a symbol as an integer: a     *)
(* name gets an index the first time it is interned, the next free one,    *)
(* and has it ever after.  Module SymbolTable implements this.             *)
(***************************************************************************)
EXTENDS Naturals, FiniteSets

CONSTANT Names

VARIABLES
  ids,    \* the interned names |-> their indices
  answer  \* the last name asked for, and its index; <<>> at first

vars == <<ids, answer>>

Init == ids = <<>> /\ answer = <<>>

Known == DOMAIN ids

Intern(name) ==
  /\ ids' = [n \in Known \cup {name} |->
               IF n \in Known THEN ids[n] ELSE Cardinality(Known)]
  /\ answer' = <<name, ids'[name]>>

Next == \E name \in Names : Intern(name)

Spec == Init /\ [][Next]_vars
=============================================================================
