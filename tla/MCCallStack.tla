---------------------------- MODULE MCCallStack ----------------------------
(***************************************************************************)
(* A program of two methods for CallStack: main, with one local, and f,    *)
(* with one parameter and a local, which both may call each other and      *)
(* themselves.  Only main may end without a return statement.              *)
(***************************************************************************)
EXTENDS CallStack

MCMethods == {"main", "f"}
MCFallsOff == {"main"}
MCVars == {"a", "p", "r"}
MCLocalVars == [m \in MCMethods |-> IF m = "f" THEN <<"r">> ELSE <<"a">>]
MCRtnArity == [m \in MCMethods |-> IF m = "f" THEN 1 ELSE 0]
Params1 == [m \in MCMethods |-> IF m = "f" THEN <<"p">> ELSE <<>>]

(* malloc left zeros in the variables, or junk in all of them; it left junk *)
(* in the stack.                                                           *)
MCInit ==
  /\ Init
  /\ \A v, w \in Vars : value[v] = value[w]
  /\ \A s \in DOMAIN runStack : runStack[s] = Junk
MCSpec == MCInit /\ [][Next]_vars
=============================================================================
