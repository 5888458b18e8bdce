--------------------------- MODULE MCSymbolTable ---------------------------
(* Six names, interned in every order: every kind of rotation happens, and *)
(* the array of two cells doubles twice.                                   *)
EXTENDS SymbolTable

MCNames == 1 .. 6
=============================================================================
