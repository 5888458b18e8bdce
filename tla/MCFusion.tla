------------------------------ MODULE MCFusion ------------------------------
(***************************************************************************)
(* Fusion, with the chains that it follows, on the bodies of MCBodies.     *)
(***************************************************************************)
EXTENDS Fusion, MCBodies
=============================================================================
