----------------------------- MODULE MCUDChain -----------------------------
(***************************************************************************)
(* UDChain by itself, on the bodies of MCBodies.                           *)
(***************************************************************************)
EXTENDS UDChain, MCBodies
=============================================================================
