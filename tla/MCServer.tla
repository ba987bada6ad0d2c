------------------------------ MODULE MCServer ------------------------------
(***************************************************************************)
(* Server with two requests of any kind.                                   *)
(***************************************************************************)
EXTENDS Server

CONSTANTS r1, r2
=============================================================================
