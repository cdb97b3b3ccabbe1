----------------------------- MODULE MCResponse -----------------------------
(***************************************************************************)
(* Response for TLC: the constants are given in the cfg files.             *)
(***************************************************************************)
EXTENDS Response
=============================================================================
