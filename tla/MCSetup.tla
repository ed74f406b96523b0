------------------------------ MODULE MCSetup ------------------------------
(***************************************************************************)
(* An instance of Setup for TLC.                                           *)
(***************************************************************************)
EXTENDS Setup, TLC
=============================================================================
