-------------------------- MODULE MCMdsController --------------------------
(***************************************************************************)
(* MdsController for TLC.                                                  *)
(***************************************************************************)
EXTENDS MdsController
=============================================================================
