------------------------------- MODULE MCRetry -------------------------------
(***************************************************************************)
(* WithRetry as the code has it, with three delays: every run of it is     *)
(* finite, so nothing is bounded.                                          *)
(***************************************************************************)
EXTENDS WithRetry
==============================================================================
