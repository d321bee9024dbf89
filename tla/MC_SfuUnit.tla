----------------------------- MODULE MC_SfuUnit -----------------------------
(***************************************************************************)
(* Model-checking instance of SfuUnit; the constants are in MC_SfuUnit.cfg.*)
(***************************************************************************)
EXTENDS SfuUnit
=============================================================================
