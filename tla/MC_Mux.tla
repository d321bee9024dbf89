------------------------------- MODULE MC_Mux -------------------------------
(***************************************************************************)
(* Model-checking instance of Mux; the constants are set in the .cfg files. *)
(***************************************************************************)
EXTENDS Mux
=============================================================================
