----------------------------- MODULE MC_Switch -----------------------------
(* Model-checking instance of Switch; the constants are set in the .cfg   *)
(* files.                                                                  *)
EXTENDS Switch
=============================================================================
