----------------------------- MODULE MC_AluFpu -----------------------------
(* Model-checking instance of AluFpu; the constants are set in the .cfg   *)
(* files.                                                                  *)
EXTENDS AluFpu
=============================================================================
