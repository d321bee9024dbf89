----------------------------- MODULE MC_LsuUnit -----------------------------
(***************************************************************************)
(* Model-checking instance of LsuUnit.  The constants are given in the     *)
(* .cfg files; this module only names the bounds shared by them.           *)
(***************************************************************************)
EXTENDS LsuUnit

\* Two issue lanes sharing one bank (NUM_LSU_BLOCKS < ISSUE_WIDTH) is the
\* configuration in which lanes contend for one pending table and one fence
\* lock within a single tick.
=============================================================================
