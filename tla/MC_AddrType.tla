---------------------------- MODULE MC_AddrType ----------------------------
(***************************************************************************)
(* Model-checking instance of AddrType; the constants are in               *)
(* MC_AddrType.cfg.                                                        *)
(***************************************************************************)
EXTENDS AddrType
=============================================================================
