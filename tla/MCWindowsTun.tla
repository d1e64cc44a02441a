---------------------------- MODULE MCWindowsTun ----------------------------
(***************************************************************************)
(* Instances of WindowsTun for TLC.                                        *)
(***************************************************************************)
EXTENDS WindowsTun

CONSTANTS c1, c2, r1, u1, f1
=============================================================================
