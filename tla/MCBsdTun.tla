------------------------------ MODULE MCBsdTun ------------------------------
(***************************************************************************)
(* Instances of BsdTun for TLC.                                            *)
(***************************************************************************)
EXTENDS BsdTun

CONSTANTS c1, c2, n1
=============================================================================
