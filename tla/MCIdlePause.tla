---------------------------- MODULE MCIdlePause ----------------------------
(* Instances of IdlePause for TLC. *)
EXTENDS IdlePause

CONSTANTS m1, m2
=============================================================================
