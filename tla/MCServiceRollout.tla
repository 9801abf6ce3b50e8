-------------------------- MODULE MCServiceRollout --------------------------
(* Instances of ServiceRollout for TLC. *)
EXTENDS ServiceRollout, TLC

CONSTANTS v1, v2, v3, r1, r2, j1, j2

=============================================================================
