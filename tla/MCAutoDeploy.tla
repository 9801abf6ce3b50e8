---------------------------- MODULE MCAutoDeploy ----------------------------
(* Instances of AutoDeploy for TLC. *)
EXTENDS AutoDeploy

CONSTANTS w1, w2
=============================================================================
