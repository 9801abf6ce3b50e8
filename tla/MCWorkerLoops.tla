--------------------------- MODULE MCWorkerLoops ---------------------------
(* Instances of WorkerLoops for TLC. *)
EXTENDS WorkerLoops

CONSTANTS consumer, poller

MCGetters == {consumer, poller}
=============================================================================
