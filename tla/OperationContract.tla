------------------------- MODULE OperationContract -------------------------
(***************************************************************************)
(* What the platform promises about an operation, whoever works on it:     *)
(* the status catalogue of models/operation_contract.go read as a state    *)
(* machine.  An operation is queued, claimed, perhaps handed back, and     *)
(* settled at most once; "succeeded" needs an execution that succeeded,    *)
(* except for the kinds the curator may settle by looking at the cluster.  *)
(* No worker, lease, message or failure is mentioned: OperationLifecycle   *)
(* has them all and implements this module.                                *)
(***************************************************************************)
EXTENDS Naturals

CONSTANTS
  Ops,       \* operations
  Curated    \* operations whose kind the curator settles from cluster state

VARIABLES
  status,    \* status[o]: the API's record of operation o
  evidence   \* evidence[o]: verdicts an execution of o (or the API giving up
             \* on it) has produced so far

vars == <<status, evidence>>

Verdict == {"succeeded", "failed"}
Status  == {"queued", "in-progress"} \cup Verdict

Init ==
  /\ status = [o \in Ops |-> "queued"]
  /\ evidence = [o \in Ops |-> {}]

Claim(o) ==
  /\ status[o] = "queued"
  /\ status' = [status EXCEPT ![o] = "in-progress"]
  /\ UNCHANGED evidence

\* An execution of o ends with verdict v.  It may be an execution the platform
\* has already given up on, so nothing is asked of status[o].
Conclude(o, v) ==
  /\ evidence' = [evidence EXCEPT ![o] = @ \cup {v}]
  /\ UNCHANGED status

Settle(o, v) ==
  /\ status[o] = "in-progress"
  /\ v \in evidence[o] \/ o \in Curated
  /\ status' = [status EXCEPT ![o] = v]
  /\ UNCHANGED evidence

\* Claims that were abandoned go back to the queue, or are written off.
Recover(abandoned, writtenOff) ==
  /\ \A o \in abandoned : status[o] = "in-progress"
  /\ status' = [o \in Ops |-> IF o \in writtenOff THEN "failed"
                              ELSE IF o \in abandoned THEN "queued"
                              ELSE status[o]]
  /\ evidence' = [o \in Ops |-> IF o \in writtenOff THEN evidence[o] \cup {"failed"}
                                ELSE evidence[o]]

Next ==
  \/ \E o \in Ops : Claim(o)
  \/ \E o \in Ops, v \in Verdict : Conclude(o, v) \/ Settle(o, v)
  \/ \E abandoned \in SUBSET Ops : \E writtenOff \in SUBSET abandoned :
       Recover(abandoned, writtenOff)

Spec == Init /\ [][Next]_vars

=============================================================================
