----------------------------- MODULE IdlePause -----------------------------
(***************************************************************************)
(* Pause when idle: what the runtime monitors do to the replicas and the   *)
(* autoscaler of ONE service that is configured with pauseOnIdle.          *)
(*                                                                         *)
(* Every replica of every worker of an environment runs a monitor; nothing *)
(* keeps their cycles apart, nor apart from deploys and service.scale.  A  *)
(* cycle reads the deployment, then the request metrics, and then writes   *)
(* the autoscaler and the scale of the deployment, one request each.       *)
(*                                                                         *)
(* Replica counts are abstracted to "none" (FALSE) and "some" (TRUE); the  *)
(* age of what happened is kept in ticks up to Horizon.  A cycle is cut    *)
(* off by its timeout, so that it spans at most CycleTime ticks, and every *)
(* monitor starts a cycle between two ticks.                               *)
(***************************************************************************)
EXTENDS Naturals, FiniteSets

CONSTANTS
  Monitors,       \* monitors of the service's environment
  IdleWindow,     \* ticks without requests after which it is paused
  ResumeSetting,  \* the configured window of requests that resume it
  CycleTime,      \* ticks a cycle may take
  Horizon,        \* bound: ages are not told apart beyond it
  Autoscaled,     \* the service's configuration asks for an autoscaler
  MaxChanges,     \* bound: deploys and scalings
  MaxFaults       \* bound: requests of the monitor or deploy that fail

ASSUME ConstantsAssumption ==
  /\ {IdleWindow, ResumeSetting, CycleTime} \subseteq Nat \ {0}
  /\ Horizon \in Nat /\ Horizon > IdleWindow + CycleTime /\ Horizon > ResumeSetting
  /\ Autoscaled \in BOOLEAN
  /\ {MaxChanges, MaxFaults} \subseteq Nat

VARIABLES
  wanted,     \* the deployment's spec asks for replicas
  running,    \* its status counts replicas
  hpa,        \* the HorizontalPodAutoscaler exists
  request,    \* age of the last request in the metrics
  revision,   \* age of the deployed revision
  paused,     \* age of the last pause (history)
  deploying,  \* a deploy is between its writes
  pc,         \* pc[m]: where monitor m is in its cycle
  spent,      \* spent[m]: ticks in its cycle
  due,        \* due[m]: no cycle of m has started since the last tick
  report,     \* the runtime status the API was told last
  changes,    \* deploys and scalings so far
  faults      \* failed requests so far

service == <<wanted, running, hpa>>
ages    == <<request, revision, paused>>
cycles  == <<pc, spent, due>>
bounds  == <<changes, faults>>
vars    == <<service, ages, deploying, cycles, report, bounds>>

Places == {"waiting", "resumeCheck", "restoring", "resuming", "resumingUnrestored",
           "pauseCheck", "suspending", "pausing"}

TypeOK ==
  /\ wanted \in BOOLEAN /\ running \in BOOLEAN /\ hpa \in BOOLEAN /\ deploying \in BOOLEAN
  /\ request \in 0..Horizon /\ revision \in 0..Horizon /\ paused \in 0..Horizon
  /\ pc \in [Monitors -> Places] /\ due \in [Monitors -> BOOLEAN]
  /\ spent \in [Monitors -> 0..CycleTime]
  /\ report \in {"none", "idle", "pending", "restoration pending", "unknown", "assessed"}
  /\ changes \in 0..MaxChanges /\ faults \in 0..MaxFaults

\* A service that has been running for a while, used or not.
Init ==
  /\ wanted = TRUE /\ running = TRUE /\ hpa = Autoscaled
  /\ request \in {0, Horizon} /\ revision \in {0, Horizon} /\ paused = Horizon
  /\ deploying = FALSE
  /\ pc = [m \in Monitors |-> "waiting"]
  /\ spent = [m \in Monitors |-> 0] /\ due = [m \in Monitors |-> TRUE]
  /\ report = "none" /\ changes = 0 /\ faults = 0

-----------------------------------------------------------------------------
(* Windows.                                                                *)

\* Seeded: the configured window is used as it is.
UncappedResumeWindow == ResumeSetting
\* resolvePauseResumeWindow: never longer than the idle window.
ResumeWindow == IF ResumeSetting > IdleWindow THEN IdleWindow ELSE ResumeSetting

\* hasRequestActivity
Active(window) == request <= window

\* Seeded: the age of the revision does not matter.
AnyRevision == TRUE
\* idleObservationComplete
ObservationComplete == revision >= IdleWindow

\* Seeded: a cycle has no timeout.
Untimed(m) == TRUE
\* A tick finds m between two cycles or in one whose time is not up.
InTime(m) == pc[m] = "waiting" \/ spent[m] < CycleTime

-----------------------------------------------------------------------------
(* A cycle of a monitor: handlePauseWhenIdle.                              *)

Goto(m, place) ==
  /\ pc' = [pc EXCEPT ![m] = place]
  /\ UNCHANGED <<spent, due>>

Ends(m, status) == Goto(m, "waiting") /\ report' = status

\* A request of m fails, or m's cycle has run out of time.
Fault == faults < MaxFaults /\ faults' = faults + 1
NoFault == UNCHANGED faults

\* Seeded: a deployment without replicas is not told apart.
ObserveRunningOnly(m) ==
  /\ pc[m] = "waiting" /\ ObservationComplete
  /\ due' = [due EXCEPT ![m] = FALSE] /\ spent' = [spent EXCEPT ![m] = 0]
  /\ pc' = [pc EXCEPT ![m] = "pauseCheck"]
  /\ NoFault /\ UNCHANGED <<service, ages, deploying, report, changes>>

\* The deployment is read.  Before the observation is complete the service is
\* left to the ordinary assessment.
Observe(m) ==
  /\ pc[m] = "waiting"
  /\ due' = [due EXCEPT ![m] = FALSE] /\ spent' = [spent EXCEPT ![m] = 0]
  /\ \/ /\ ~ObservationComplete
        /\ report' = "assessed" /\ UNCHANGED pc /\ NoFault
     \/ /\ ObservationComplete
        /\ pc' = [pc EXCEPT ![m] = IF running THEN "pauseCheck" ELSE "resumeCheck"]
        /\ UNCHANGED report /\ NoFault
     \/ /\ Fault /\ report' = "unknown" /\ UNCHANGED pc
  /\ UNCHANGED <<service, ages, deploying, changes>>

CheckResume(m) ==
  /\ pc[m] = "resumeCheck"
  /\ \/ /\ Active(ResumeWindow) /\ NoFault
        /\ Goto(m, "restoring") /\ UNCHANGED report
     \/ /\ ~Active(ResumeWindow) /\ NoFault
        /\ Ends(m, "idle")
     \/ Fault /\ Ends(m, "idle")
  /\ UNCHANGED <<service, ages, deploying, changes>>

\* restoreIdleAutoscaler; its error does not stop the resumption.
Restore(m) ==
  /\ pc[m] = "restoring"
  /\ \/ hpa' = (hpa \/ Autoscaled) /\ Goto(m, "resuming") /\ NoFault
     \/ UNCHANGED hpa /\ Goto(m, "resumingUnrestored") /\ Fault
  /\ UNCHANGED <<wanted, running, ages, deploying, report, changes>>

Resume(m) ==
  /\ pc[m] \in {"resuming", "resumingUnrestored"}
  /\ \/ /\ wanted' = TRUE /\ NoFault
        /\ Ends(m, IF pc[m] = "resuming" THEN "pending" ELSE "restoration pending")
     \/ UNCHANGED wanted /\ Fault /\ Ends(m, "unknown")
  /\ UNCHANGED <<running, hpa, ages, deploying, changes>>

CheckPause(m) ==
  /\ pc[m] = "pauseCheck"
  /\ \/ ~Active(IdleWindow) /\ NoFault /\ Goto(m, "suspending") /\ UNCHANGED report
     \/ Active(IdleWindow) /\ NoFault /\ Ends(m, "assessed")
     \/ Fault /\ Ends(m, "assessed")
  /\ UNCHANGED <<service, ages, deploying, changes>>

\* suspendIdleAutoscaler; without it the pause is not tried.
Suspend(m) ==
  /\ pc[m] = "suspending"
  /\ \/ /\ hpa' = (hpa /\ ~Autoscaled) /\ NoFault
        /\ Goto(m, "pausing") /\ UNCHANGED report
     \/ UNCHANGED hpa /\ Fault /\ Ends(m, "unknown")
  /\ UNCHANGED <<wanted, running, ages, deploying, changes>>

Pause(m) ==
  /\ pc[m] = "pausing"
  /\ \/ /\ wanted' = FALSE /\ NoFault /\ Ends(m, "idle")
        /\ paused' = IF wanted THEN 0 ELSE paused
     \/ UNCHANGED <<wanted, paused>> /\ Fault /\ Ends(m, "unknown")
  /\ UNCHANGED <<running, hpa, request, revision, deploying, changes>>

\* The worker ends, or the cycle's context is done.
Expire(m) ==
  /\ pc[m] # "waiting" /\ Fault /\ Goto(m, "waiting")
  /\ UNCHANGED <<service, ages, deploying, report, changes>>

Cycle(m) ==
  \/ Observe(m) \/ CheckResume(m) \/ Restore(m) \/ Resume(m)
  \/ CheckPause(m) \/ Suspend(m) \/ Pause(m)

-----------------------------------------------------------------------------
(* Deploys and scalings beside the monitors.                               *)

\* applyRollingWorkloadResources puts the deployment with a new revision and
\* the configured replicas, and ends with syncAutoscalerResource.
DeployApplies ==
  /\ ~deploying /\ changes < MaxChanges /\ changes' = changes + 1
  /\ deploying' = TRUE /\ wanted' = TRUE /\ revision' = 0
  /\ UNCHANGED <<running, hpa, request, paused, cycles, report, faults>>

DeploySyncs ==
  /\ deploying /\ deploying' = FALSE
  /\ \/ hpa' = Autoscaled /\ NoFault
     \/ UNCHANGED hpa /\ Fault
  /\ UNCHANGED <<wanted, running, ages, cycles, report, changes>>

\* service.scale
Scale(on) ==
  /\ changes < MaxChanges /\ changes' = changes + 1
  /\ wanted # on /\ wanted' = on
  /\ UNCHANGED <<running, hpa, ages, deploying, cycles, report, faults>>

-----------------------------------------------------------------------------
(* Kubernetes, the callers and the clock (external).                       *)

Settle ==
  /\ running # wanted /\ running' = wanted
  /\ UNCHANGED <<wanted, hpa, ages, deploying, cycles, report, bounds>>

Request ==
  /\ request # 0 /\ request' = 0
  /\ UNCHANGED <<service, revision, paused, deploying, cycles, report, bounds>>

Older(age) == IF age < Horizon THEN age + 1 ELSE age

Tick ==
  /\ running = wanted /\ ~deploying
  /\ \A m \in Monitors : ~due[m] /\ InTime(m)
  /\ request' = Older(request) /\ revision' = Older(revision) /\ paused' = Older(paused)
  /\ spent' = [m \in Monitors |-> IF pc[m] = "waiting" THEN 0 ELSE spent[m] + 1]
  /\ due' = [m \in Monitors |-> pc[m] = "waiting"]
  /\ UNCHANGED <<service, deploying, pc, report, bounds>>

Next ==
  \/ \E m \in Monitors : Cycle(m) \/ Expire(m)
  \/ DeployApplies \/ DeploySyncs \/ \E on \in BOOLEAN : Scale(on)
  \/ Settle \/ Request \/ Tick

Spec == Init /\ [][Next]_vars

\* The monitors' loops run, deploys end, Kubernetes reconciles and time passes.
FairSpec ==
  /\ Spec
  /\ \A m \in Monitors : WF_vars(Cycle(m))
  /\ WF_vars(DeploySyncs) /\ WF_vars(Settle) /\ WF_vars(Tick)

-----------------------------------------------------------------------------
(* Properties.                                                             *)

Pauses(m)  == pc[m] = "pausing" /\ wanted /\ ~wanted'
Resumes(m) == pc[m] \in {"resuming", "resumingUnrestored"} /\ ~wanted /\ wanted'

\* What a monitor pauses had neither a request nor a new revision within the
\* idle window, except for what happened during the cycle that pauses it:
\* deployment and metrics are read once and the writes come later.
PausesAreEarned ==
  [][\A m \in Monitors : Pauses(m) =>
       /\ request <= CycleTime \/ request > IdleWindow
       /\ revision <= CycleTime \/ revision >= IdleWindow]_vars

\* A service that has been paused for longer than a cycle is resumed by a request
\* made after the pause, or during the cycle that paused it, never by the ones
\* before: it does not flap.
ResumedByNewRequests ==
  [][\A m \in Monitors : Resumes(m) /\ paused \in CycleTime + 1 .. Horizon - 1
       => request <= paused + CycleTime]_vars

\* A request to a paused service wakes it up, if its revision is older than the
\* idle window and although one request of a monitor fails.
RequestsWake == (~wanted /\ request = 0 /\ revision >= IdleWindow) ~> wanted

\* "Resuming from idle state (%d replicas); autoscaler restoration pending": the
\* restoration reported as pending comes.
RestorationComes == (report = "restoration pending") ~> (hpa = Autoscaled)
=============================================================================
