--------------------------- MODULE ServiceRollout ---------------------------
(***************************************************************************)
(* What the deploy handlers do to the workloads of ONE service, and what   *)
(* its traffic sees of it.                                                 *)
(*                                                                         *)
(* The cluster holds, per workload alias of the service ("base", "canary", *)
(* "blue", "green"), a Deployment and a Service.  The Service of "base" is *)
(* the canonical one: its selector decides which pods get the traffic of   *)
(* the service's own name.  Published rules add VirtualServices, which     *)
(* name the alias Services as destinations.                                *)
(*                                                                         *)
(* Handlers (jobs) are sequences of single writes to the Kubernetes API,   *)
(* planned from reads that may be stale when the writes are made.  Any of  *)
(* them may stop between two writes (an error of a request, a timeout, a   *)
(* crash, a lost claim) and be executed again from the start, because      *)
(* failed attempts are retried and stale operations are recovered          *)
(* (OperationLifecycle).                                                   *)
(*                                                                         *)
(* Abstracted: manifests (a Deployment is the version it runs), replica    *)
(* counts, autoscalers, secrets, policies and edge resources, and the      *)
(* reports on the deploy record.                                           *)
(***************************************************************************)
EXTENDS Naturals, Sequences, SequencesExt, FiniteSets

CONSTANTS
  Versions,     \* versions of the program
  Healthy,      \* versions whose pods become ready
  First,        \* the version an established service runs
  Rules,        \* rules of the service
  Jobs,         \* handlers that may run at the same time
  Absent,       \* no such resource
  NoSlot,       \* no switch has been asked for
  Strategies,   \* strategies the service is configured with
  Starts,       \* clusters to start from: "empty", "rolling", "blue-green"
  Payloads,     \* what deploys carry: a "template", or "rendered" resources
  PayloadSlot,  \* payloads of blue-green switches carry "activeSlot"
  Overrides,    \* "canaryPercentOverride" of rule deploys: "none", "zero", "positive"
  ReadErrors,   \* reads whose errors handlers swallow may fail
  Overlap,      \* rule handlers may run beside a workload handler
  MaxOps        \* bound: executions started in one behaviour

ASSUME ConstantsAssumption ==
  /\ Healthy \subseteq Versions /\ First \in Healthy
  /\ Absent \notin Versions \cup {"base", "canary", "blue", "green"}
  /\ NoSlot \notin {"blue", "green"}
  /\ IsFiniteSet(Rules) /\ Rules # {}
  /\ Strategies \subseteq {"rolling", "canary", "blue-green"}
  /\ Starts \subseteq {"empty", "rolling", "blue-green"}
  /\ Overrides \subseteq {"none", "zero", "positive"}
  /\ Payloads \subseteq {"template", "rendered"}
  /\ PayloadSlot \in BOOLEAN /\ ReadErrors \in BOOLEAN /\ Overlap \in BOOLEAN
  /\ MaxOps \in Nat

Slots     == {"blue", "green"}
Workloads == {"base", "canary"} \cup Slots
Kinds     == {"deploy", "switch", "promote", "rule", "unpublish"}

VARIABLES
  dep,       \* dep[w]: version in the spec of w's Deployment, or Absent
  pods,      \* pods[w]: versions that have available pods
  dying,     \* dying[w]: pods of a deleted Deployment are still running
  sel,       \* sel[w]: which "app" the Service of w selects, or Absent
  route,     \* route[r]: workloads the VirtualService of rule r names
  strategy,  \* the service's configured strategy (API)
  payload,   \* what the API's deploys of this service carry
  primary,   \* the recorded active slot (API)
  asked,     \* slot the pending switch moves away from, or NoSlot (API)
  pc,        \* pc[j]: where handler j is
  job,       \* job[j]: what it fetched at its start
  todo,      \* todo[j]: the writes it still has planned
  started    \* executions started so far

cluster == <<dep, pods, dying, sel, route>>
configured == <<strategy, payload>>
apiVars == <<configured, primary, asked>>
vars    == <<dep, pods, dying, sel, route, strategy, payload, primary, asked, pc, job,
             todo, started>>

Rendered == payload = "rendered"

-----------------------------------------------------------------------------
(* The cluster as handlers see it.                                         *)

\* ResolveBlueGreenSlots: the slot that is not s.
Other(s) == IF s = "green" THEN "blue" ELSE "green"

\* The "app" label of w's pods.  applyRenderedResources renames the canary's
\* resources without retargeting their labels and selectors.
App(w) == IF Rendered /\ w = "canary" THEN "base" ELSE w

\* The versions that requests to the Service of w reach.
Reach(w) == UNION {pods[x] : x \in {y \in Workloads : App(y) = sel[w]}}

Exists(w)    == dep[w] # Absent
Available(w) == Exists(w) /\ pods[w] # {}
\* Seeded: the rollout wait looks at available replicas only.
AvailableIsRolledOut(w) == Available(w)
RolledOut(w) == Exists(w) /\ pods[w] = {dep[w]}
Retired(w)   == ~Exists(w) /\ (dying[w] => App(w) # w)

\* workloadTargetReady
TargetReady(w) == sel[w] # Absent /\ Available(w)

\* Writes: one request each.  Putting Absent is a delete.
PutDep(w, v)   == [on |-> "dep", w |-> w, to |-> v]
PutSvc(w, app) == [on |-> "svc", w |-> w, to |-> app]
PutRoute(r, h) == [on |-> "route", w |-> r, to |-> h]
Drop(w)        == <<PutDep(w, Absent), PutSvc(w, Absent)>>

Apply(x) ==
  /\ dep' = IF x.on = "dep" THEN [dep EXCEPT ![x.w] = x.to] ELSE dep
  /\ sel' = IF x.on = "svc" THEN [sel EXCEPT ![x.w] = x.to] ELSE sel
  /\ route' = IF x.on = "route" THEN [route EXCEPT ![x.w] = x.to] ELSE route
  /\ IF x.on = "dep" /\ x.to = Absent /\ Exists(x.w)
       THEN /\ pods' = [pods EXCEPT ![x.w] = {}]
            /\ dying' = [dying EXCEPT ![x.w] = TRUE]
       ELSE UNCHANGED <<pods, dying>>

-----------------------------------------------------------------------------
Places == {"idle", "done", "planning", "applying", "validating", "promoting", "settling",
           "sweeping", "deleting", "retiring", "awaiting", "shifting", "recording",
           "reverting", "observing", "undoing", "copying", "moving", "listing", "rerouting",
           "confirming", "checking", "publishing"}
Writing == {"applying", "deleting", "rerouting", "publishing"}

JobType == [kind : Kinds, strategy : Strategies \cup {"rolling"}, active : Slots,
            split : BOOLEAN, version : Versions, rule : Rules, blind : BOOLEAN]
WriteType == [on : {"dep"}, w : Workloads, to : Versions \cup {Absent}]
        \cup [on : {"svc"}, w : Workloads, to : Workloads \cup {Absent}]
        \cup [on : {"route"}, w : Rules, to : SUBSET Workloads]

TypeOK ==
  /\ dep \in [Workloads -> Versions \cup {Absent}]
  /\ pods \in [Workloads -> SUBSET Versions]
  /\ dying \in [Workloads -> BOOLEAN]
  /\ sel \in [Workloads -> Workloads \cup {Absent}]
  /\ route \in [Rules -> SUBSET Workloads]
  /\ strategy \in Strategies /\ payload \in Payloads /\ primary \in Slots
  /\ asked \in Slots \cup {NoSlot}
  /\ pc \in [Jobs -> Places]
  /\ job \in [Jobs -> JobType]
  /\ todo \in [Jobs -> Seq(WriteType)]
  /\ started \in 0..MaxOps

\* An established service runs version First on w, and only there.
Only(w, x, y) == [z \in Workloads |-> IF z \in w THEN x ELSE y]
Established(w) ==
  /\ dep = Only(w, First, Absent)
  /\ pods = Only(w, {First}, {})
  /\ sel = [z \in Workloads |-> IF w # {} /\ z \in w \cup {"base"}
                                THEN CHOOSE x \in w : TRUE ELSE Absent]
  /\ route \in [Rules -> {{}, w}]

Init ==
  /\ \/ "empty" \in Starts /\ Established({})
     \/ "rolling" \in Starts /\ Established({"base"})
     \/ "blue-green" \in Starts /\ Established({"blue"})
  /\ dying = [w \in Workloads |-> FALSE]
  /\ strategy \in Strategies /\ payload \in Payloads /\ primary = "blue" /\ asked = NoSlot
  /\ pc = [j \in Jobs |-> "idle"]
  /\ job \in {[j \in Jobs |-> x] : x \in {[kind |-> "deploy", strategy |-> strategy,
                active |-> "blue", split |-> TRUE, version |-> First,
                rule |-> CHOOSE r \in Rules : TRUE, blind |-> FALSE]}}
  /\ todo = [j \in Jobs |-> <<>>]
  /\ started = 0

-----------------------------------------------------------------------------
(* Plans: the writes a handler makes, from what it reads.                  *)

\* A template or payload lists Deployment and Service in either order.
EitherOrder(d, s) == {d \o s, s \o d}

\* Seeded: rolling staging applies the canonical Service as it is rendered.
StagingMovesTraffic(x) ==
  EitherOrder(<<PutDep("base", x.version)>>, <<PutSvc("base", "base")>>)

\* applyRollingWorkloadResources keeps the canonical Service on the workload
\* it selects, if it can read which; rendered resources are applied as they are.
RollingPlans(x) ==
  LET known == ~x.blind /\ sel["base"] # Absent
      keep  == IF ~Rendered /\ known THEN sel["base"] ELSE "base"
  IN  EitherOrder(<<PutDep("base", x.version)>>, <<PutSvc("base", keep)>>)

\* applyCanaryWorkloadResources, or the canary branch of applyRenderedResources
\* (after which reconcileStrategyResources finds the stable workload and stops).
\* A canonical Service that cannot be read is taken for one that selects nothing.
CanaryPlans(x) ==
  LET v            == x.version
      bootstrap(y) == IF Exists("base") THEN <<>> ELSE <<y>>
      preserve     == ~x.blind /\ sel["base"] \notin {Absent, "base"}
  IN  IF Rendered
      THEN EitherOrder(bootstrap(PutDep("base", v)) \o <<PutDep("canary", v)>>,
                       bootstrap(PutSvc("base", "base")) \o <<PutSvc("canary", "base")>>)
      ELSE {(IF preserve THEN <<>>
             ELSE bootstrap(PutSvc("base", "base")) \o bootstrap(PutDep("base", v)))
            \o <<PutDep("canary", v), PutSvc("canary", "canary")>>}

\* Seeded: the canonical Service is pointed at the candidate while staging.
StagingServesCandidate(x) ==
  {<<PutDep(Other(x.active), x.version), PutSvc(Other(x.active), Other(x.active)),
     PutSvc("base", Other(x.active))>>}

\* Seeded: the active slot gets the new version whether it is there or not.
StagingOverActive(x) ==
  {<<PutDep(x.active, x.version), PutSvc(x.active, x.active),
     PutDep(Other(x.active), x.version), PutSvc(Other(x.active), Other(x.active)),
     PutSvc("base", x.active)>>}

\* applyBlueGreenWorkloadResources.  An active slot that does not exist is
\* copied from the legacy workload, if that can be read, or else created with
\* the new version; the target goes by what exists.
BlueGreenPlans(x) ==
  LET active    == x.active
      candidate == Other(active)
      v         == x.version
      legacy    == Exists("base")
      create    == <<PutDep(active, IF legacy /\ ~x.blind THEN dep["base"] ELSE v),
                     PutSvc(active, active)>>
      target    == IF ~Exists(active) /\ legacy THEN "base" ELSE active
  IN  {(IF Exists(active) THEN <<>> ELSE create)
       \o <<PutDep(candidate, v), PutSvc(candidate, candidate), PutSvc("base", target)>>}

DeployPlans(x) ==
  CASE x.strategy = "rolling"    -> RollingPlans(x)
    [] x.strategy = "canary"     -> CanaryPlans(x)
    [] x.strategy = "blue-green" -> BlueGreenPlans(x)

\* cleanupUnusedStrategyWorkloads: what is neither selected by the canonical
\* Service nor named by a VirtualService is deleted.
HostsInUse == UNION {route[r] : r \in Rules}
\* Seeded: cleanup forgets the published routes.
UnusedByService(w) == w # sel["base"]
Unused(w)  == w # sel["base"] /\ w \notin HostsInUse
DropUnused(w) == IF Unused(w) THEN Drop(w) ELSE <<>>

\* The candidates are those of cleanupCandidatesForStrategy, in its order.
CleanupPlan(st) ==
  CASE st = "rolling"    -> DropUnused("canary") \o DropUnused("blue") \o DropUnused("green")
    [] st = "canary"     -> DropUnused("blue") \o DropUnused("green")
    [] st = "blue-green" -> DropUnused("canary")

\* Which workloads the readiness check of a deploy waits for
\* (validateDeploymentReadiness, resolveCanaryReadinessTargets).
ReadinessTargets(x) ==
  CASE x.strategy = "rolling"    -> {"base"}
    [] x.strategy = "blue-green" -> {Other(x.active)}
    [] x.strategy = "canary"     ->
         LET canonical == sel["base"]
             moved == ~Exists("base") /\ canonical \notin {Absent, "base"}
                      /\ Exists(canonical)
         IN  {"canary", IF moved THEN canonical ELSE "base"}

\* shiftPublishedCanaryTraffic: every VirtualService that names the canary is
\* put back with the stable host in its place, in the order of the listing.
\* Seeded: the shift writes the name of a host that does not exist.
ShiftedToAlias(h) == (h \ {"canary"}) \cup {"stable"}
Shifted(h) == (h \ {"canary"}) \cup {"base"}
ShiftPlans ==
  SetToSeqs({PutRoute(r, Shifted(route[r])) : r \in {q \in Rules : "canary" \in route[q]}})

\* normalizeRuleDeployStrategyForAvailability: what a rule deploy makes of the
\* service x, where ready says which workloads workloadTargetReady found ready.
\* A failed read leaves the service as it is configured.
Normalized(x, ready) ==
  CASE x.strategy = "canary" /\ ~({"base", "canary"} \subseteq ready) ->
         [x EXCEPT !.split = FALSE]
    [] x.strategy = "blue-green" /\ x.active \notin ready /\ Other(x.active) \in ready ->
         [x EXCEPT !.active = Other(x.active)]
    [] x.strategy = "blue-green" /\ ready \cap Slots = {} /\ sel["base"] # Absent ->
         [x EXCEPT !.strategy = "rolling"]
    [] OTHER -> x

\* applyRuleDeployStrategyOverride
Overridden(x, override) ==
  IF x.strategy = "canary" /\ override # "none"
    THEN [x EXCEPT !.split = (override = "positive")] ELSE x

\* buildStrategyDestinations
Destinations(x) ==
  CASE x.strategy = "blue-green"         -> {x.active}
    [] x.strategy = "canary" /\ x.split  -> {"base", "canary"}
    [] OTHER                             -> {"base"}

-----------------------------------------------------------------------------
(* Control of a handler.                                                   *)

Goto(j, place) == pc' = [pc EXCEPT ![j] = place]
At(j, place)   == pc[j] = place
Running(j)     == pc[j] \notin {"idle", "done"}
Keeps(x)       == x \in {"rule", "unpublish"}   \* leaves the workloads' writes alone

\* Where a handler goes when its planned writes are made.
After(j) ==
  CASE pc[j] = "applying"   -> "validating"
    [] pc[j] = "rerouting"  -> "confirming"
    [] pc[j] = "deleting"   -> IF job[j].kind = "rule" THEN "done" ELSE "retiring"
    [] pc[j] = "publishing" -> IF job[j].kind = "rule" THEN "sweeping" ELSE "done"

\* j has read what it needs and starts on its writes.
Plan(j, place, writes) == Goto(j, place) /\ todo' = [todo EXCEPT ![j] = writes]

\* The next planned write succeeds.
Write(j) ==
  /\ pc[j] \in Writing /\ todo[j] # <<>>
  /\ Apply(Head(todo[j]))
  /\ todo' = [todo EXCEPT ![j] = Tail(todo[j])]
  /\ UNCHANGED <<pc, job, started, apiVars>>

WritesMade(j) ==
  /\ pc[j] \in Writing /\ todo[j] = <<>>
  /\ Goto(j, After(j))
  /\ UNCHANGED <<cluster, apiVars, job, todo, started>>

\* An execution begins: the service context is fetched from the API.
\* The API serializes the operations that change workloads of one service;
\* rule operations it queues beside them if Overlap.
Admitted(k) ==
  \A i \in Jobs : Running(i) => Overlap /\ Keeps(k) # Keeps(job[i].kind)

FirstPlace(k) ==
  CASE k = "deploy"    -> "planning"
    [] k = "switch"    -> "awaiting"
    [] k = "promote"   -> "copying"
    [] k = "rule"      -> "checking"
    [] k = "unpublish" -> "publishing"

\* Seeded: the payload's slot is ignored.
RecordedSlot(k) == primary

\* The slot a switch takes for the active one: the payload's, or the API's.
ActiveSlot(k) == IF k = "switch" /\ PayloadSlot THEN asked ELSE primary

\* unread: a read fails whose error this execution will swallow.  One choice for
\* all of its reads loses nothing: whichever fails, the plan is either the same
\* or that of no failure.
Start(j) ==
  \E k \in Kinds, v \in Versions, r \in Rules, unread \in BOOLEAN :
    /\ ~Running(j) /\ started < MaxOps /\ Admitted(k)
    /\ k = "switch" => asked # NoSlot /\ strategy = "blue-green"
    /\ k = "promote" => strategy = "canary"
    /\ k # "deploy" => v = First
    /\ ~Keeps(k) => r = CHOOSE q \in Rules : TRUE
    /\ unread => /\ ReadErrors /\ k \in {"deploy", "rule"}
                 /\ k = "rule" => strategy # "rolling"
    /\ job' = [job EXCEPT ![j] = [kind |-> k, strategy |-> strategy,
                                  active |-> ActiveSlot(k), split |-> TRUE,
                                  version |-> v, rule |-> r, blind |-> unread]]
    /\ Plan(j, FirstPlace(k), IF k = "unpublish" THEN <<PutRoute(r, {})>> ELSE <<>>)
    /\ started' = started + 1
    /\ UNCHANGED <<cluster, apiVars>>

\* The operation of a switch that ends may be executed again (recovery).
SettleAsked(j) ==
  IF job[j].kind = "switch" THEN asked' \in {asked, NoSlot} ELSE UNCHANGED asked

\* A request fails, a wait times out, the claim is lost or the worker dies:
\* the handler ends where it is.
Abort(j) ==
  /\ Running(j)
  /\ Goto(j, "idle") /\ todo' = [todo EXCEPT ![j] = <<>>]
  /\ SettleAsked(j)
  /\ UNCHANGED <<cluster, configured, primary, job, started>>

-----------------------------------------------------------------------------
(* service.deploy: HandleServiceDeploy.                                    *)

PlanDeploy(j) ==
  /\ At(j, "planning")
  /\ \E writes \in DeployPlans(job[j]) : Plan(j, "applying", writes)
  /\ UNCHANGED <<cluster, apiVars, job, started>>

\* validateDeploymentReadiness: one available pod is enough, of any version.
Validated(j) ==
  /\ At(j, "validating")
  /\ \A w \in ReadinessTargets(job[j]) : Available(w)
  /\ Goto(j, IF job[j].strategy = "rolling" THEN "promoting" ELSE "done")
  /\ UNCHANGED <<cluster, apiVars, job, todo, started>>

\* promoteRollingTraffic
PromoteRolling(j) ==
  /\ At(j, "promoting") /\ sel["base"] # Absent
  /\ Apply(PutSvc("base", "base"))
  /\ Goto(j, "settling")
  /\ UNCHANGED <<apiVars, job, todo, started>>

\* waitForDeploymentRollout of the stable workload
Settled(j) ==
  /\ At(j, "settling") /\ RolledOut("base")
  /\ Goto(j, IF job[j].kind = "promote" THEN "moving" ELSE "sweeping")
  /\ UNCHANGED <<cluster, apiVars, job, todo, started>>

\* cleanupUnusedStrategyWorkloads reads the destination hosts and the
\* canonical target once, before its deletes.
Sweep(j) ==
  /\ At(j, "sweeping")
  /\ Plan(j, "deleting",
          CleanupPlan(IF job[j].kind = "rule" THEN job[j].strategy ELSE "rolling"))
  /\ UNCHANGED <<cluster, apiVars, job, started>>

\* What waitForRetiredWorkloads waits for at the end of a handler.
Leaving(x) ==
  CASE x.kind = "deploy"  -> {"canary", "blue", "green"}
    [] x.kind = "promote" -> {"canary"}
    [] x.kind = "switch"  -> {x.active}

Finish(j) ==
  /\ At(j, "retiring")
  /\ \A w \in Leaving(job[j]) : Retired(w)
  /\ Goto(j, "done")
  /\ asked' = IF job[j].kind = "switch" THEN NoSlot ELSE asked
  /\ UNCHANGED <<cluster, configured, primary, job, todo, started>>

-----------------------------------------------------------------------------
(* service.blue-green switch: HandleSwitchBlueGreen, promoteBlueGreen.     *)

\* The readiness and rollout waits on the candidate.
CandidateLive(j) ==
  /\ At(j, "awaiting") /\ RolledOut(Other(job[j].active))
  /\ Goto(j, "shifting")
  /\ UNCHANGED <<cluster, apiVars, job, todo, started>>

SwitchCanonical(j) ==
  /\ At(j, "shifting") /\ sel["base"] # Absent
  /\ Apply(PutSvc("base", Other(job[j].active)))
  /\ Goto(j, "recording")
  /\ UNCHANGED <<apiVars, job, todo, started>>

\* UpdateBlueGreenActiveSlot; an error may hide that the API took the update.
RecordSlot(j) ==
  /\ At(j, "recording")
  /\ \/ primary' = Other(job[j].active) /\ Goto(j, "observing")
     \/ primary' \in {primary, Other(job[j].active)} /\ Goto(j, "reverting")
  /\ UNCHANGED <<cluster, configured, asked, job, todo, started>>

\* Best effort: the canonical Service goes back to the slot it came from.
Revert(j) ==
  /\ At(j, "reverting")
  /\ \/ Apply(PutSvc("base", job[j].active))
     \/ UNCHANGED cluster
  /\ Goto(j, "idle") /\ SettleAsked(j)
  /\ UNCHANGED <<configured, primary, job, todo, started>>

\* The promoted slot is watched; what is cancelled meanwhile is not rolled
\* back (Abort), what looks unhealthy is.
ObserveHealthy(j) ==
  /\ At(j, "observing") /\ Available(Other(job[j].active))
  /\ Plan(j, "deleting", Drop(job[j].active) \o <<PutDep("base", Absent)>>)
  /\ UNCHANGED <<cluster, apiVars, job, started>>

ObserveUnhealthy(j) ==
  /\ At(j, "observing")
  /\ \/ Apply(PutSvc("base", job[j].active))
     \/ UNCHANGED cluster
  /\ Goto(j, "undoing")
  /\ UNCHANGED <<apiVars, job, todo, started>>

UndoSlot(j) ==
  /\ At(j, "undoing")
  /\ primary' \in {primary, job[j].active}
  /\ Goto(j, "idle") /\ SettleAsked(j)
  /\ UNCHANGED <<cluster, configured, job, todo, started>>

-----------------------------------------------------------------------------
(* service.promote-canary: HandlePromoteCanary.                            *)

\* The stable Deployment is put with the version the canary runs.
CopyCanary(j) ==
  /\ At(j, "copying") /\ Exists("canary") /\ sel["canary"] # Absent
  /\ job' = [job EXCEPT ![j].version = dep["canary"]]
  /\ Apply(PutDep("base", dep["canary"]))
  /\ Goto(j, "settling")
  /\ UNCHANGED <<apiVars, todo, started>>

MoveStableService(j) ==
  /\ At(j, "moving")
  /\ Apply(PutSvc("base", "base"))
  /\ Goto(j, "listing")
  /\ UNCHANGED <<apiVars, job, todo, started>>

ListPublished(j) ==
  /\ At(j, "listing")
  /\ \E writes \in ShiftPlans : Plan(j, "rerouting", writes)
  /\ UNCHANGED <<cluster, apiVars, job, started>>

\* canaryTrafficRemains ends the handler with an error (Abort) otherwise.
ConfirmShifted(j) ==
  /\ At(j, "confirming") /\ "canary" \notin HostsInUse
  /\ Goto(j, "sweeping")
  /\ UNCHANGED <<cluster, apiVars, job, todo, started>>

-----------------------------------------------------------------------------
(* rule.deploy and rule.delete: HandleRuleDeploy, HandleRuleDelete.        *)

CheckAvailability(j) ==
  /\ At(j, "checking")
  /\ \E override \in Overrides :
       LET ready   == {w \in Workloads : TargetReady(w)}
           service == IF job[j].blind THEN job[j] ELSE Normalized(job[j], ready)
           final   == Overridden(service, override)
       IN  /\ job' = [job EXCEPT ![j] = final]
           /\ Plan(j, "publishing", <<PutRoute(final.rule, Destinations(final))>>)
  /\ UNCHANGED <<cluster, apiVars, started>>

\* The cleanup of a rule deploy is best effort.
CleanupSkipped(j) ==
  /\ job[j].kind = "rule" /\ pc[j] \in {"sweeping", "deleting"}
  /\ Plan(j, "done", <<>>)
  /\ UNCHANGED <<cluster, apiVars, job, started>>

-----------------------------------------------------------------------------
(* Kubernetes and the operator (external).                                 *)

\* Updates are surge-first: old pods go when new ones are available.
PodsReady(w) ==
  /\ dep[w] \in Healthy \ pods[w]
  /\ pods' = [pods EXCEPT ![w] = @ \cup {dep[w]}]
  /\ UNCHANGED <<dep, dying, sel, route>>

OldPodsGone(w) ==
  /\ dep[w] \in pods[w] /\ pods[w] # {dep[w]}
  /\ pods' = [pods EXCEPT ![w] = {dep[w]}]
  /\ UNCHANGED <<dep, dying, sel, route>>

PodsGone(w) ==
  /\ dying[w] /\ dying' = [dying EXCEPT ![w] = FALSE]
  /\ UNCHANGED <<dep, pods, sel, route>>

Kubernetes ==
  /\ \E w \in Workloads : PodsReady(w) \/ OldPodsGone(w) \/ PodsGone(w)
  /\ UNCHANGED <<apiVars, pc, job, todo, started>>

Configure(s) ==
  /\ strategy # s /\ strategy' = s
  /\ UNCHANGED <<cluster, payload, primary, asked, pc, job, todo, started>>

RequestSwitch ==
  /\ strategy = "blue-green" /\ asked = NoSlot /\ asked' = primary
  /\ UNCHANGED <<cluster, configured, primary, pc, job, todo, started>>

Handler(j) ==
  \/ Start(j) \/ Write(j) \/ WritesMade(j) \/ Abort(j)
  \/ PlanDeploy(j) \/ Validated(j) \/ PromoteRolling(j) \/ Settled(j) \/ Sweep(j) \/ Finish(j)
  \/ CandidateLive(j) \/ SwitchCanonical(j) \/ RecordSlot(j) \/ Revert(j)
  \/ ObserveHealthy(j) \/ ObserveUnhealthy(j) \/ UndoSlot(j)
  \/ CopyCanary(j) \/ MoveStableService(j) \/ ListPublished(j) \/ ConfirmShifted(j)
  \/ CheckAvailability(j) \/ CleanupSkipped(j)

Next ==
  \/ \E j \in Jobs : Handler(j)
  \/ Kubernetes
  \/ \E s \in Strategies : Configure(s)
  \/ RequestSwitch

Spec == Init /\ [][Next]_vars

-----------------------------------------------------------------------------
(* Properties.                                                             *)

\* Requests to the service's own name reach a pod.
Serving == sel["base"] # Absent /\ Reach("base") # {}

\* Where no service is configured blue-green, whatever is cut off, executed again
\* or published beside it, traffic goes from pods that serve it to none in two ways
\* only.  A deploy stages without knowing where the traffic is, because the read of
\* the canonical Service failed (deploys_strategy_apply_workloads.go:60 and :187) or
\* because rendered resources are applied unread, and points it at a stable workload
\* that has no pods.  Or a cleanup deletes a rendered canary, whose pods carry the
\* label of a stable workload that has none of its own.
\* A handler that could read never does, nor do promotions and other cleanups.
LostOnlyUnseen ==
  [][Serving /\ ~Serving' =>
       \E j \in Jobs :
         \/ /\ pc[j] = "applying" /\ (job[j].blind \/ Rendered)
            /\ ~Available("base") /\ sel["base"] # "base" /\ sel'["base"] = "base"
         \/ /\ pc[j] = "deleting" /\ Rendered
            /\ ~Available("base") /\ Exists("canary") /\ dep'["canary"] = Absent]_vars

\* What the comment of promoteRollingTraffic says of rolling deploys: the canonical
\* Service is switched to the rolling workload "only after readiness succeeded,
\* avoiding traffic cutover before pods are healthy".  It does not hold of a deploy
\* whose staging could not read where the Service points.
CutoverWaits ==
  [][sel["base"] \notin {Absent, "base"} /\ sel'["base"] = "base" => Available("base")]_vars

\* Between two slots, and on the way from a legacy workload to slots, traffic is
\* lost in one way only: by going to the slot a handler took for the active one,
\* which applyBlueGreenWorkloadResources and the undo of promoteBlueGreen do
\* without looking whether it has pods.
\* Moving on to a candidate, and deleting a slot, never lose it.
LostOnlyGoingBack ==
  [][Serving /\ ~Serving' =>
       \E j \in Jobs : /\ Running(j) /\ ~Available(job[j].active)
                      /\ sel["base"] # job[j].active /\ sel'["base"] = job[j].active]_vars

\* A workload that a published VirtualService names is not deleted: cleanup
\* keeps it "while traffic still references it", promotion shifts the route.
RoutesKept ==
  [][\A w \in HostsInUse : /\ Exists(w) => dep'[w] # Absent
                           /\ sel[w] # Absent => sel'[w] # Absent]_vars

\* A handler that reports success left the traffic on what it deployed: the
\* rollout is complete and no pod of another version answers.
Completes(j) == pc[j] = "retiring" /\ pc'[j] = "done"
LiveVersion(x) == IF x.kind = "switch" THEN dep[Other(x.active)] ELSE x.version
SuccessIsLive == [][\A j \in Jobs : Completes(j) => Reach("base") = {LiveVersion(job[j])}]_vars

\* While a switch away from a slot is pending, however often it is executed,
\* what it moved stays moved (except by its own undo) and no execution of it
\* deletes the slot the traffic was to move to.
SwitchSticks ==
  [][asked # NoSlot =>
       /\ primary # asked /\ primary' = asked => \E j \in Jobs : pc[j] = "undoing"
       /\ \A j \in Jobs : /\ Running(j) /\ job[j].kind = "switch"
                         /\ Exists(Other(asked))
                         => dep'[Other(asked)] # Absent]_vars

\* While the API's record of the active slot says where the traffic is, staging a
\* blue-green candidate leaves the pods alone that carry it ("Traffic stays on %s
\* until an operator switches").  Only a record that a switch, cut off before it
\* was made, left behind lets a deploy stage over the slot that serves.
StagingSparesTraffic ==
  [][\A j \in Jobs :
       /\ pc[j] = "applying" /\ job[j].strategy = "blue-green" /\ Serving
       /\ sel["base"] = primary
       => dep'[primary] = dep[primary]]_vars

\* A published route loses the workload it names in one way only: a switch, which
\* does not look at routes as the other cleanups do, deletes what the traffic of
\* the service's own name has left for good, and never what it has moved to.
OnlySwitchesCutRoutes ==
  [][\A w \in HostsInUse : Exists(w) /\ dep'[w] = Absent =>
       w # sel["base"] /\ \E j \in Jobs : Running(j) /\ job[j].kind = "switch"
                                          /\ w \in {"base", job[j].active}]_vars
=============================================================================
