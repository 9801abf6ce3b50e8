------------------------ MODULE ServiceRolloutProofs ------------------------
(***************************************************************************)
(* Theorems about ServiceRollout, for every set of versions, rules and     *)
(* jobs, however the service is configured and however many executions     *)
(* there are: the types, how alone the service's traffic can be lost, that *)
(* published routes keep their workloads, and that success means live.     *)
(*                                                                         *)
(* One inductive invariant, IInv, serves all of them.  It says which       *)
(* handlers may run at once (Exclusive), what kind of handler is where     *)
(* (Course), which writes it can still have planned there (Planned and the *)
(* predicates on the rest of its plan), and how far those that report      *)
(* success have come (BaseProgress, SwitchProgress).                       *)
(***************************************************************************)
EXTENDS ServiceRollout, FiniteSetTheorems, SequenceTheorems, TLAPS

ClusterTypes ==
  /\ dep \in [Workloads -> Versions \cup {Absent}]
  /\ pods \in [Workloads -> SUBSET Versions]
  /\ sel \in [Workloads -> Workloads \cup {Absent}]
  /\ route \in [Rules -> SUBSET Workloads]
DyingType == dying \in [Workloads -> BOOLEAN]
ApiTypes ==
  /\ strategy \in Strategies /\ payload \in Payloads /\ primary \in Slots
  /\ asked \in Slots \cup {NoSlot}
JobTypes == job \in [Jobs -> JobType]
HandlerTypes == pc \in [Jobs -> Places] /\ todo \in [Jobs -> Seq(WriteType)]
CountType == started \in 0..MaxOps

LEMMA TypeParts == TypeOK <=> /\ ClusterTypes /\ DyingType /\ ApiTypes /\ JobTypes
                              /\ HandlerTypes /\ CountType
  BY DEF TypeOK, ClusterTypes, DyingType, ApiTypes, JobTypes, HandlerTypes, CountType

-----------------------------------------------------------------------------
(* Sequences of writes.                                                    *)

\* Short sequences, enumerations of a set, and one plan after another.
LEMMA Short ==
  ASSUME NEW S, NEW a \in S, NEW b \in S, NEW c \in S
  PROVE  /\ <<>> \in Seq(S) /\ <<a>> \in Seq(S) /\ <<a, b>> \in Seq(S)
         /\ <<a, b, c>> \in Seq(S)
  OBVIOUS

LEMMA Enumeration ==
  ASSUME NEW S, NEW n \in Nat, NEW s \in [1..n -> S]
  PROVE  s \in Seq(S)
  OBVIOUS

LEMMA Joined ==
  ASSUME NEW S, NEW s \in Seq(S), NEW t \in Seq(S)
  PROVE  s \o t \in Seq(S)
  OBVIOUS

LEMMA Pair ==
  ASSUME NEW S, NEW a \in S, NEW b \in S
  PROVE  Len(<<a>> \o <<b>>) = 2 /\ (<<a>> \o <<b>>)[1] = a /\ (<<a>> \o <<b>>)[2] = b
  OBVIOUS

\* What holds of every write of a sequence holds of its head and of its tail.
LEMMA HeadTail ==
  ASSUME NEW S, NEW s \in Seq(S), s # <<>>
  PROVE  Head(s) \in S /\ Tail(s) \in Seq(S)
  BY HeadTailProperties

LEMMA Widened ==
  ASSUME NEW S, NEW T, NEW s \in Seq(S), S \subseteq T
  PROVE  s \in Seq(T)
  BY SeqMonotonic

-----------------------------------------------------------------------------
(***************************************************************************)
(* The inductive invariant, in parts.                                      *)
(***************************************************************************)

\* Handlers that change the workloads, as opposed to rule operations.
Moves(x) == ~Keeps(x.kind)

\* At most one handler that changes workloads runs, and at most one rule
\* operation beside it, if the API lets them overlap (Admitted).
Exclusive ==
  \A i, j \in Jobs : Running(i) /\ Running(j) /\ i # j =>
    Overlap /\ Keeps(job[i].kind) # Keeps(job[j].kind)

\* Pods stand behind a Deployment: deleting it takes its pods off the Service.
PodsBehind == \A w \in Workloads : pods[w] # {} => dep[w] # Absent

\* Which places a handler of which kind passes, and with which strategy.
RollingPlaces   == {"promoting", "settling", "sweeping", "deleting", "retiring"}
DeployPlaces    == {"planning", "applying", "validating"} \cup RollingPlaces
SwitchPlaces    == {"awaiting", "shifting", "recording", "reverting", "observing", "undoing",
                    "deleting", "retiring"}
PromotePlaces   == {"copying", "settling", "moving", "listing", "rerouting", "confirming",
                    "sweeping", "deleting", "retiring"}
RulePlaces      == {"checking", "publishing", "sweeping", "deleting"}
OnCourse(j) ==
  /\ job[j].kind = "deploy"    => /\ pc[j] \in DeployPlaces
                                  /\ job[j].strategy \in Strategies
                                  /\ pc[j] \in RollingPlaces => job[j].strategy = "rolling"
  /\ job[j].kind = "switch"    => pc[j] \in SwitchPlaces /\ "blue-green" \in Strategies
  /\ job[j].kind = "promote"   => pc[j] \in PromotePlaces /\ "canary" \in Strategies
  /\ job[j].kind = "rule"      => pc[j] \in RulePlaces
  /\ job[j].kind = "unpublish" => pc[j] = "publishing"
Course == \A j \in Jobs : Running(j) => OnCourse(j)

\* What the writes of a handler may be, by what it does.
Candidates == {"canary", "blue", "green"}
Staged(x) ==
  CASE x.strategy = "rolling"    -> {PutDep("base", x.version)} \cup {PutSvc("base", w) : w \in Workloads}
    [] x.strategy = "canary"     -> {PutDep(w, x.version) : w \in {"base", "canary"}}
                                    \cup {PutSvc("base", "base")}
                                    \cup {PutSvc("canary", w) : w \in {"base", "canary"}}
    [] x.strategy = "blue-green" -> {PutDep(w, v) : w \in Slots, v \in Versions}
                                    \cup {PutSvc(w, w) : w \in Slots}
                                    \cup {PutSvc("base", w) : w \in {"base", x.active}}
Drops(W) == {PutDep(w, Absent) : w \in W} \cup {PutSvc(w, Absent) : w \in W}
Publishings == {PutRoute(r, h) : r \in Rules, h \in SUBSET Workloads}
Meant(x, place) ==
  CASE place = "applying"   -> Staged(x)
    [] place = "deleting"   -> IF x.kind = "switch"
                               THEN Drops({x.active}) \cup {PutDep("base", Absent)}
                               ELSE Drops(Candidates)
    [] place = "rerouting"  -> Publishings
    [] place = "publishing" -> Publishings
Planned == \A j \in Jobs : pc[j] \in Writing => todo[j] \in Seq(Meant(job[j], pc[j]))

\* While a handler x stages under a strategy without slots, a write of the
\* canonical Service keeps the traffic where it is, or gives it a first target;
\* rendered resources, and a handler that could not read where the traffic is,
\* point it at the canonical workload.
Kept(x) == {y \in WriteType : y.on = "svc" /\ y.w = "base" =>
              /\ y.to # Absent
              /\ IF Rendered \/ x.blind THEN y.to = "base"
                 ELSE y.to = sel["base"] \/ (sel["base"] = Absent /\ y.to = "base")}
TrafficKept ==
  \A j \in Jobs : pc[j] = "applying" /\ job[j].strategy # "blue-green"
                  => todo[j] \in Seq(Kept(job[j]))

\* A rolling deploy and a promotion move the traffic to pods that are there.
BaseReady ==
  \A j \in Jobs : pc[j] \in {"promoting", "moving"} => pods["base"] # {}

\* What a cleanup is about to delete is not what the traffic goes to: no handler
\* beside it moves the traffic to a slot.
Crossed == Overlap /\ "blue-green" \in Strategies
Untargeted == {x \in WriteType : x.w # sel["base"]}
SweepsSpareTraffic ==
  \A j \in Jobs : pc[j] = "deleting" /\ job[j].kind # "switch" => todo[j] \in Seq(Untargeted)

\* ... nor what a published route names, if no rule operation is beside it.
Unrouted == {x \in WriteType : x.w \notin HostsInUse}
SweepsSpareRoutes ==
  \A j \in Jobs : pc[j] = "deleting" /\ job[j].kind # "switch" => todo[j] \in Seq(Unrouted)

\* What the handlers that finish by reporting success have done so far.
BaseWritten(j) ==
  \/ /\ job[j].kind = "deploy" /\ job[j].strategy = "rolling"
     /\ pc[j] \in {"validating"} \cup RollingPlaces
  \/ job[j].kind = "promote" /\ pc[j] \in PromotePlaces \ {"copying"}
BaseSettled(j) ==
  \/ job[j].kind = "deploy" /\ pc[j] \in RollingPlaces \ {"promoting", "settling"}
  \/ job[j].kind = "promote" /\ pc[j] \in PromotePlaces \ {"copying", "settling"}
BaseSelected(j) ==
  \/ job[j].kind = "deploy" /\ pc[j] \in RollingPlaces \ {"promoting"}
  \/ job[j].kind = "promote" /\ pc[j] \in PromotePlaces \ {"copying", "settling", "moving"}
OnlyCurrent(w) == dep[w] # Absent /\ pods[w] = {dep[w]}
StagedBase(j) == \/ dep["base"] = job[j].version
                 \/ \E i \in 1..Len(todo[j]) : todo[j][i] = PutDep("base", job[j].version)
BaseProgress ==
  \A j \in Jobs :
    /\ job[j].kind = "deploy" /\ job[j].strategy = "rolling" /\ pc[j] = "applying" => StagedBase(j)
    /\ BaseWritten(j) => dep["base"] = job[j].version
    /\ BaseSettled(j) => OnlyCurrent("base")
    /\ BaseSelected(j) => sel["base"] = "base"

SwitchProgress ==
  \A j \in Jobs : job[j].kind = "switch" =>
    /\ pc[j] \in {"shifting", "recording", "observing", "deleting", "retiring"}
         => OnlyCurrent(Other(job[j].active))
    /\ pc[j] \in {"recording", "observing", "deleting", "retiring"}
         => sel["base"] = Other(job[j].active)

\* A deploy works with the slot the API records, a switch with the slot it was
\* asked to move away from.
ActiveRecorded ==
  \A j \in Jobs : Running(j) /\ job[j].kind = "deploy" => job[j].active = primary
SwitchAsked ==
  \A j \in Jobs : Running(j) /\ job[j].kind = "switch" => job[j].active = asked

\* A blue-green deploy writes the active slot's Deployment only to create it, and first.
Elsewhere(w) == {x \in WriteType : ~(x.on = "dep" /\ x.w = w)}
ActiveCreatedFirst ==
  \A j \in Jobs : pc[j] = "applying" /\ job[j].strategy = "blue-green" =>
    \/ todo[j] \in Seq(Elsewhere(job[j].active))
    \/ /\ todo[j] # <<>> /\ dep[job[j].active] = Absent
       /\ Tail(todo[j]) \in Seq(Elsewhere(job[j].active))

\* Where only slots are deployed: the legacy workload, while it is there, has
\* pods; there is no canary; and a staging deploy points the traffic at the
\* active slot, or at the legacy workload it found.
ToLegacy == {x \in WriteType : x.on = "svc" /\ x.w = "base" /\ x.to = "base" => dep["base"] # Absent}
SlotsOnly ==
  /\ dep["canary"] = Absent
  /\ dep["base"] # Absent => pods["base"] # {}
  /\ \A j \in Jobs : pc[j] = "applying" => todo[j] \in Seq(ToLegacy)

-----------------------------------------------------------------------------
(* What the plans write.                                                   *)

LEMMA Vocabulary ==
  /\ Absent \notin Versions /\ Absent \notin Workloads
  /\ Workloads = {"base", "canary", "blue", "green"}
  /\ Slots \subseteq Workloads /\ Candidates \subseteq Workloads
  /\ \A s \in Slots : Other(s) \in Slots /\ Other(s) # s /\ Other(Other(s)) = s
  BY ConstantsAssumption DEF Workloads, Slots, Candidates, Other

\* The three kinds of writes.
LEMMA Kinded ==
  /\ \A w \in Workloads, v \in Versions \cup {Absent} : PutDep(w, v) \in WriteType
  /\ \A w \in Workloads, v \in Workloads \cup {Absent} : PutSvc(w, v) \in WriteType
  /\ \A r \in Rules, h \in SUBSET Workloads : PutRoute(r, h) \in WriteType
  BY DEF PutDep, PutSvc, PutRoute, WriteType

LEMMA MeantTyped ==
  ASSUME NEW x \in JobType, NEW place \in Writing,
         place = "applying" => x.strategy \in {"rolling", "canary", "blue-green"}
  PROVE  Meant(x, place) \subseteq WriteType
  <1>1. Publishings \subseteq WriteType
    BY Kinded DEF Publishings
  <1>2. ASSUME NEW W \in SUBSET Workloads PROVE Drops(W) \subseteq WriteType
    BY Kinded DEF Drops
  <1>3. x.active \in Slots /\ x.version \in Versions
    BY DEF JobType
  <1>4. Staged(x) \subseteq WriteType \/ place # "applying"
    <2>1. CASE x.strategy = "rolling"
      BY <2>1, <1>3, Kinded, Vocabulary DEF Staged
    <2>2. CASE x.strategy = "canary"
      BY <2>2, <1>3, Kinded, Vocabulary DEF Staged
    <2>3. CASE x.strategy = "blue-green"
      BY <2>3, <1>3, Kinded, Vocabulary DEF Staged
    <2>4. QED
      BY <2>1, <2>2, <2>3
  <1>5. Drops({x.active}) \subseteq WriteType /\ Drops(Candidates) \subseteq WriteType
    BY <1>2, <1>3, Vocabulary
  <1>6. PutDep("base", Absent) \in WriteType
    BY Kinded, Vocabulary
  <1>7. QED
    BY <1>1, <1>4, <1>5, <1>6 DEF Meant, Writing

\* A cleanup drops candidates that neither the traffic nor a route needs.
Unneeded == {x \in Drops(Candidates) : x.w # sel["base"] /\ x.w \notin HostsInUse}
LEMMA CleanupWrites ==
  ASSUME NEW st \in {"rolling", "canary", "blue-green"}
  PROVE  CleanupPlan(st) \in Seq(Unneeded)
  <1>1. ASSUME NEW w \in Candidates PROVE DropUnused(w) \in Seq(Unneeded)
    <2>1. CASE Unused(w)
      <3>1. PutDep(w, Absent) \in Unneeded /\ PutSvc(w, Absent) \in Unneeded
        BY <2>1 DEF Unneeded, Drops, Unused, PutDep, PutSvc
      <3>2. QED
        BY <2>1, <3>1, Short DEF DropUnused, Drop
    <2>2. CASE ~Unused(w)
      BY <2>2, Short DEF DropUnused
    <2>3. QED
      BY <2>1, <2>2
  <1> DEFINE c == DropUnused("canary")  b == DropUnused("blue")  g == DropUnused("green")
  <1>2. c \in Seq(Unneeded) /\ b \in Seq(Unneeded) /\ g \in Seq(Unneeded)
    BY <1>1 DEF Candidates
  <1> HIDE DEF c, b, g
  <1>3. c \o b \o g \in Seq(Unneeded) /\ b \o g \in Seq(Unneeded)
    BY <1>2, Joined
  <1>4. QED
    BY <1>2, <1>3 DEF CleanupPlan, c, b, g

LEMMA ShiftWrites ==
  ASSUME ClusterTypes, NEW writes \in ShiftPlans
  PROVE  writes \in Seq(Publishings)
  <1> DEFINE named == {q \in Rules : "canary" \in route[q]}
             S     == {PutRoute(r, Shifted(route[r])) : r \in named}
  <1>1. IsFiniteSet(named)
    BY FS_Subset, ConstantsAssumption
  <1>2. IsFiniteSet(S)
    <2> DEFINE f == [r \in named |-> PutRoute(r, Shifted(route[r]))]
    <2>1. f \in Surjection(named, S)
      BY DEF Surjection
    <2>2. QED
      BY <1>1, <2>1, FS_Surjection
  <1>3. Cardinality(S) \in Nat
    BY <1>2, FS_CardinalityType
  <1>4. S \subseteq Publishings
    <2>1. ASSUME NEW r \in Rules PROVE Shifted(route[r]) \in SUBSET Workloads
      BY Vocabulary DEF Shifted, ClusterTypes
    <2>2. QED
      BY <2>1 DEF Publishings
  <1>5. writes \in [1..Cardinality(S) -> S]
    BY DEF ShiftPlans, SetToSeqs
  <1>6. writes \in Seq(S)
    BY <1>3, <1>5, Enumeration
  <1>7. QED
    BY <1>4, <1>6, Widened

\* An empty sequence is of any type.
LEMMA Nothing == \A S : <<>> \in Seq(S)
  OBVIOUS

\* What PlanDeploy makes of a handler x, for each strategy.
LEMMA RollingWrites ==
  ASSUME TypeOK, NEW x \in JobType, x.strategy = "rolling", NEW writes \in DeployPlans(x)
  PROVE  /\ writes \in Seq(Staged(x))
         /\ writes \in Seq(Kept(x))
         /\ \E i \in 1..Len(writes) : writes[i] = PutDep("base", x.version)
  <1> DEFINE keep == IF ~Rendered /\ ~x.blind /\ sel["base"] # Absent
                       THEN sel["base"] ELSE "base"
             d    == PutDep("base", x.version)
             s    == PutSvc("base", keep)
  <1>1. x.version \in Versions /\ keep \in Workloads
    BY Vocabulary, TypeParts DEF JobType, ClusterTypes
  <1>2. DeployPlans(x) = {<<d>> \o <<s>>, <<s>> \o <<d>>}
    BY DEF DeployPlans, RollingPlans, EitherOrder
  <1>3. d \in Staged(x) /\ s \in Staged(x)
    BY <1>1 DEF Staged
  <1>4. d \in Kept(x) /\ s \in Kept(x)
    <2>1. d \in WriteType /\ s \in WriteType
      BY <1>1, Kinded, Vocabulary
    <2>2. QED
      BY <2>1, Vocabulary DEF Kept, PutDep, PutSvc
  <1> HIDE DEF d, s, keep
  <1>5. ASSUME NEW S, d \in S, s \in S PROVE writes \in Seq(S)
    <2>1. <<d>> \in Seq(S) /\ <<s>> \in Seq(S)
      BY <1>5, Short
    <2>2. QED
      BY <2>1, <1>2, Joined
  <1>7. writes \in Seq(Staged(x)) /\ writes \in Seq(Kept(x))
    BY <1>3, <1>4, <1>5
  <1>8. \E i \in 1..Len(writes) : writes[i] = d
    <2>1. Len(<<d>> \o <<s>>) = 2 /\ (<<d>> \o <<s>>)[1] = d
      BY <1>3, Pair
    <2>2. Len(<<s>> \o <<d>>) = 2 /\ (<<s>> \o <<d>>)[2] = d
      BY <1>3, Pair
    <2>3. writes = <<d>> \o <<s>> \/ writes = <<s>> \o <<d>>
      BY <1>2
    <2>4. 1 \in 1..2 /\ 2 \in 1..2
      OBVIOUS
    <2>5. QED
      BY <2>1, <2>2, <2>3, <2>4
  <1>9. QED
    BY <1>7, <1>8 DEF d

LEMMA CanaryWrites ==
  ASSUME TypeOK, NEW x \in JobType, x.strategy = "canary", NEW writes \in DeployPlans(x)
  PROVE  /\ writes \in Seq(Staged(x))
         /\ writes \in Seq(Kept(x))
  <1> DEFINE boot(y)  == IF Exists("base") THEN <<>> ELSE <<y>>
             preserve == ~x.blind /\ sel["base"] \notin {Absent, "base"}
             d == PutDep("base", x.version)     s == PutSvc("base", "base")
             c == PutDep("canary", x.version)   t == PutSvc("canary", "canary")
             u == PutSvc("canary", "base")
  <1>1. x.version \in Versions
    BY DEF JobType
  <1>2. /\ d \in Staged(x) /\ s \in Staged(x) /\ c \in Staged(x)
        /\ t \in Staged(x) /\ u \in Staged(x)
    BY <1>1, Vocabulary DEF Staged
  <1>3. /\ d \in Kept(x) /\ c \in Kept(x) /\ t \in Kept(x) /\ u \in Kept(x)
        /\ Rendered \/ ~preserve => s \in Kept(x)
    <2>1. d \in WriteType /\ c \in WriteType /\ t \in WriteType /\ s \in WriteType
          /\ u \in WriteType
      BY <1>1, Kinded, Vocabulary
    <2>2. QED
      BY <2>1, Vocabulary DEF Kept, PutDep, PutSvc
  <1>4. Rendered => DeployPlans(x) =
          {(boot(d) \o <<c>>) \o (boot(s) \o <<u>>), (boot(s) \o <<u>>) \o (boot(d) \o <<c>>)}
    BY DEF DeployPlans, CanaryPlans, EitherOrder
  <1>5. ~Rendered => DeployPlans(x) =
          {(IF preserve THEN <<>> ELSE boot(s) \o boot(d)) \o <<c, t>>}
    BY DEF DeployPlans, CanaryPlans
  <1>6. ASSUME NEW S, NEW y \in S PROVE boot(y) \in Seq(S) /\ <<y>> \in Seq(S)
    BY <1>6, Short
  <1> HIDE DEF d, s, c, t, u, preserve, boot
  <1>7. CASE Rendered
    <2>1. ASSUME NEW S, d \in S, s \in S, c \in S, u \in S PROVE writes \in Seq(S)
      <3> DEFINE p == boot(d) \o <<c>>
                 q == boot(s) \o <<u>>
      <3>1. boot(d) \in Seq(S) /\ boot(s) \in Seq(S) /\ <<c>> \in Seq(S) /\ <<u>> \in Seq(S)
        BY <2>1, <1>6
      <3>2. p \in Seq(S) /\ q \in Seq(S)
        BY <3>1, Joined
      <3>3. writes = p \o q \/ writes = q \o p
        BY <1>7, <1>4
      <3> HIDE DEF p, q
      <3>4. QED
        BY <3>2, <3>3, Joined
    <2>2. QED
      BY <2>1, <1>2, <1>3, <1>7
  <1>8. CASE ~Rendered
    <2>1. ASSUME NEW S, d \in S, c \in S, t \in S, ~preserve => s \in S
          PROVE  writes \in Seq(S)
      <3>1. <<c, t>> \in Seq(S)
        BY <2>1, Short
      <3>2. CASE preserve
        BY <3>1, <3>2, <1>5, <1>8, ConcatEmptySeq
      <3>3. CASE ~preserve
        <4>1. boot(s) \o boot(d) \in Seq(S)
          BY <2>1, <3>3, <1>6, Joined
        <4>2. writes = (boot(s) \o boot(d)) \o <<c, t>>
          BY <3>3, <1>5, <1>8
        <4>3. QED
          BY <4>1, <4>2, <3>1, Joined
      <3>4. QED
        BY <3>2, <3>3
    <2>2. QED
      BY <2>1, <1>2, <1>3, <1>8
  <1>9. QED
    BY <1>7, <1>8

LEMMA SlotWrites ==
  ASSUME TypeOK, NEW x \in JobType, x.strategy = "blue-green", NEW writes \in DeployPlans(x)
  PROVE  /\ writes \in Seq(Staged(x))
         /\ writes \in Seq(ToLegacy)
         /\ \/ writes \in Seq(Elsewhere(x.active))
            \/ /\ writes # <<>> /\ dep[x.active] = Absent
               /\ Tail(writes) \in Seq(Elsewhere(x.active))
  <1> DEFINE a      == x.active
             old    == IF Exists("base") /\ ~x.blind THEN dep["base"] ELSE x.version
             target == IF ~Exists(a) /\ Exists("base") THEN "base" ELSE a
             d == PutDep(a, old)                  s == PutSvc(a, a)
             c == PutDep(Other(a), x.version)     t == PutSvc(Other(a), Other(a))
             u == PutSvc("base", target)
  <1>1. /\ x.version \in Versions /\ a \in Slots /\ Other(a) \in Slots /\ Other(a) # a
        /\ old \in Versions /\ target \in {"base", a} /\ a \in Workloads /\ Other(a) \in Workloads
        /\ "base" \in Workloads /\ a # "base" /\ Other(a) # "base"
    BY Vocabulary, TypeParts DEF JobType, ClusterTypes, Exists, Slots
  <1>2. /\ d \in Staged(x) /\ s \in Staged(x) /\ c \in Staged(x)
        /\ t \in Staged(x) /\ u \in Staged(x)
    BY <1>1 DEF Staged
  <1>3. d \in WriteType /\ s \in WriteType /\ c \in WriteType /\ t \in WriteType /\ u \in WriteType
    BY <1>1, Kinded
  <1>4. d \in ToLegacy /\ s \in ToLegacy /\ c \in ToLegacy /\ t \in ToLegacy /\ u \in ToLegacy
    BY <1>1, <1>3 DEF ToLegacy, PutDep, PutSvc, Exists
  <1>5. s \in Elsewhere(a) /\ c \in Elsewhere(a) /\ t \in Elsewhere(a) /\ u \in Elsewhere(a)
    BY <1>1, <1>3 DEF Elsewhere, PutDep, PutSvc
  <1>6. writes = (IF Exists(a) THEN <<>> ELSE <<d, s>>) \o <<c, t, u>>
    BY DEF DeployPlans, BlueGreenPlans
  <1> HIDE DEF d, s, c, t, u
  <1>7. CASE Exists(a)
    <2>1. writes = <<c, t, u>>
      BY <1>6, <1>7
    <2>2. QED
      BY <2>1, <1>2, <1>4, <1>5, Short
  <1>8. CASE ~Exists(a)
    <2>1. writes = <<d, s>> \o <<c, t, u>>
      BY <1>6, <1>8
    <2>2. ASSUME NEW S, d \in S, s \in S, c \in S, t \in S, u \in S
          PROVE  writes \in Seq(S)
      <3>1. <<d, s>> \in Seq(S) /\ <<c, t, u>> \in Seq(S)
        BY <2>2, Short
      <3>2. QED
        BY <3>1, <2>1, Joined
    <2>3. writes # <<>> /\ Tail(writes) = <<s>> \o <<c, t, u>>
      <3>1. /\ <<d, s>> \o <<c, t, u>> # <<>>
            /\ Tail(<<d, s>> \o <<c, t, u>>) = <<s>> \o <<c, t, u>>
        <4>1. Len(<<d, s>> \o <<c, t, u>>) = 5
          BY <1>3
        <4>2. Tail(<<d, s>> \o <<c, t, u>>) = <<s>> \o <<c, t, u>>
          BY <1>3
        <4>3. QED
          BY <4>1, <4>2
      <3>2. QED
        BY <3>1, <2>1
    <2>4. <<s>> \in Seq(Elsewhere(a)) /\ <<c, t, u>> \in Seq(Elsewhere(a))
      BY <1>5, Short
    <2>5. Tail(writes) \in Seq(Elsewhere(a))
      BY <2>3, <2>4, Joined
    <2>6. QED
      BY <2>2, <2>3, <2>5, <1>2, <1>4, <1>8 DEF Exists
  <1>9. QED
    BY <1>7, <1>8

-----------------------------------------------------------------------------
(* What a step of a handler changes.                                       *)

\* The single write a handler's next step may make.
Request(i, x) ==
  \/ pc[i] \in Writing /\ todo[i] # <<>> /\ x = Head(todo[i])
  \/ pc[i] = "copying" /\ Exists("canary") /\ x = PutDep("base", dep["canary"])
  \/ pc[i] \in {"promoting", "moving"} /\ x = PutSvc("base", "base")
  \/ pc[i] = "shifting" /\ x = PutSvc("base", Other(job[i].active))
  \/ pc[i] \in {"reverting", "observing"} /\ x = PutSvc("base", job[i].active)

\* A step of a handler makes one write or none, and what it keeps of the API's state.
LEMMA HandlerCluster ==
  ASSUME NEW i \in Jobs, Handler(i)
  PROVE  UNCHANGED cluster \/ \E x : Request(i, x) /\ Apply(x)
  <1>1. CASE Write(i)
    BY <1>1 DEF Write, Request
  <1>2. CASE CopyCanary(i)
    BY <1>2 DEF CopyCanary, Request, At
  <1>3. CASE PromoteRolling(i) \/ MoveStableService(i)
    BY <1>3 DEF PromoteRolling, MoveStableService, Request, At
  <1>4. CASE SwitchCanonical(i)
    BY <1>4 DEF SwitchCanonical, Request, At
  <1>5. CASE Revert(i) \/ ObserveUnhealthy(i)
    BY <1>5 DEF Revert, ObserveUnhealthy, Request, At
  <1>6. CASE Start(i) \/ WritesMade(i) \/ Abort(i) \/ PlanDeploy(i) \/ Validated(i) \/ Settled(i)
             \/ Sweep(i) \/ Finish(i)
    BY <1>6 DEF Start, WritesMade, Abort, PlanDeploy, Validated, Settled, Sweep, Finish
  <1>7. CASE CandidateLive(i) \/ RecordSlot(i) \/ ObserveHealthy(i) \/ UndoSlot(i)
             \/ ListPublished(i) \/ ConfirmShifted(i) \/ CheckAvailability(i) \/ CleanupSkipped(i)
    BY <1>7 DEF CandidateLive, RecordSlot, ObserveHealthy, UndoSlot, ListPublished,
                ConfirmShifted, CheckAvailability, CleanupSkipped
  <1>8. QED
    BY <1>1, <1>2, <1>3, <1>4, <1>5, <1>6, <1>7 DEF Handler

LEMMA HandlerApi ==
  ASSUME NEW i \in Jobs, Handler(i)
  PROVE  /\ UNCHANGED configured
         /\ UNCHANGED primary \/ RecordSlot(i) \/ UndoSlot(i)
         /\ UNCHANGED asked \/ (job[i].kind = "switch" /\ asked' \in {asked, NoSlot})
         /\ asked' # asked => pc'[i] \in {"idle", "done"} \/ i \notin DOMAIN pc
  <1>1. CASE Start(i) \/ Write(i) \/ WritesMade(i) \/ Abort(i) \/ PlanDeploy(i) \/ Validated(i)
             \/ PromoteRolling(i) \/ Settled(i) \/ Sweep(i) \/ Finish(i)
    BY <1>1 DEF Start, Write, WritesMade, Abort, PlanDeploy, Validated, PromoteRolling, Settled,
                Sweep, Finish, SettleAsked, Goto, configured, apiVars
  <1>2. CASE CandidateLive(i) \/ SwitchCanonical(i) \/ RecordSlot(i) \/ Revert(i)
             \/ ObserveHealthy(i) \/ ObserveUnhealthy(i) \/ UndoSlot(i)
    BY <1>2 DEF CandidateLive, SwitchCanonical, RecordSlot, Revert, ObserveHealthy,
                ObserveUnhealthy, UndoSlot, SettleAsked, Goto, configured, apiVars
  <1>3. CASE CopyCanary(i) \/ MoveStableService(i) \/ ListPublished(i) \/ ConfirmShifted(i)
             \/ CheckAvailability(i) \/ CleanupSkipped(i)
    BY <1>3 DEF CopyCanary, MoveStableService, ListPublished, ConfirmShifted, CheckAvailability,
                CleanupSkipped, configured, apiVars
  <1>4. QED
    BY <1>1, <1>2, <1>3 DEF Handler

\* A handler's step moves its own place, its own context and its own plan.
LEMMA HandlerOwn ==
  ASSUME NEW i \in Jobs, Handler(i)
  PROVE  /\ \E p : pc' = [pc EXCEPT ![i] = p] \/ pc' = pc
         /\ \E x : job' = [job EXCEPT ![i] = x] \/ job' = job
         /\ \E s : todo' = [todo EXCEPT ![i] = s] \/ todo' = todo
  <1>1. CASE Start(i) \/ Write(i) \/ WritesMade(i) \/ Abort(i) \/ PlanDeploy(i) \/ Validated(i)
             \/ PromoteRolling(i) \/ Settled(i) \/ Sweep(i) \/ Finish(i)
    BY <1>1 DEF Start, Write, WritesMade, Abort, PlanDeploy, Validated, PromoteRolling, Settled,
                Sweep, Finish, Plan, Goto
  <1>2. CASE CandidateLive(i) \/ SwitchCanonical(i) \/ RecordSlot(i) \/ Revert(i)
             \/ ObserveHealthy(i) \/ ObserveUnhealthy(i) \/ UndoSlot(i)
    BY <1>2 DEF CandidateLive, SwitchCanonical, RecordSlot, Revert, ObserveHealthy,
                ObserveUnhealthy, UndoSlot, Plan, Goto
  <1>3. CASE CopyCanary(i) \/ MoveStableService(i) \/ ListPublished(i) \/ ConfirmShifted(i)
             \/ CheckAvailability(i) \/ CleanupSkipped(i)
    BY <1>3 DEF CopyCanary, MoveStableService, ListPublished, ConfirmShifted, CheckAvailability,
                CleanupSkipped, Plan, Goto
  <1>4. QED
    BY <1>1, <1>2, <1>3 DEF Handler

\* ... and leaves those of the others alone.
LEMMA Bystander ==
  ASSUME TypeOK, NEW i \in Jobs, Handler(i), NEW j \in Jobs \ {i}
  PROVE  pc'[j] = pc[j] /\ job'[j] = job[j] /\ todo'[j] = todo[j]
  BY HandlerOwn, TypeParts DEF HandlerTypes, JobTypes

-----------------------------------------------------------------------------
(* Types.                                                                  *)

LEMMA RequestTyped ==
  ASSUME TypeOK, NEW i \in Jobs, NEW x, Request(i, x)
  PROVE  x \in WriteType
  <1>1. job[i].active \in Slots
    BY TypeParts DEF JobTypes, JobType
  <1>2. CASE pc[i] \in Writing /\ todo[i] # <<>> /\ x = Head(todo[i])
    BY <1>2, HeadTail, TypeParts DEF HandlerTypes
  <1>3. CASE Exists("canary") /\ x = PutDep("base", dep["canary"])
    BY <1>3, Kinded, Vocabulary, TypeParts DEF ClusterTypes
  <1>4. CASE \E w \in Workloads : x = PutSvc("base", w)
    BY <1>4, Kinded, Vocabulary
  <1>5. QED
    BY <1>1, <1>2, <1>3, <1>4, Vocabulary DEF Request

\* What a write of each kind does.
LEMMA ApplyCases ==
  ASSUME TypeOK, NEW x \in WriteType, Apply(x)
  PROVE  \/ /\ x.on = "dep" /\ x.w \in Workloads /\ x.to \in Versions \cup {Absent}
            /\ dep' = [dep EXCEPT ![x.w] = x.to] /\ UNCHANGED <<sel, route>>
            /\ \/ /\ x.to = Absent /\ Exists(x.w)
                  /\ pods' = [pods EXCEPT ![x.w] = {}]
                  /\ dying' = [dying EXCEPT ![x.w] = TRUE]
               \/ ~(x.to = Absent /\ Exists(x.w)) /\ UNCHANGED <<pods, dying>>
         \/ /\ x.on = "svc" /\ x.w \in Workloads /\ x.to \in Workloads \cup {Absent}
            /\ sel' = [sel EXCEPT ![x.w] = x.to]
            /\ UNCHANGED <<dep, pods, dying, route>>
         \/ /\ x.on = "route" /\ x.w \in Rules /\ x.to \in SUBSET Workloads
            /\ route' = [route EXCEPT ![x.w] = x.to]
            /\ UNCHANGED <<dep, pods, dying, sel>>
  <1>1. \/ x.on = "dep" /\ x.w \in Workloads /\ x.to \in Versions \cup {Absent}
        \/ x.on = "svc" /\ x.w \in Workloads /\ x.to \in Workloads \cup {Absent}
        \/ x.on = "route" /\ x.w \in Rules /\ x.to \in SUBSET Workloads
    BY DEF WriteType
  <1>2. CASE x.on = "dep"
    BY <1>1, <1>2 DEF Apply
  <1>3. CASE x.on = "svc"
    BY <1>1, <1>3 DEF Apply
  <1>4. CASE x.on = "route"
    BY <1>1, <1>4 DEF Apply
  <1>5. QED
    BY <1>1, <1>2, <1>3, <1>4

LEMMA ApplyTyped ==
  ASSUME TypeOK, NEW x \in WriteType, Apply(x)
  PROVE  ClusterTypes' /\ DyingType'
  <1>1. ClusterTypes'
    BY ApplyCases, TypeParts DEF ClusterTypes
  <1>2. DyingType'
    <2>1. dying' = dying \/ \E w \in Workloads : dying' = [dying EXCEPT ![w] = TRUE]
      BY ApplyCases
    <2>2. QED
      BY <2>1, TypeParts DEF DyingType
  <1>3. QED
    BY <1>1, <1>2

LEMMA PlanTyped ==
  ASSUME TypeOK
  PROVE  /\ \A x \in JobType : \A writes \in DeployPlans(x) : writes \in Seq(WriteType)
         /\ \A st \in {"rolling", "canary", "blue-green"} : CleanupPlan(st) \in Seq(WriteType)
         /\ \A writes \in ShiftPlans : writes \in Seq(WriteType)
         /\ \A s \in Slots : Drop(s) \o <<PutDep("base", Absent)>>
                               \in Seq(Drops({s}) \cup {PutDep("base", Absent)}) \cap Seq(WriteType)
         /\ \A r \in Rules, h \in SUBSET Workloads : <<PutRoute(r, h)>> \in Seq(Publishings)
                                                                          \cap Seq(WriteType)
  <1>1. ASSUME NEW x \in JobType, NEW writes \in DeployPlans(x)
        PROVE  writes \in Seq(WriteType)
    <2>1. x.strategy \in {"rolling", "canary", "blue-green"}
      BY ConstantsAssumption DEF JobType
    <2>2. writes \in Seq(Staged(x))
      BY <2>1, RollingWrites, CanaryWrites, SlotWrites
    <2>3. Staged(x) \subseteq WriteType
      BY <2>1, MeantTyped DEF Meant, Writing
    <2>4. QED
      BY <2>2, <2>3, Widened
  <1>2. Drops(Candidates) \subseteq WriteType /\ Publishings \subseteq WriteType
    BY Kinded, Vocabulary DEF Drops, Publishings
  <1>3. ASSUME NEW st \in {"rolling", "canary", "blue-green"}
        PROVE  CleanupPlan(st) \in Seq(WriteType)
    <2>1. Unneeded \subseteq WriteType
      BY <1>2 DEF Unneeded
    <2>2. QED
      BY <2>1, CleanupWrites, Widened
  <1>4. ASSUME NEW writes \in ShiftPlans PROVE writes \in Seq(WriteType)
    BY <1>2, ShiftWrites, Widened, TypeParts
  <1>5. ASSUME NEW s \in Slots, NEW S, S = Drops({s}) \cup {PutDep("base", Absent)}
        PROVE  Drop(s) \o <<PutDep("base", Absent)>> \in Seq(S) \cap Seq(WriteType)
    <2>1. PutDep(s, Absent) \in S /\ PutSvc(s, Absent) \in S /\ PutDep("base", Absent) \in S
      BY <1>5 DEF Drops
    <2>2. S \subseteq WriteType
      BY <1>5, Kinded, Vocabulary DEF Drops
    <2>3. Drop(s) \in Seq(S) /\ <<PutDep("base", Absent)>> \in Seq(S)
      BY <2>1, Short DEF Drop
    <2>4. Drop(s) \o <<PutDep("base", Absent)>> \in Seq(S)
      BY <2>3, Joined
    <2>5. QED
      BY <2>2, <2>4, Widened
  <1>6. ASSUME NEW r \in Rules, NEW h \in SUBSET Workloads
        PROVE  <<PutRoute(r, h)>> \in Seq(Publishings) \cap Seq(WriteType)
    <2>1. PutRoute(r, h) \in Publishings /\ PutRoute(r, h) \in WriteType
      BY Kinded DEF Publishings
    <2>2. QED
      BY <2>1, Short
  <1>7. QED
    BY <1>1, <1>3, <1>4, <1>5, <1>6

LEMMA JobTyped ==
  ASSUME TypeOK, NEW i \in Jobs, Handler(i)
  PROVE  JobTypes'
  <1>1. job \in [Jobs -> JobType]
    BY TypeParts DEF JobTypes
  <1>2. CASE Start(i)
    <2>1. PICK k \in Kinds, v \in Versions, r \in Rules, unread \in BOOLEAN :
            /\ k = "switch" => asked # NoSlot
            /\ job' = [job EXCEPT ![i] = [kind |-> k, strategy |-> strategy,
                                          active |-> ActiveSlot(k), split |-> TRUE,
                                          version |-> v, rule |-> r, blind |-> unread]]
      BY <1>2 DEF Start
    <2>2. ActiveSlot(k) \in Slots /\ strategy \in Strategies
      BY <2>1, TypeParts DEF ActiveSlot, ApiTypes
    <2>3. [kind |-> k, strategy |-> strategy, active |-> ActiveSlot(k), split |-> TRUE,
           version |-> v, rule |-> r, blind |-> unread] \in JobType
      BY <2>2 DEF JobType
    <2>4. QED
      BY <1>1, <2>1, <2>3 DEF JobTypes
  <1>3. CASE CopyCanary(i)
    <2>1. dep["canary"] \in Versions
      BY <1>3, TypeParts DEF CopyCanary, Exists, ClusterTypes, Workloads
    <2>2. [job[i] EXCEPT !.version = dep["canary"]] \in JobType
      BY <1>1, <2>1 DEF JobType
    <2>3. QED
      BY <1>1, <1>3, <2>2 DEF CopyCanary, JobTypes
  <1>4. CASE CheckAvailability(i)
    <2> DEFINE service == IF job[i].blind THEN job[i]
                          ELSE Normalized(job[i], {w \in Workloads : TargetReady(w)})
    <2>1. PICK override \in Overrides : job' = [job EXCEPT ![i] = Overridden(service, override)]
      BY <1>4 DEF CheckAvailability
    <2>2. ASSUME NEW x \in JobType, NEW ready PROVE Normalized(x, ready) \in JobType
      <3>1. x.strategy = "blue-green" => Other(x.active) \in Slots
        BY Vocabulary DEF JobType
      <3>2. /\ [x EXCEPT !.split = FALSE] \in JobType
            /\ [x EXCEPT !.strategy = "rolling"] \in JobType
            /\ x.strategy = "blue-green" => [x EXCEPT !.active = Other(x.active)] \in JobType
        BY <3>1 DEF JobType
      <3>3. QED
        BY <3>2 DEF Normalized
    <2>3. service \in JobType
      BY <1>1, <2>2
    <2> HIDE DEF service
    <2>4. Overridden(service, override) \in JobType
      <3>1. (override = "positive") \in BOOLEAN
        OBVIOUS
      <3>2. \A b \in BOOLEAN : [service EXCEPT !.split = b] \in JobType
        BY <2>3 DEF JobType
      <3>3. QED
        BY <2>3, <3>1, <3>2 DEF Overridden
    <2>5. QED
      BY <1>1, <2>1, <2>4 DEF JobTypes
  <1>5. CASE UNCHANGED job
    BY <1>1, <1>5 DEF JobTypes
  <1>6. UNCHANGED job \/ Start(i) \/ CopyCanary(i) \/ CheckAvailability(i)
    BY DEF Handler, Write, WritesMade, Abort, PlanDeploy, Validated, PromoteRolling, Settled,
           Sweep, Finish, CandidateLive, SwitchCanonical, RecordSlot, Revert, ObserveHealthy,
           ObserveUnhealthy, UndoSlot, MoveStableService, ListPublished, ConfirmShifted,
           CleanupSkipped
  <1>7. QED
    BY <1>2, <1>3, <1>4, <1>5, <1>6

LEMMA DestinationsTyped ==
  ASSUME NEW x \in JobType
  PROVE  Destinations(x) \in SUBSET Workloads
  BY Vocabulary DEF Destinations, JobType

LEMMA HandlerTyped ==
  ASSUME TypeOK, NEW i \in Jobs, Handler(i)
  PROVE  HandlerTypes'
  <1>1. pc \in [Jobs -> Places] /\ todo \in [Jobs -> Seq(WriteType)] /\ job \in [Jobs -> JobType]
    BY TypeParts DEF HandlerTypes, JobTypes
  <1>2. \A p \in Places, s \in Seq(WriteType) :
          pc' = [pc EXCEPT ![i] = p] /\ todo' = [todo EXCEPT ![i] = s] => HandlerTypes'
    BY <1>1 DEF HandlerTypes
  <1>3. \A p \in Places : pc' = [pc EXCEPT ![i] = p] /\ UNCHANGED todo => HandlerTypes'
    BY <1>1 DEF HandlerTypes
  <1>4. <<>> \in Seq(WriteType)
    BY Nothing
  <1>5. CASE Start(i)
    <2>1. PICK k \in Kinds, r \in Rules :
            Plan(i, FirstPlace(k), IF k = "unpublish" THEN <<PutRoute(r, {})>> ELSE <<>>)
      BY <1>5 DEF Start
    <2>2. FirstPlace(k) \in Places
      BY DEF FirstPlace, Kinds, Places
    <2>3. <<PutRoute(r, {})>> \in Seq(WriteType)
      BY PlanTyped
    <2>4. QED
      BY <1>2, <1>4, <2>1, <2>2, <2>3 DEF Plan, Goto
  <1>6. CASE Write(i)
    <2>1. Tail(todo[i]) \in Seq(WriteType)
      BY <1>1, <1>6, HeadTail DEF Write
    <2>2. QED
      BY <1>1, <1>6, <2>1 DEF Write, HandlerTypes
  <1>7. CASE WritesMade(i)
    <2>1. After(i) \in Places
      BY <1>7 DEF WritesMade, After, Writing, Places
    <2>2. QED
      BY <1>3, <1>7, <2>1 DEF WritesMade, Goto
  <1>8. CASE Abort(i) \/ CleanupSkipped(i)
    BY <1>2, <1>4, <1>8 DEF Abort, CleanupSkipped, Plan, Goto, Places
  <1>9. CASE PlanDeploy(i)
    BY <1>1, <1>2, <1>9, PlanTyped DEF PlanDeploy, Plan, Goto, Places
  <1>10. CASE Sweep(i)
    <2>1. (IF job[i].kind = "rule" THEN job[i].strategy ELSE "rolling")
             \in {"rolling", "canary", "blue-green"}
      BY <1>1, ConstantsAssumption DEF JobType
    <2>2. CleanupPlan(IF job[i].kind = "rule" THEN job[i].strategy ELSE "rolling")
             \in Seq(WriteType)
      BY <2>1, PlanTyped
    <2>3. QED
      BY <1>2, <1>10, <2>2 DEF Sweep, Plan, Goto, Places
  <1>11. CASE ObserveHealthy(i)
    <2>1. Drop(job[i].active) \o <<PutDep("base", Absent)>> \in Seq(WriteType)
      BY <1>1, PlanTyped DEF JobType
    <2>2. QED
      BY <1>2, <1>11, <2>1 DEF ObserveHealthy, Plan, Goto, Places
  <1>12. CASE ListPublished(i)
    BY <1>2, <1>12, PlanTyped DEF ListPublished, Plan, Goto, Places
  <1>13. CASE CheckAvailability(i)
    <2>1. PICK final :
            /\ job' = [job EXCEPT ![i] = final]
            /\ Plan(i, "publishing", <<PutRoute(final.rule, Destinations(final))>>)
      BY <1>13 DEF CheckAvailability
    <2>2. final \in JobType
      BY <1>1, <2>1, JobTyped DEF JobTypes
    <2>3. <<PutRoute(final.rule, Destinations(final))>> \in Seq(WriteType)
      BY <2>2, PlanTyped, DestinationsTyped DEF JobType
    <2>4. QED
      BY <1>2, <2>1, <2>3 DEF Plan, Goto, Places
  <1>14. CASE Validated(i) \/ PromoteRolling(i) \/ Settled(i) \/ Finish(i) \/ CandidateLive(i)
              \/ SwitchCanonical(i) \/ RecordSlot(i) \/ Revert(i) \/ ObserveUnhealthy(i)
              \/ UndoSlot(i) \/ CopyCanary(i) \/ MoveStableService(i) \/ ConfirmShifted(i)
    BY <1>3, <1>14 DEF Validated, PromoteRolling, Settled, Finish, CandidateLive,
         SwitchCanonical, RecordSlot, Revert, ObserveUnhealthy, UndoSlot, CopyCanary,
         MoveStableService, ConfirmShifted, Goto, Places
  <1>15. QED
    BY <1>5, <1>6, <1>7, <1>8, <1>9, <1>10, <1>11, <1>12, <1>13, <1>14 DEF Handler

LEMMA ApiTyped ==
  ASSUME TypeOK, NEW i \in Jobs, Handler(i)
  PROVE  ApiTypes' /\ CountType'
  <1>1. job[i].active \in Slots
    BY TypeParts DEF JobTypes, JobType
  <1>2. primary' \in Slots
    <2>1. CASE UNCHANGED primary
      BY <2>1, TypeParts DEF ApiTypes
    <2>2. CASE RecordSlot(i) \/ UndoSlot(i)
      BY <1>1, <2>2, Vocabulary, TypeParts DEF ApiTypes, RecordSlot, UndoSlot
    <2>3. QED
      BY <2>1, <2>2, HandlerApi
  <1>3. ApiTypes'
    BY <1>2, HandlerApi, TypeParts DEF ApiTypes, configured
  <1>4. CountType'
    <2>1. started \in 0..MaxOps
      BY TypeParts DEF CountType
    <2>2. UNCHANGED started \/ (started < MaxOps /\ started' = started + 1)
      BY DEF Handler, Start, Write, WritesMade, Abort, PlanDeploy, Validated, PromoteRolling,
             Settled, Sweep, Finish, CandidateLive, SwitchCanonical, RecordSlot, Revert,
             ObserveHealthy, ObserveUnhealthy, UndoSlot, CopyCanary, MoveStableService,
             ListPublished, ConfirmShifted, CheckAvailability, CleanupSkipped
    <2>3. QED
      BY <2>1, <2>2, ConstantsAssumption DEF CountType
  <1>5. QED
    BY <1>3, <1>4

\* What Kubernetes does of itself: it adds pods of the Deployment's version, takes
\* those of older ones away, and ends those of deleted Deployments.
LEMMA KubernetesPods ==
  ASSUME TypeOK, Kubernetes
  PROVE  /\ UNCHANGED <<dep, sel, route>>
         /\ UNCHANGED <<apiVars, pc, job, todo, started>>
         /\ \/ \E w \in Workloads : /\ dep[w] \in Versions
                                    /\ \/ /\ dep[w] \notin pods[w]
                                          /\ pods' = [pods EXCEPT ![w] = @ \cup {dep[w]}]
                                       \/ pods' = [pods EXCEPT ![w] = {dep[w]}]
                                    /\ UNCHANGED dying
            \/ UNCHANGED pods /\ \E w \in Workloads : dying' = [dying EXCEPT ![w] = FALSE]
  <1>1. PICK w \in Workloads : PodsReady(w) \/ OldPodsGone(w) \/ PodsGone(w)
    BY DEF Kubernetes
  <1>2. CASE PodsReady(w)
    BY <1>2, ConstantsAssumption DEF PodsReady, Kubernetes
  <1>3. CASE OldPodsGone(w)
    <2>1. dep[w] \in Versions
      BY <1>3, TypeParts DEF OldPodsGone, ClusterTypes
    <2>2. QED
      BY <1>3, <2>1 DEF OldPodsGone, Kubernetes
  <1>4. CASE PodsGone(w)
    BY <1>4 DEF PodsGone, Kubernetes
  <1>5. QED
    BY <1>1, <1>2, <1>3, <1>4

LEMMA KubernetesTyped ==
  ASSUME TypeOK, Kubernetes
  PROVE  TypeOK'
  <1>1. ClusterTypes'
    BY KubernetesPods, TypeParts DEF ClusterTypes
  <1>2. DyingType'
    BY KubernetesPods, TypeParts DEF DyingType
  <1>3. ApiTypes' /\ JobTypes' /\ HandlerTypes' /\ CountType'
    BY KubernetesPods, TypeParts DEF ApiTypes, JobTypes, HandlerTypes, CountType, apiVars, configured
  <1>4. QED
    BY <1>1, <1>2, <1>3, TypeParts DEF TypeOK, ClusterTypes, DyingType, ApiTypes, JobTypes,
       HandlerTypes, CountType

LEMMA InitTyped == Init => TypeOK
  <1> SUFFICES ASSUME Init PROVE TypeOK
    OBVIOUS
  <1>1. First \in Versions /\ "base" \in Workloads /\ "blue" \in Workloads /\ "blue" \in Slots
    BY ConstantsAssumption DEF Workloads, Slots
  <1>2. ASSUME NEW W \in {{}, {"base"}, {"blue"}}, Established(W) PROVE ClusterTypes
    <2>1. dep \in [Workloads -> Versions \cup {Absent}] /\ pods \in [Workloads -> SUBSET Versions]
      BY <1>1, <1>2 DEF Established, Only
    <2>2. W # {} => (CHOOSE x \in W : TRUE) \in W
      OBVIOUS
    <2>3. W \subseteq Workloads
      BY <1>1
    <2>4. sel \in [Workloads -> Workloads \cup {Absent}] /\ route \in [Rules -> SUBSET Workloads]
      BY <1>2, <2>2, <2>3 DEF Established
    <2>5. QED
      BY <2>1, <2>4 DEF ClusterTypes
  <1>3. ClusterTypes
    BY <1>2 DEF Init
  <1>4. DyingType
    BY DEF Init, DyingType
  <1>5. ApiTypes
    BY <1>1 DEF Init, ApiTypes
  <1>6. JobTypes
    <2>1. (CHOOSE r \in Rules : TRUE) \in Rules
      BY ConstantsAssumption
    <2>2. [kind |-> "deploy", strategy |-> strategy, active |-> "blue", split |-> TRUE,
           version |-> First, rule |-> CHOOSE r \in Rules : TRUE, blind |-> FALSE] \in JobType
      BY <1>1, <2>1 DEF Init, JobType, Kinds
    <2>3. QED
      BY <2>2 DEF Init, JobTypes
  <1>7. HandlerTypes /\ CountType
    BY Nothing, ConstantsAssumption DEF Init, HandlerTypes, CountType, Places
  <1>8. QED
    BY <1>3, <1>4, <1>5, <1>6, <1>7, TypeParts

LEMMA NextTyped == TypeOK /\ [Next]_vars => TypeOK'
  <1> SUFFICES ASSUME TypeOK, [Next]_vars PROVE TypeOK'
    OBVIOUS
  <1> USE DEF TypeOK, ClusterTypes, DyingType, ApiTypes, JobTypes, HandlerTypes, CountType
  <1>1. CASE \E i \in Jobs : Handler(i)
    <2>1. PICK i \in Jobs : Handler(i)
      BY <1>1
    <2>2. ClusterTypes' /\ DyingType'
      <3>1. CASE UNCHANGED cluster
        BY <3>1 DEF cluster
      <3>2. CASE \E x : Request(i, x) /\ Apply(x)
        <4> HIDE DEF TypeOK, ClusterTypes, DyingType
        <4>1. QED
          BY <3>2, RequestTyped, ApplyTyped
      <3>3. QED
        BY <2>1, <3>1, <3>2, HandlerCluster
    <2> HIDE DEF TypeOK, ClusterTypes, DyingType, ApiTypes, JobTypes, HandlerTypes, CountType
    <2>3. JobTypes' /\ HandlerTypes' /\ ApiTypes' /\ CountType'
      BY <2>1, JobTyped, HandlerTyped, ApiTyped
    <2>4. QED
      BY <2>2, <2>3 DEF TypeOK, ClusterTypes, DyingType, ApiTypes, JobTypes, HandlerTypes, CountType
  <1>2. CASE Kubernetes
    BY <1>2, KubernetesTyped
  <1>3. CASE \E s \in Strategies : Configure(s)
    BY <1>3 DEF Configure, cluster
  <1>4. CASE RequestSwitch
    BY <1>4 DEF RequestSwitch, cluster, configured
  <1>5. CASE UNCHANGED vars
    BY <1>5 DEF vars
  <1>6. QED
    BY <1>1, <1>2, <1>3, <1>4, <1>5 DEF Next

\* Every variable keeps its type: the writes handlers plan from what they read are
\* writes the Kubernetes API takes, whatever they read and whoever wrote meanwhile.
THEOREM TypeCorrect == Spec => []TypeOK
  BY InitTyped, NextTyped, PTL DEF Spec

-----------------------------------------------------------------------------
(* Who runs, and where.                                                    *)

\* A step keeps the kind of a running handler; only the check of a rule
\* operation rewrites the strategy it goes by.
LEMMA KindKept ==
  ASSUME TypeOK, NEW i \in Jobs, Handler(i), ~Start(i)
  PROVE  /\ job'[i].kind = job[i].kind
         /\ job'[i] = job[i] \/ CopyCanary(i) \/ CheckAvailability(i)
         /\ ~CheckAvailability(i) => /\ job'[i].strategy = job[i].strategy
                                     /\ job'[i].active = job[i].active
  <1>1. job \in [Jobs -> JobType]
    BY TypeParts DEF JobTypes
  <1>2. CASE CopyCanary(i)
    BY <1>1, <1>2 DEF CopyCanary, JobType
  <1>3. CASE CheckAvailability(i)
    <2> DEFINE service == IF job[i].blind THEN job[i]
                          ELSE Normalized(job[i], {w \in Workloads : TargetReady(w)})
    <2>1. PICK override \in Overrides : job' = [job EXCEPT ![i] = Overridden(service, override)]
      BY <1>3 DEF CheckAvailability
    <2>2. ASSUME NEW x \in JobType, NEW ready PROVE Normalized(x, ready).kind = x.kind
      BY DEF Normalized, JobType
    <2>3. service.kind = job[i].kind
      BY <1>1, <2>2
    <2>4. ASSUME NEW ready PROVE Normalized(job[i], ready) \in [kind : {job[i].kind},
             strategy : Strategies \cup {"rolling"}, active : Slots, split : BOOLEAN,
             version : Versions, rule : Rules, blind : BOOLEAN]
      <3>1. \A x \in JobType : x.strategy = "blue-green" => Other(x.active) \in Slots
        BY Vocabulary DEF JobType
      <3>2. QED
        BY <1>1, <3>1 DEF Normalized, JobType
    <2>5. Overridden(service, override).kind = service.kind
      BY <1>1, <2>1, <2>4 DEF Overridden, JobType
    <2>6. QED
      BY <1>1, <1>3, <2>1, <2>3, <2>5
  <1>4. CASE UNCHANGED job
    BY <1>4
  <1>5. UNCHANGED job \/ CopyCanary(i) \/ CheckAvailability(i)
    BY DEF Handler, Write, WritesMade, Abort, PlanDeploy, Validated, PromoteRolling, Settled,
           Sweep, Finish, CandidateLive, SwitchCanonical, RecordSlot, Revert, ObserveHealthy,
           ObserveUnhealthy, UndoSlot, MoveStableService, ListPublished, ConfirmShifted,
           CleanupSkipped
  <1>6. QED
    BY <1>2, <1>3, <1>4, <1>5

\* What an execution starts with.
LEMMA Started ==
  ASSUME TypeOK, NEW i \in Jobs, Start(i)
  PROVE  /\ ~Running(i) /\ Admitted(job'[i].kind)
         /\ job'[i].kind = "deploy"    => pc'[i] = "planning"
         /\ job'[i].kind = "switch"    => pc'[i] = "awaiting" /\ strategy = "blue-green"
         /\ job'[i].kind = "promote"   => pc'[i] = "copying" /\ strategy = "canary"
         /\ job'[i].kind = "rule"      => pc'[i] = "checking"
         /\ job'[i].kind = "unpublish" => /\ pc'[i] = "publishing"
                                          /\ todo'[i] \in Seq(Publishings)
         /\ job'[i].kind \in Kinds /\ job'[i].strategy = strategy
         /\ job'[i].active = ActiveSlot(job'[i].kind)
         /\ job'[i].kind = "switch" => asked # NoSlot
         /\ UNCHANGED cluster /\ UNCHANGED apiVars
  <1>1. PICK k \in Kinds, v \in Versions, r \in Rules, unread \in BOOLEAN :
          /\ ~Running(i) /\ Admitted(k)
          /\ k = "switch" => asked # NoSlot /\ strategy = "blue-green"
          /\ k = "promote" => strategy = "canary"
          /\ job' = [job EXCEPT ![i] = [kind |-> k, strategy |-> strategy,
                                        active |-> ActiveSlot(k), split |-> TRUE,
                                        version |-> v, rule |-> r, blind |-> unread]]
          /\ Plan(i, FirstPlace(k), IF k = "unpublish" THEN <<PutRoute(r, {})>> ELSE <<>>)
    BY DEF Start
  <1>2. /\ pc'[i] = FirstPlace(k)
        /\ todo'[i] = IF k = "unpublish" THEN <<PutRoute(r, {})>> ELSE <<>>
        /\ job'[i] = [kind |-> k, strategy |-> strategy, active |-> ActiveSlot(k),
                      split |-> TRUE, version |-> v, rule |-> r, blind |-> unread]
    BY <1>1, TypeParts DEF Plan, Goto, HandlerTypes, JobTypes
  <1>3. <<PutRoute(r, {})>> \in Seq(Publishings)
    BY PlanTyped
  <1>4. UNCHANGED cluster /\ UNCHANGED apiVars
    BY DEF Start
  <1>5. QED
    BY <1>1, <1>2, <1>3, <1>4 DEF FirstPlace, Kinds

\* One line of the table of places: where a step leads.
LEMMA CourseOwn ==
  ASSUME TypeOK, Course, NEW i \in Jobs, Handler(i), Running(i)'
  PROVE  OnCourse(i)'
  <1> USE DEF DeployPlaces, RollingPlaces, SwitchPlaces, PromotePlaces, RulePlaces
  <1>1. pc \in [Jobs -> Places]
    BY TypeParts DEF HandlerTypes
  <1>2. CASE Start(i)
    <2>1. strategy \in Strategies
      BY TypeParts DEF ApiTypes
    <2>2. QED
      BY <1>2, <2>1, Started DEF OnCourse
  <1>3. ASSUME ~Start(i) PROVE job'[i].kind = job[i].kind /\ job[i].kind \in Kinds
    BY <1>3, KindKept, TypeParts DEF JobTypes, JobType
  <1>4. Start(i) \/ Running(i)
    <2>1. CASE Write(i) \/ WritesMade(i) \/ Abort(i) \/ PlanDeploy(i) \/ Validated(i)
               \/ PromoteRolling(i) \/ Settled(i) \/ Sweep(i) \/ Finish(i) \/ CleanupSkipped(i)
      BY <2>1 DEF Write, WritesMade, Abort, PlanDeploy, Validated, PromoteRolling, Settled,
           Sweep, Finish, CleanupSkipped, Running, At, Writing
    <2>2. CASE CandidateLive(i) \/ SwitchCanonical(i) \/ RecordSlot(i) \/ Revert(i)
               \/ ObserveHealthy(i) \/ ObserveUnhealthy(i) \/ UndoSlot(i) \/ CopyCanary(i)
               \/ MoveStableService(i) \/ ListPublished(i) \/ ConfirmShifted(i) \/ CheckAvailability(i)
      BY <2>2 DEF CandidateLive, SwitchCanonical, RecordSlot, Revert, ObserveHealthy,
           ObserveUnhealthy, UndoSlot, CopyCanary, MoveStableService, ListPublished,
           ConfirmShifted, CheckAvailability, Running, At
    <2>3. QED
      BY <2>1, <2>2 DEF Handler
  <1>5. CASE Running(i) /\ ~Start(i)
    <2>1. /\ OnCourse(i) /\ job'[i].kind = job[i].kind /\ job[i].kind \in Kinds
          /\ ~CheckAvailability(i) => job'[i].strategy = job[i].strategy
      BY <1>3, <1>5, KindKept DEF Course
    <2>2. CASE Write(i)
      BY <2>1, <2>2 DEF Write, OnCourse, Kinds
    <2>3. CASE WritesMade(i)
      <3>1. pc'[i] = After(i) /\ pc[i] \in Writing /\ ~CheckAvailability(i)
        BY <1>1, <2>3 DEF WritesMade, Goto, CheckAvailability, At, Writing
      <3>2. QED
        BY <2>1, <3>1 DEF After, OnCourse, Kinds, Writing, Running
    <2>4. CASE Abort(i) \/ Finish(i) \/ CleanupSkipped(i) \/ Revert(i) \/ UndoSlot(i)
      BY <1>1, <2>4 DEF Abort, Finish, CleanupSkipped, Revert, UndoSlot, Plan, Goto, Running
    <2>5. CASE PlanDeploy(i) \/ Validated(i) \/ PromoteRolling(i) \/ Settled(i) \/ Sweep(i)
      BY <1>1, <2>1, <2>5 DEF PlanDeploy, Validated, PromoteRolling, Settled, Sweep, Plan, Goto,
           At, OnCourse, Kinds, Running, CheckAvailability
    <2>6. CASE CandidateLive(i) \/ SwitchCanonical(i) \/ RecordSlot(i) \/ ObserveHealthy(i)
               \/ ObserveUnhealthy(i)
      BY <1>1, <2>1, <2>6 DEF CandidateLive, SwitchCanonical, RecordSlot, ObserveHealthy,
           ObserveUnhealthy, Plan, Goto, At, OnCourse, Kinds, Running
    <2>7. CASE CopyCanary(i) \/ MoveStableService(i) \/ ListPublished(i) \/ ConfirmShifted(i)
      BY <1>1, <2>1, <2>7 DEF CopyCanary, MoveStableService, ListPublished, ConfirmShifted,
           Plan, Goto, At, OnCourse, Kinds, Running
    <2>8. CASE CheckAvailability(i)
      BY <1>1, <2>1, <2>8 DEF CheckAvailability, Plan, Goto, At, OnCourse, Kinds, Running
    <2>9. QED
      BY <1>5, <2>2, <2>3, <2>4, <2>5, <2>6, <2>7, <2>8 DEF Handler
  <1>6. QED
    BY <1>2, <1>4, <1>5

\* A handler that runs after a step of its own was admitted or ran before.
LEMMA ExclusiveStep ==
  ASSUME TypeOK, Exclusive, NEW i \in Jobs, Handler(i)
  PROVE  Exclusive'
  <1>1. Start(i) \/ (Running(i) /\ job'[i].kind = job[i].kind)
    <2>1. CASE ~Start(i)
      <3>1. Running(i)
        BY <2>1 DEF Handler, Write, WritesMade, Abort, PlanDeploy, Validated, PromoteRolling,
           Settled, Sweep, Finish, CleanupSkipped, CandidateLive, SwitchCanonical, RecordSlot,
           Revert, ObserveHealthy, ObserveUnhealthy, UndoSlot, CopyCanary, MoveStableService,
           ListPublished, ConfirmShifted, CheckAvailability, Running, At, Writing
      <3>2. QED
        BY <2>1, <3>1, KindKept
    <2>2. QED
      BY <2>1
  <1>2. SUFFICES ASSUME NEW j \in Jobs \ {i}, Running(i)', Running(j)'
                 PROVE  Overlap /\ Keeps(job[i].kind)' # Keeps(job[j].kind)'
    <2>1. ASSUME NEW a \in Jobs, NEW b \in Jobs, a # b, a # i, b # i, Running(a)', Running(b)'
          PROVE  Overlap /\ Keeps(job[a].kind)' # Keeps(job[b].kind)'
      BY <2>1, Bystander DEF Exclusive, Running, Keeps
    <2>2. QED
      BY <1>2, <2>1 DEF Exclusive
  <1>3. Running(j) /\ job'[j] = job[j]
    BY <1>2, Bystander DEF Running
  <1>4. CASE Start(i)
    BY <1>3, <1>4, Started DEF Admitted, Keeps
  <1>5. CASE Running(i) /\ job'[i].kind = job[i].kind
    BY <1>3, <1>5 DEF Exclusive, Keeps
  <1>6. QED
    BY <1>1, <1>4, <1>5

\* By which steps a handler gets to a place.
LEMMA Arrivals ==
  ASSUME TypeOK, NEW i \in Jobs, Handler(i)
  PROVE  /\ pc'[i] = "applying"   => PlanDeploy(i) \/ Write(i)
         /\ pc'[i] = "validating" => WritesMade(i) /\ pc[i] = "applying"
         /\ pc'[i] = "promoting"  => Validated(i)
         /\ pc'[i] = "settling"   => PromoteRolling(i) \/ CopyCanary(i)
         /\ pc'[i] = "sweeping"   => \/ Settled(i) \/ ConfirmShifted(i)
                                     \/ WritesMade(i) /\ job[i].kind = "rule"
         /\ pc'[i] = "deleting"   => Sweep(i) \/ ObserveHealthy(i) \/ Write(i)
         /\ pc'[i] = "retiring"   => WritesMade(i) /\ pc[i] = "deleting"
         /\ pc'[i] = "shifting"   => CandidateLive(i)
         /\ pc'[i] = "recording"  => SwitchCanonical(i)
         /\ pc'[i] = "observing"  => RecordSlot(i)
         /\ pc'[i] = "moving"     => Settled(i)
         /\ pc'[i] = "listing"    => MoveStableService(i)
         /\ pc'[i] = "rerouting"  => ListPublished(i) \/ Write(i)
         /\ pc'[i] = "confirming" => WritesMade(i) /\ pc[i] = "rerouting"
         /\ pc'[i] = "publishing" => Start(i) \/ CheckAvailability(i) \/ Write(i)
         /\ Write(i) => pc'[i] = pc[i]
  <1>1. pc \in [Jobs -> Places]
    BY TypeParts DEF HandlerTypes
  <1>2. CASE Start(i)
    <2>1. PICK k \in Kinds : pc'[i] = FirstPlace(k)
      BY <1>1, <1>2 DEF Start, Plan, Goto
    <2>2. pc'[i] \in {"planning", "awaiting", "copying", "checking", "publishing"}
      BY <2>1 DEF FirstPlace, Kinds
    <2>3. ~Write(i)
      BY <1>2 DEF Start, Write, Running, Writing
    <2>4. QED
      BY <1>2, <2>2, <2>3
  <1>3. CASE Write(i)
    BY <1>3 DEF Write, Writing
  <1>4. CASE WritesMade(i)
    BY <1>1, <1>4 DEF WritesMade, Write, After, Goto, Writing
  <1>5. CASE Abort(i) \/ PlanDeploy(i) \/ Validated(i) \/ PromoteRolling(i) \/ Settled(i)
             \/ Sweep(i) \/ Finish(i)
    BY <1>1, <1>5 DEF Abort, PlanDeploy, Validated, PromoteRolling, Settled, Sweep, Finish,
         Write, Plan, Goto, At, Writing
  <1>6. CASE CandidateLive(i) \/ SwitchCanonical(i) \/ RecordSlot(i) \/ Revert(i)
             \/ ObserveHealthy(i) \/ ObserveUnhealthy(i) \/ UndoSlot(i)
    BY <1>1, <1>6 DEF CandidateLive, SwitchCanonical, RecordSlot, Revert, ObserveHealthy,
         ObserveUnhealthy, UndoSlot, Write, Plan, Goto, At, Writing
  <1>7. CASE CopyCanary(i) \/ MoveStableService(i) \/ ListPublished(i) \/ ConfirmShifted(i)
             \/ CheckAvailability(i) \/ CleanupSkipped(i)
    BY <1>1, <1>7 DEF CopyCanary, MoveStableService, ListPublished, ConfirmShifted,
         CheckAvailability, CleanupSkipped, Write, Plan, Goto, At, Writing
  <1>8. QED
    BY <1>2, <1>3, <1>4, <1>5, <1>6, <1>7 DEF Handler

LEMMA WriteKeeps ==
  ASSUME TypeOK, NEW i \in Jobs, Write(i)
  PROVE  /\ UNCHANGED <<pc, job>>
         /\ Request(i, Head(todo[i])) /\ Apply(Head(todo[i]))
         /\ Head(todo[i]) \in WriteType
         /\ todo'[i] = Tail(todo[i]) /\ todo[i] # <<>> /\ pc[i] \in Writing
  <1>1. Head(todo[i]) \in WriteType
    BY HeadTail, TypeParts DEF Write, HandlerTypes
  <1>2. QED
    BY <1>1, TypeParts DEF Write, Request, HandlerTypes

\* Deployments have the pods they are given.
LEMMA PodsBehindStep == TypeOK /\ PodsBehind /\ [Next]_vars => PodsBehind'
  <1> SUFFICES ASSUME TypeOK, PodsBehind, [Next]_vars PROVE PodsBehind'
    OBVIOUS
  <1>1. dep \in [Workloads -> Versions \cup {Absent}] /\ pods \in [Workloads -> SUBSET Versions]
    BY TypeParts DEF ClusterTypes
  <1>2. CASE UNCHANGED cluster
    BY <1>2 DEF cluster, PodsBehind
  <1>3. ASSUME NEW i \in Jobs, NEW x, Request(i, x), Apply(x) PROVE PodsBehind'
    <2>1. x \in WriteType
      BY <1>3, RequestTyped
    <2>2. CASE UNCHANGED <<dep, pods>>
      BY <2>2 DEF PodsBehind
    <2>3. CASE /\ x.w \in Workloads /\ dep' = [dep EXCEPT ![x.w] = x.to]
               /\ pods' = [pods EXCEPT ![x.w] = {}]
      BY <1>1, <2>3 DEF PodsBehind
    <2>4. CASE /\ x.w \in Workloads /\ dep' = [dep EXCEPT ![x.w] = x.to]
               /\ ~(x.to = Absent /\ Exists(x.w)) /\ UNCHANGED pods
      BY <1>1, <2>4 DEF PodsBehind, Exists
    <2>5. QED
      BY <1>3, <2>1, <2>2, <2>3, <2>4, ApplyCases
  <1>4. CASE Kubernetes
    <2>1. UNCHANGED dep
      BY <1>4, KubernetesPods
    <2>2. CASE UNCHANGED pods
      BY <2>1, <2>2 DEF PodsBehind
    <2>3. CASE \E w \in Workloads : /\ dep[w] \in Versions
                                    /\ \/ pods' = [pods EXCEPT ![w] = @ \cup {dep[w]}]
                                       \/ pods' = [pods EXCEPT ![w] = {dep[w]}]
      BY <1>1, <2>1, <2>3, Vocabulary DEF PodsBehind
    <2>4. QED
      BY <1>4, <2>2, <2>3, KubernetesPods
  <1>5. CASE (\E s \in Strategies : Configure(s)) \/ RequestSwitch \/ UNCHANGED vars
    BY <1>2, <1>5 DEF Configure, RequestSwitch, vars, cluster
  <1>6. QED
    BY <1>2, <1>3, <1>4, <1>5, HandlerCluster DEF Next

\* The writes of a handler stay the ones its kind makes at its place.
LEMMA PlannedStep ==
  ASSUME TypeOK, Course, Planned, NEW i \in Jobs, Handler(i), pc'[i] \in Writing
  PROVE  todo'[i] \in Seq(Meant(job[i], pc[i])')
  <1>1. pc \in [Jobs -> Places] /\ todo \in [Jobs -> Seq(WriteType)] /\ job \in [Jobs -> JobType]
    BY TypeParts DEF HandlerTypes, JobTypes
  <1>2. CASE Write(i)
    <2>1. todo[i] \in Seq(Meant(job[i], pc[i])) /\ UNCHANGED <<pc, job>>
      BY <1>2, WriteKeeps DEF Planned
    <2>2. Meant(job[i], pc[i])' = Meant(job[i], pc[i])
      BY <2>1 DEF Meant, Staged
    <2>3. QED
      BY <1>2, <2>1, <2>2, HeadTail, WriteKeeps
  <1>3. CASE PlanDeploy(i)
    <2>1. PICK writes \in DeployPlans(job[i]) : /\ pc'[i] = "applying" /\ todo'[i] = writes
                                               /\ UNCHANGED job
      BY <1>1, <1>3 DEF PlanDeploy, Plan, Goto
    <2>2. writes \in Seq(Staged(job[i]))
      BY <1>1, RollingWrites, CanaryWrites, SlotWrites, ConstantsAssumption DEF JobType
    <2>3. Meant(job[i], pc[i])' = Staged(job[i])
      <3>1. job'[i] = job[i] /\ pc'[i] = "applying"
        BY <2>1
      <3>2. Meant(job[i], pc[i])' = Staged(job[i])'
        BY <3>1 DEF Meant
      <3>3. Staged(job[i])' = Staged(job[i])
        BY <3>1 DEF Staged
      <3>4. QED
        BY <3>2, <3>3
    <2>4. QED
      BY <2>1, <2>2, <2>3
  <1>4. CASE Sweep(i)
    <2>1. /\ pc'[i] = "deleting" /\ UNCHANGED job /\ pc[i] = "sweeping"
          /\ todo'[i] = CleanupPlan(IF job[i].kind = "rule" THEN job[i].strategy ELSE "rolling")
      BY <1>1, <1>4 DEF Sweep, Plan, Goto, At
    <2>2. (IF job[i].kind = "rule" THEN job[i].strategy ELSE "rolling")
             \in {"rolling", "canary", "blue-green"}
      BY <1>1, ConstantsAssumption DEF JobType
    <2>3. todo'[i] \in Seq(Drops(Candidates))
      BY <2>1, <2>2, CleanupWrites, Widened DEF Unneeded
    <2>4. job[i].kind # "switch"
      BY <2>1 DEF Course, OnCourse, Running, SwitchPlaces
    <2>5. QED
      BY <2>1, <2>3, <2>4 DEF Meant, Drops
  <1>5. CASE ObserveHealthy(i)
    <2>1. /\ pc'[i] = "deleting" /\ UNCHANGED job /\ pc[i] = "observing"
          /\ todo'[i] = Drop(job[i].active) \o <<PutDep("base", Absent)>>
      BY <1>1, <1>5 DEF ObserveHealthy, Plan, Goto, At
    <2>2. job[i].kind = "switch"
      BY <1>1, <2>1 DEF Course, OnCourse, Running, DeployPlaces, RollingPlaces, PromotePlaces,
         RulePlaces, JobType, Kinds
    <2>3. todo'[i] \in Seq(Drops({job[i].active}) \cup {PutDep("base", Absent)})
      BY <1>1, <2>1, PlanTyped DEF JobType
    <2>4. QED
      BY <2>1, <2>2, <2>3 DEF Meant, Drops
  <1>6. CASE ListPublished(i)
    <2>1. PICK writes \in ShiftPlans : pc'[i] = "rerouting" /\ todo'[i] = writes
      BY <1>1, <1>6 DEF ListPublished, Plan, Goto
    <2>2. QED
      BY <2>1, ShiftWrites, TypeParts DEF Meant, Publishings
  <1>7. CASE CheckAvailability(i)
    <2>1. PICK final :
            /\ job' = [job EXCEPT ![i] = final] /\ pc'[i] = "publishing"
            /\ todo'[i] = <<PutRoute(final.rule, Destinations(final))>>
      BY <1>1, <1>7 DEF CheckAvailability, Plan, Goto
    <2>2. final \in JobType
      BY <1>1, <2>1, JobTyped DEF JobTypes
    <2>3. todo'[i] \in Seq(Publishings)
      BY <2>1, <2>2, PlanTyped, DestinationsTyped DEF JobType
    <2>4. QED
      BY <2>1, <2>3 DEF Meant, Publishings
  <1>8. CASE Start(i)
    <2>1. pc'[i] = "publishing" /\ todo'[i] \in Seq(Publishings)
      BY <1>8, Started DEF Kinds, Writing
    <2>2. QED
      BY <2>1 DEF Meant, Publishings
  <1>9. QED
    BY <1>2, <1>3, <1>4, <1>5, <1>6, <1>7, <1>8, Arrivals DEF Writing

-----------------------------------------------------------------------------
(* What steps do to the workloads that others rely on.                     *)

\* Steps of no handler.
Outside == Kubernetes \/ (\E s \in Strategies : Configure(s)) \/ RequestSwitch \/ UNCHANGED vars

LEMMA OutsideStep ==
  ASSUME TypeOK, Outside
  PROVE  /\ UNCHANGED <<dep, sel, route, payload, primary, pc, job, todo>>
         /\ \A w \in Workloads : pods[w] # {} => pods'[w] # {}
         /\ \A w \in Workloads : OnlyCurrent(w) => OnlyCurrent(w)'
         /\ asked' = asked \/ (asked = NoSlot /\ asked' = primary)
  <1>1. dep \in [Workloads -> Versions \cup {Absent}] /\ pods \in [Workloads -> SUBSET Versions]
    BY TypeParts DEF ClusterTypes
  <1>2. CASE UNCHANGED cluster
    BY <1>2 DEF Outside, Kubernetes, Configure, RequestSwitch, vars, cluster, apiVars, configured,
         OnlyCurrent, PodsReady, OldPodsGone, PodsGone
  <1>3. CASE Kubernetes
    <2>1. UNCHANGED <<dep, sel, route, payload, primary, asked, pc, job, todo>>
      BY <1>3, KubernetesPods DEF apiVars, configured
    <2>2. \/ UNCHANGED pods
          \/ \E w \in Workloads : \/ pods' = [pods EXCEPT ![w] = @ \cup {dep[w]}]
                                  \/ pods' = [pods EXCEPT ![w] = {dep[w]}]
      BY <1>3, KubernetesPods
    <2>3. QED
      BY <1>1, <2>1, <2>2 DEF OnlyCurrent
  <1>4. QED
    BY <1>2, <1>3 DEF Outside, Configure, RequestSwitch, vars, cluster

LEMMA Steps == [Next]_vars => Outside \/ \E i \in Jobs : Handler(i)
  BY DEF Next, Outside

\* Rule operations publish routes and drop candidates.
LEMMA KeepingWrites ==
  ASSUME TypeOK, Course, Planned, NEW i \in Jobs, Keeps(job[i].kind), NEW x, Request(i, x)
  PROVE  x \in Publishings \/ (x \in Drops(Candidates) /\ pc[i] = "deleting")
  <1>1. Running(i)
    BY DEF Request, Running, Writing
  <1>2. pc[i] \in {"publishing", "deleting"}
    BY <1>1 DEF Request, Course, OnCourse, RulePlaces, Keeps, Writing
  <1>3. x = Head(todo[i]) /\ todo[i] # <<>> /\ todo[i] \in Seq(Meant(job[i], pc[i]))
    BY <1>2 DEF Request, Planned, Writing
  <1>4. x \in Meant(job[i], pc[i])
    BY <1>3, HeadTail
  <1>5. QED
    BY <1>2, <1>4 DEF Meant, Keeps

LEMMA BaseUntouched ==
  ASSUME TypeOK, NEW x \in Publishings \cup Drops(Candidates), Apply(x)
  PROVE  /\ dep'["base"] = dep["base"] /\ pods'["base"] = pods["base"] /\ sel'["base"] = sel["base"]
         /\ \A w \in Workloads : dep'[w] \in {dep[w], Absent} /\ sel'[w] \in {sel[w], Absent}
         /\ x \in Drops(Candidates) => UNCHANGED route
         /\ x \in Publishings => UNCHANGED <<dep, pods, sel>>
  <1>1. /\ dep \in [Workloads -> Versions \cup {Absent}] /\ pods \in [Workloads -> SUBSET Versions]
        /\ sel \in [Workloads -> Workloads \cup {Absent}]
    BY TypeParts DEF ClusterTypes
  <1>2. "base" \in Workloads
    BY Vocabulary
  <1>0. \A y \in Publishings : y.on = "route"
    BY DEF Publishings, PutRoute
  <1>3. CASE x \in Publishings
    BY <1>3 DEF Publishings, PutRoute, Apply, Drops, PutDep, PutSvc
  <1>4. CASE \E w \in Candidates : x = PutDep(w, Absent)
    <2>1. PICK w \in Candidates : x = PutDep(w, Absent)
      BY <1>4
    <2>2. /\ dep' = [dep EXCEPT ![w] = Absent] /\ UNCHANGED <<sel, route>>
          /\ pods' = [pods EXCEPT ![w] = {}] \/ UNCHANGED pods
      BY <2>1 DEF Apply, PutDep
    <2>3. w # "base" /\ x \notin Publishings
      BY <1>0, <2>1 DEF Candidates, PutDep
    <2>4. QED
      BY <1>1, <1>2, <2>2, <2>3
  <1>5. CASE \E w \in Candidates : x = PutSvc(w, Absent)
    <2>1. PICK w \in Candidates : x = PutSvc(w, Absent)
      BY <1>5
    <2>2. sel' = [sel EXCEPT ![w] = Absent] /\ UNCHANGED <<dep, pods, route>>
      BY <2>1 DEF Apply, PutSvc
    <2>3. w # "base" /\ x \notin Publishings
      BY <1>0, <2>1 DEF Candidates, PutSvc
    <2>4. QED
      BY <1>1, <1>2, <2>2, <2>3
  <1>6. QED
    BY <1>3, <1>4, <1>5 DEF Drops

Base == TypeOK /\ Course /\ Exclusive /\ PodsBehind /\ Planned

\* A handler runs when it takes a step, unless it starts.
LEMMA Active ==
  ASSUME NEW i \in Jobs, Handler(i), ~Start(i)
  PROVE  Running(i)
  <1>1. CASE Write(i) \/ WritesMade(i) \/ Abort(i) \/ PlanDeploy(i) \/ Validated(i)
             \/ PromoteRolling(i) \/ Settled(i) \/ Sweep(i) \/ Finish(i) \/ CleanupSkipped(i)
    BY <1>1 DEF Write, WritesMade, Abort, PlanDeploy, Validated, PromoteRolling, Settled, Sweep,
         Finish, CleanupSkipped, Running, At, Writing
  <1>2. CASE CandidateLive(i) \/ SwitchCanonical(i) \/ RecordSlot(i) \/ Revert(i)
             \/ ObserveHealthy(i) \/ ObserveUnhealthy(i) \/ UndoSlot(i) \/ CopyCanary(i)
             \/ MoveStableService(i) \/ ListPublished(i) \/ ConfirmShifted(i) \/ CheckAvailability(i)
    BY <1>2 DEF CandidateLive, SwitchCanonical, RecordSlot, Revert, ObserveHealthy,
         ObserveUnhealthy, UndoSlot, CopyCanary, MoveStableService, ListPublished,
         ConfirmShifted, CheckAvailability, Running, At
  <1>3. QED
    BY <1>1, <1>2 DEF Handler

\* While a handler that changes workloads runs, the other handlers leave the
\* canonical workload and its Service alone, and the API's record of the slots.
LEMMA BesideStep ==
  ASSUME Base, NEW j \in Jobs, Running(j), Moves(job[j]), NEW i \in Jobs \ {j}, Handler(i)
  PROVE  /\ dep'["base"] = dep["base"] /\ pods'["base"] = pods["base"] /\ sel'["base"] = sel["base"]
         /\ \A w \in Workloads : dep'[w] \in {dep[w], Absent}
         /\ UNCHANGED <<primary, asked>>
         /\ ~Overlap => UNCHANGED cluster
  <1>1. CASE Start(i)
    <2>1. UNCHANGED cluster /\ UNCHANGED apiVars
      BY <1>1, Started DEF Base
    <2>2. QED
      BY <2>1 DEF cluster, apiVars
  <1>2. CASE ~Start(i)
    <2>1. Running(i)
      BY <1>2, Active
    <2>2. Overlap /\ Keeps(job[i].kind)
      BY <2>1 DEF Base, Exclusive, Moves, Keeps
    <2>3. \A x : Request(i, x) => x \in Publishings \cup Drops(Candidates)
      BY <2>2, KeepingWrites DEF Base
    <2>4. UNCHANGED <<primary, asked>>
      <3>1. job[i].kind # "switch" /\ pc[i] \notin {"recording", "undoing"}
        BY <2>1, <2>2 DEF Base, Course, OnCourse, Keeps, RulePlaces
      <3>2. QED
        BY <3>1, HandlerApi DEF RecordSlot, UndoSlot, At
    <2>5. CASE UNCHANGED cluster
      BY <2>2, <2>4, <2>5 DEF cluster
    <2>6. CASE \E x : Request(i, x) /\ Apply(x)
      BY <2>2, <2>3, <2>4, <2>6, BaseUntouched DEF Base
    <2>7. QED
      BY <2>5, <2>6, HandlerCluster
  <1>3. QED
    BY <1>1, <1>2

\* The common part of the invariant.
LEMMA BaseStep == Base /\ [Next]_vars => Base'
  <1> SUFFICES ASSUME Base, [Next]_vars PROVE Base'
    OBVIOUS
  <1>1. TypeOK' /\ PodsBehind'
    BY NextTyped, PodsBehindStep DEF Base
  <1>2. CASE Outside
    <2>1. UNCHANGED <<pc, job, todo>>
      BY <1>2, OutsideStep DEF Base
    <2>2. Course' /\ Exclusive'
      BY <2>1 DEF Base, Course, OnCourse, Exclusive, Running
    <2>3. Planned'
      <3>1. ASSUME NEW j \in Jobs PROVE Meant(job[j], pc[j])' = Meant(job[j], pc[j])
        BY <2>1 DEF Meant, Staged
      <3>2. QED
        BY <2>1, <3>1 DEF Base, Planned
    <2>4. QED
      BY <1>1, <2>2, <2>3 DEF Base
  <1>3. ASSUME NEW i \in Jobs, Handler(i) PROVE Base'
    <2>1. Exclusive'
      BY <1>3, ExclusiveStep DEF Base
    <2>2. Course'
      <3>1. ASSUME NEW j \in Jobs \ {i}, Running(j)' PROVE OnCourse(j)'
        <4>1. pc'[j] = pc[j] /\ job'[j] = job[j]
          BY <1>3, Bystander DEF Base
        <4>2. OnCourse(j)
          BY <3>1, <4>1 DEF Base, Course, Running
        <4>3. QED
          BY <4>1, <4>2 DEF OnCourse
      <3>2. QED
        BY <1>3, <3>1, CourseOwn DEF Base, Course
    <2>3. Planned'
      <3>1. ASSUME NEW j \in Jobs \ {i}, pc'[j] \in Writing
            PROVE  todo'[j] \in Seq(Meant(job[j], pc[j])')
        <4>1. pc'[j] = pc[j] /\ job'[j] = job[j] /\ todo'[j] = todo[j]
          BY <1>3, Bystander DEF Base
        <4>2. Meant(job[j], pc[j])' = Meant(job[j], pc[j])
          <5>1. Staged(job[j])' = Staged(job[j])
            BY <4>1 DEF Staged
          <5>2. QED
            BY <4>1, <5>1 DEF Meant
        <4>3. QED
          BY <3>1, <4>1, <4>2 DEF Base, Planned
      <3>2. QED
        BY <1>3, <3>1, PlannedStep DEF Base, Planned
    <2>4. QED
      BY <1>1, <2>1, <2>2, <2>3 DEF Base
  <1>4. QED
    BY <1>2, <1>3, Steps

LEMMA BaseInit == Init => Base
  <1> SUFFICES ASSUME Init PROVE Base
    OBVIOUS
  <1>1. TypeOK
    BY InitTyped
  <1>2. \A j \in Jobs : pc[j] = "idle"
    BY DEF Init
  <1>3. Course /\ Exclusive /\ Planned
    BY <1>2 DEF Course, Exclusive, Planned, Running, Writing
  <1>4. PodsBehind
    <2>1. First # Absent
      BY ConstantsAssumption
    <2>2. \E W : Established(W)
      BY DEF Init
    <2>3. QED
      BY <2>1, <2>2 DEF PodsBehind, Established, Only
  <1>5. QED
    BY <1>1, <1>3, <1>4 DEF Base

-----------------------------------------------------------------------------
(* Staging keeps the traffic where it is.                                  *)

LEMMA KeptStable ==
  ASSUME NEW j \in Jobs, job'[j] = job[j], sel'["base"] = sel["base"], UNCHANGED payload
  PROVE  Kept(job[j])' = Kept(job[j])
  BY DEF Kept, Rendered, WriteType, Workloads, Slots

LEMMA KeptStep ==
  ASSUME TypeOK, NEW j \in Jobs, job'[j] = job[j],
         NEW x \in Kept(job[j]), Apply(x), UNCHANGED payload
  PROVE  /\ Kept(job[j]) \subseteq Kept(job[j])'
         /\ sel'["base"] \in {sel["base"], "base"}
  <1>1. x \in WriteType /\ sel \in [Workloads -> Workloads \cup {Absent}] /\ "base" \in Workloads
    BY Vocabulary, TypeParts DEF Kept, ClusterTypes
  <1>2. CASE sel'["base"] = sel["base"]
    BY <1>2, KeptStable
  <1>3. CASE sel'["base"] # sel["base"]
    <2>1. x.on = "svc" /\ x.w = "base" /\ sel'["base"] = x.to
      BY <1>1, <1>3, ApplyCases
    <2>2. x.to = "base" /\ (~Rendered /\ ~job[j].blind => sel["base"] = Absent)
      BY <1>3, <2>1 DEF Kept
    <2>3. \A y \in Kept(job[j]) : y.on = "svc" /\ y.w = "base" => y.to = "base"
      BY <2>2 DEF Kept
    <2>4. Rendered' = Rendered /\ WriteType' = WriteType
      BY DEF Rendered, WriteType, Workloads, Slots
    <2>5. ASSUME NEW y \in Kept(job[j]) PROVE y \in Kept(job[j])'
      BY <2>1, <2>2, <2>3, <2>4, Vocabulary DEF Kept
    <2>6. QED
      BY <2>1, <2>2, <2>5
  <1>4. QED
    BY <1>2, <1>3

LEMMA TrafficKeptStep == Base /\ TrafficKept /\ [Next]_vars => TrafficKept'
  <1> SUFFICES ASSUME Base, TrafficKept, [Next]_vars,
                      NEW j \in Jobs, pc'[j] = "applying", job'[j].strategy # "blue-green"
               PROVE  (todo[j] \in Seq(Kept(job[j])))'
    BY DEF TrafficKept
  <1>1. CASE Outside
    <2>1. /\ pc'[j] = pc[j] /\ job'[j] = job[j] /\ todo'[j] = todo[j]
          /\ sel'["base"] = sel["base"] /\ UNCHANGED payload
      BY <1>1, OutsideStep DEF Base
    <2>2. QED
      BY <2>1, KeptStable DEF TrafficKept
  <1>2. ASSUME NEW i \in Jobs, Handler(i), i # j PROVE (todo[j] \in Seq(Kept(job[j])))'
    <2>1. pc'[j] = pc[j] /\ job'[j] = job[j] /\ todo'[j] = todo[j]
      BY <1>2, Bystander DEF Base
    <2>2. Running(j) /\ Moves(job[j])
      BY <2>1 DEF Base, Course, OnCourse, Running, Moves, Keeps, RulePlaces
    <2>3. sel'["base"] = sel["base"] /\ UNCHANGED payload
      BY <1>2, <2>2, BesideStep, HandlerApi DEF configured
    <2>4. QED
      BY <2>1, <2>3, KeptStable DEF TrafficKept
  <1>3. CASE PlanDeploy(j)
    <2>1. PICK writes \in DeployPlans(job[j]) :
            /\ todo'[j] = writes /\ UNCHANGED <<job, sel, payload>>
      BY <1>3, TypeParts DEF PlanDeploy, Plan, Base, HandlerTypes, cluster, apiVars, configured
    <2>2. job[j] \in JobType /\ job[j].strategy \in {"rolling", "canary"}
      BY <2>1, ConstantsAssumption, TypeParts DEF Base, JobTypes, JobType
    <2>3. writes \in Seq(Kept(job[j]))
      BY <2>2, RollingWrites, CanaryWrites DEF Base
    <2>4. QED
      BY <2>1, <2>3, KeptStable
  <1>4. CASE Write(j)
    <2>1. /\ UNCHANGED <<pc, job, payload>> /\ todo'[j] = Tail(todo[j]) /\ todo[j] # <<>>
          /\ Apply(Head(todo[j]))
      BY <1>4, WriteKeeps DEF Base, Write, apiVars, configured
    <2>2. todo[j] \in Seq(Kept(job[j]))
      BY <2>1 DEF TrafficKept
    <2>3. Head(todo[j]) \in Kept(job[j]) /\ Tail(todo[j]) \in Seq(Kept(job[j]))
      BY <2>1, <2>2, HeadTail
    <2>4. Kept(job[j]) \subseteq Kept(job[j])'
      BY <2>1, <2>3, KeptStep DEF Base
    <2>5. QED
      BY <2>1, <2>3, <2>4, Widened
  <1>5. CASE Handler(j)
    BY <1>3, <1>4, <1>5, Arrivals DEF Base
  <1>6. QED
    BY <1>1, <1>2, <1>5, Steps

\* The canonical workload has pods when a handler is about to move the traffic to it.
LEMMA BaseReadyStep == Base /\ BaseReady /\ [Next]_vars => BaseReady'
  <1> SUFFICES ASSUME Base, BaseReady, [Next]_vars,
                      NEW j \in Jobs, pc'[j] \in {"promoting", "moving"}
               PROVE  pods'["base"] # {}
    BY DEF BaseReady
  <1>1. CASE Outside
    BY <1>1, OutsideStep, Vocabulary DEF Base, BaseReady
  <1>2. ASSUME NEW i \in Jobs, Handler(i), i # j PROVE pods'["base"] # {}
    <2>1. pc'[j] = pc[j]
      BY <1>2, Bystander DEF Base
    <2>2. Running(j) /\ Moves(job[j])
      BY <2>1 DEF Base, Course, OnCourse, Running, Moves, Keeps, RulePlaces
    <2>3. QED
      BY <1>2, <2>1, <2>2, BesideStep DEF BaseReady
  <1>3. CASE Validated(j)
    <2>1. At(j, "validating") /\ pc'[j] = "promoting"
      BY <1>3, TypeParts DEF Validated, Goto, Base, HandlerTypes
    <2>2. job[j].strategy = "rolling"
      BY <1>3, <2>1, TypeParts DEF Validated, Goto, Base, HandlerTypes
    <2>3. Available("base") /\ UNCHANGED pods
      BY <1>3, <2>2 DEF Validated, ReadinessTargets, cluster
    <2>4. QED
      BY <2>3 DEF Available
  <1>4. CASE Settled(j)
    BY <1>4 DEF Settled, RolledOut, cluster
  <1>5. CASE Handler(j)
    BY <1>3, <1>4, <1>5, Arrivals DEF Base
  <1>6. QED
    BY <1>1, <1>2, <1>5, Steps

-----------------------------------------------------------------------------
(* Cleanups spare what is used.                                            *)

\* A handler's next write, by its kind and place.
LEMMA Requests ==
  ASSUME Base, NEW i \in Jobs, NEW x, Request(i, x)
  PROVE  \/ pc[i] = "applying" /\ job[i].kind = "deploy" /\ x \in Staged(job[i])
         \/ pc[i] = "deleting" /\ job[i].kind # "switch" /\ x \in Drops(Candidates)
         \/ /\ pc[i] = "deleting" /\ job[i].kind = "switch"
            /\ x \in Drops({job[i].active}) \cup {PutDep("base", Absent)}
         \/ pc[i] \in {"rerouting", "publishing"} /\ x \in Publishings
         \/ /\ pc[i] = "copying" /\ job[i].kind = "promote" /\ Exists("canary")
            /\ x = PutDep("base", dep["canary"])
         \/ /\ pc[i] = "promoting" /\ job[i].kind = "deploy" /\ job[i].strategy = "rolling"
            /\ x = PutSvc("base", "base")
         \/ pc[i] = "moving" /\ job[i].kind = "promote" /\ x = PutSvc("base", "base")
         \/ pc[i] = "shifting" /\ job[i].kind = "switch" /\ x = PutSvc("base", Other(job[i].active))
         \/ /\ pc[i] \in {"reverting", "observing"} /\ job[i].kind = "switch"
            /\ x = PutSvc("base", job[i].active)
  <1>1. Running(i) /\ OnCourse(i) /\ job[i].kind \in Kinds
    <2>1. Running(i)
      BY DEF Request, Running, Writing
    <2>2. QED
      BY <2>1, TypeParts DEF Base, Course, JobTypes, JobType
  <1>2. CASE pc[i] \in Writing /\ todo[i] # <<>> /\ x = Head(todo[i])
    <2>1. x \in Meant(job[i], pc[i])
      BY <1>2, HeadTail DEF Base, Planned
    <2>2. pc[i] = "applying" => job[i].kind = "deploy"
      BY <1>1 DEF OnCourse, Kinds, SwitchPlaces, PromotePlaces, RulePlaces
    <2>3. QED
      BY <1>2, <2>1, <2>2 DEF Meant, Writing
  <1>3. CASE ~(pc[i] \in Writing /\ todo[i] # <<>> /\ x = Head(todo[i]))
    BY <1>1, <1>3 DEF Request, OnCourse, Kinds, DeployPlaces, RollingPlaces, SwitchPlaces,
         PromotePlaces, RulePlaces
  <1>4. QED
    BY <1>2, <1>3

LEMMA Both ==
  ASSUME NEW S, NEW T, NEW s \in Seq(S), s \in Seq(T)
  PROVE  s \in Seq(S \cap T)
  OBVIOUS

\* A handler that stages has fetched its service before.
LEMMA Applying ==
  ASSUME NEW i \in Jobs, Handler(i), pc[i] = "applying"
  PROVE  job'[i] = job[i]
  BY DEF Handler, Start, Running, Write, WritesMade, Abort, PlanDeploy, Validated, PromoteRolling,
         Settled, Sweep, Finish, CandidateLive, SwitchCanonical, RecordSlot, Revert,
         ObserveHealthy, ObserveUnhealthy, UndoSlot, CopyCanary, MoveStableService,
         ListPublished, ConfirmShifted, CheckAvailability, CleanupSkipped, At

\* Without slots the traffic only ever moves to the canonical workload.
LEMMA MovesToBase ==
  ASSUME Base, TrafficKept, "blue-green" \notin Strategies, NEW i \in Jobs, Handler(i)
  PROVE  sel'["base"] \in {sel["base"], "base"}
  <1>1. sel \in [Workloads -> Workloads \cup {Absent}] /\ "base" \in Workloads
    BY Vocabulary, TypeParts DEF Base, ClusterTypes
  <1>2. CASE UNCHANGED cluster
    BY <1>2 DEF cluster
  <1>3. ASSUME NEW x, Request(i, x), Apply(x) PROVE sel'["base"] \in {sel["base"], "base"}
    <2>1. job[i].kind # "switch" /\ (job[i].kind = "deploy" => job[i].strategy # "blue-green")
      BY <1>3 DEF Base, Course, OnCourse, Request, Running, Writing
    <2>2. CASE x \in Drops(Candidates) \cup Publishings
      BY <1>3, <2>2, BaseUntouched DEF Base
    <2>3. CASE x = PutSvc("base", "base")
      BY <1>1, <1>3, <2>3 DEF Apply, PutSvc
    <2>4. CASE x = PutDep("base", dep["canary"])
      BY <1>3, <2>4 DEF Apply, PutDep
    <2>5. CASE pc[i] = "applying" /\ job[i].kind = "deploy"
      <3>1. todo[i] \in Seq(Kept(job[i])) /\ x = Head(todo[i]) /\ todo[i] # <<>>
        BY <1>3, <2>1, <2>5 DEF TrafficKept, Request, Writing
      <3>2. x \in Kept(job[i])
        BY <3>1, HeadTail
      <3>3. UNCHANGED payload /\ job'[i] = job[i]
        BY <2>5, HandlerApi, Applying DEF configured
      <3>4. QED
        BY <1>3, <3>2, <3>3, KeptStep DEF Base
    <2>6. QED
      BY <1>3, <2>1, <2>2, <2>3, <2>4, <2>5, Requests
  <1>4. QED
    BY <1>2, <1>3, HandlerCluster

\* A handler's own write of a cleanup leaves the canonical Service alone.
LEMMA OwnDrop ==
  ASSUME Base, NEW j \in Jobs, Write(j), pc[j] = "deleting", job[j].kind # "switch"
  PROVE  /\ sel'["base"] = sel["base"] /\ UNCHANGED route
         /\ dep'["base"] = dep["base"] /\ pods'["base"] = pods["base"]
  <1>1. Request(j, Head(todo[j])) /\ Apply(Head(todo[j]))
    BY WriteKeeps DEF Base
  <1>2. Head(todo[j]) \in Drops(Candidates)
    BY <1>1, Requests
  <1>3. QED
    BY <1>1, <1>2, BaseUntouched DEF Base

LEMMA SweepsSpareTrafficStep ==
  ~Crossed /\ Base /\ TrafficKept /\ SweepsSpareTraffic /\ [Next]_vars => SweepsSpareTraffic'
  <1> SUFFICES ASSUME ~Crossed, Base, TrafficKept, SweepsSpareTraffic, [Next]_vars,
                      NEW j \in Jobs, pc'[j] = "deleting", job'[j].kind # "switch"
               PROVE  todo'[j] \in Seq(Untargeted')
    BY DEF SweepsSpareTraffic
  <1>1. sel'["base"] = sel["base"] => Untargeted' = Untargeted
    BY DEF Untargeted, WriteType, Workloads, Slots
  <1>2. CASE Outside
    BY <1>1, <1>2, OutsideStep DEF Base, SweepsSpareTraffic
  <1>3. ASSUME NEW i \in Jobs, Handler(i), i # j PROVE todo'[j] \in Seq(Untargeted')
    <2>1. pc'[j] = pc[j] /\ job'[j] = job[j] /\ todo'[j] = todo[j]
      BY <1>3, Bystander DEF Base
    <2>2. Running(j) /\ todo[j] \in Seq(Untargeted) /\ todo[j] \in Seq(Drops(Candidates))
      BY <2>1 DEF Running, SweepsSpareTraffic, Base, Planned, Meant, Writing
    <2>3. sel'["base"] \in {sel["base"], "base"}
      <3>1. CASE Start(i)
        BY <3>1, Started DEF Base, cluster
      <3>2. CASE Moves(job[j])
        BY <1>3, <2>2, <3>2, BesideStep
      <3>3. CASE ~Start(i) /\ ~Moves(job[j])
        <4>1. Overlap
          BY <1>3, <2>2, <3>3, Active DEF Base, Exclusive
        <4>2. QED
          BY <1>3, <4>1, MovesToBase DEF Crossed
      <3>4. QED
        BY <3>1, <3>2, <3>3
    <2>4. Untargeted \cap Drops(Candidates) \subseteq Untargeted'
      <3>1. \A x \in Drops(Candidates) : x.w # "base"
        BY DEF Drops, Candidates, PutDep, PutSvc
      <3>2. WriteType' = WriteType
        BY DEF WriteType, Workloads, Slots
      <3>3. QED
        BY <2>3, <3>1, <3>2 DEF Untargeted
    <2>5. todo[j] \in Seq(Untargeted \cap Drops(Candidates))
      BY <2>2, Both
    <2>6. QED
      BY <2>1, <2>4, <2>5, Widened
  <1>4. CASE Sweep(j)
    <2>1. /\ UNCHANGED sel
          /\ todo'[j] = CleanupPlan(IF job[j].kind = "rule" THEN job[j].strategy ELSE "rolling")
      BY <1>4, TypeParts DEF Sweep, Plan, Base, HandlerTypes, cluster
    <2>2. (IF job[j].kind = "rule" THEN job[j].strategy ELSE "rolling")
             \in {"rolling", "canary", "blue-green"}
      BY ConstantsAssumption, TypeParts DEF Base, JobTypes, JobType
    <2>3. Unneeded \subseteq Untargeted
      <3>1. Drops(Candidates) \subseteq WriteType
        BY Kinded, Vocabulary DEF Drops
      <3>2. QED
        BY <3>1 DEF Unneeded, Untargeted
    <2>4. QED
      BY <1>1, <2>1, <2>2, <2>3, CleanupWrites, Widened
  <1>5. CASE Write(j)
    <2>1. UNCHANGED <<pc, job>> /\ todo'[j] = Tail(todo[j]) /\ todo[j] # <<>>
      BY <1>5, WriteKeeps DEF Base
    <2>2. todo[j] \in Seq(Untargeted) /\ sel'["base"] = sel["base"]
      BY <1>5, <2>1, OwnDrop DEF SweepsSpareTraffic
    <2>3. QED
      BY <1>1, <2>1, <2>2, HeadTail
  <1>6. CASE ObserveHealthy(j)
    <2>1. Running(j) /\ pc[j] = "observing" /\ job'[j] = job[j]
      BY <1>6 DEF ObserveHealthy, At, Running
    <2>2. job[j].kind = "switch"
      BY <2>1, TypeParts DEF Base, Course, OnCourse, DeployPlaces, RollingPlaces, PromotePlaces,
         RulePlaces, JobTypes, JobType, Kinds
    <2>3. QED
      BY <2>1, <2>2
  <1>7. CASE Handler(j)
    BY <1>4, <1>5, <1>6, <1>7, Arrivals DEF Base
  <1>8. QED
    BY <1>2, <1>3, <1>7, Steps

\* If no rule operation runs beside another handler, one handler runs at a time.
LEMMA Alone ==
  ASSUME Base, ~Overlap, NEW j \in Jobs, Running(j), NEW i \in Jobs \ {j}, Handler(i)
  PROVE  FALSE
  <1>1. Start(i)
    BY Active DEF Base, Exclusive
  <1>2. Admitted(job'[i].kind)
    BY <1>1, Started DEF Base
  <1>3. QED
    BY <1>2 DEF Admitted

LEMMA SweepsSpareRoutesStep ==
  ~Overlap /\ Base /\ SweepsSpareRoutes /\ [Next]_vars => SweepsSpareRoutes'
  <1> SUFFICES ASSUME ~Overlap, Base, SweepsSpareRoutes, [Next]_vars,
                      NEW j \in Jobs, pc'[j] = "deleting", job'[j].kind # "switch"
               PROVE  todo'[j] \in Seq(Unrouted')
    BY DEF SweepsSpareRoutes
  <1>1. UNCHANGED route => Unrouted' = Unrouted
    BY DEF Unrouted, HostsInUse, WriteType, Workloads, Slots
  <1>2. CASE Outside
    BY <1>1, <1>2, OutsideStep DEF Base, SweepsSpareRoutes
  <1>3. ASSUME NEW i \in Jobs, Handler(i), i # j PROVE todo'[j] \in Seq(Unrouted')
    <2>1. Running(j)
      BY <1>3, Bystander DEF Base, Running
    <2>2. QED
      BY <1>3, <2>1, Alone
  <1>4. CASE Sweep(j)
    <2>1. /\ UNCHANGED route
          /\ todo'[j] = CleanupPlan(IF job[j].kind = "rule" THEN job[j].strategy ELSE "rolling")
      BY <1>4, TypeParts DEF Sweep, Plan, Base, HandlerTypes, cluster
    <2>2. (IF job[j].kind = "rule" THEN job[j].strategy ELSE "rolling")
             \in {"rolling", "canary", "blue-green"}
      BY ConstantsAssumption, TypeParts DEF Base, JobTypes, JobType
    <2>3. Unneeded \subseteq Unrouted
      <3>1. Drops(Candidates) \subseteq WriteType
        BY Kinded, Vocabulary DEF Drops
      <3>2. QED
        BY <3>1 DEF Unneeded, Unrouted
    <2>4. QED
      BY <1>1, <2>1, <2>2, <2>3, CleanupWrites, Widened
  <1>5. CASE Write(j)
    <2>1. UNCHANGED <<pc, job>> /\ todo'[j] = Tail(todo[j]) /\ todo[j] # <<>>
      BY <1>5, WriteKeeps DEF Base
    <2>2. todo[j] \in Seq(Unrouted) /\ UNCHANGED route
      BY <1>5, <2>1, OwnDrop DEF SweepsSpareRoutes
    <2>3. QED
      BY <1>1, <2>1, <2>2, HeadTail
  <1>6. CASE ObserveHealthy(j)
    <2>1. Running(j) /\ pc[j] = "observing" /\ job'[j] = job[j]
      BY <1>6 DEF ObserveHealthy, At, Running
    <2>2. job[j].kind = "switch"
      BY <2>1, TypeParts DEF Base, Course, OnCourse, DeployPlaces, RollingPlaces, PromotePlaces,
         RulePlaces, JobTypes, JobType, Kinds
    <2>3. QED
      BY <2>1, <2>2
  <1>7. CASE Handler(j)
    BY <1>4, <1>5, <1>6, <1>7, Arrivals DEF Base
  <1>8. QED
    BY <1>2, <1>3, <1>7, Steps

-----------------------------------------------------------------------------
(* How far the handlers that report success have come.                     *)

\* What the steps of a rolling deploy or a promotion do to the canonical workload.
LEMMA BaseProgressOwn ==
  ASSUME Base, BaseProgress, NEW j \in Jobs, Handler(j), ~Start(j), job[j].kind \in {"deploy", "promote"},
         job[j].kind = "deploy" => job[j].strategy = "rolling"
  PROVE  /\ job[j].kind = "deploy" /\ pc'[j] = "applying" => StagedBase(j)'
         /\ BaseWritten(j)' => dep'["base"] = job'[j].version
         /\ BaseSettled(j)' => OnlyCurrent("base")'
         /\ BaseSelected(j)' => sel'["base"] = "base"
  <1> USE DEF RollingPlaces, PromotePlaces
  <1>1. /\ pc \in [Jobs -> Places] /\ job \in [Jobs -> JobType] /\ todo \in [Jobs -> Seq(WriteType)]
        /\ dep \in [Workloads -> Versions \cup {Absent}] /\ pods \in [Workloads -> SUBSET Versions]
        /\ sel \in [Workloads -> Workloads \cup {Absent}] /\ "base" \in Workloads
        /\ "canary" \in Workloads
    BY Vocabulary, TypeParts DEF Base, HandlerTypes, JobTypes, ClusterTypes
  <1>2. Running(j) /\ OnCourse(j)
    BY Active DEF Base, Course
  <1>3. /\ job[j].kind = "deploy"  => pc[j] \in DeployPlaces
        /\ job[j].kind = "promote" => pc[j] \in PromotePlaces
    BY <1>2 DEF OnCourse
  <1>4. /\ job'[j].kind = job[j].kind /\ job'[j].strategy = job[j].strategy
        /\ CopyCanary(j) \/ job'[j] = job[j]
    <2>1. ~CheckAvailability(j)
      BY <1>3 DEF CheckAvailability, At, DeployPlaces
    <2>2. QED
      BY <2>1, KindKept DEF Base
  <1>5. CASE PlanDeploy(j)
    <2>1. PICK writes \in DeployPlans(job[j]) :
            todo'[j] = writes /\ pc'[j] = "applying" /\ UNCHANGED job
      BY <1>1, <1>5 DEF PlanDeploy, Plan, Goto
    <2>2. job[j].kind = "deploy"
      BY <1>3, <1>5 DEF PlanDeploy, At
    <2>3. \E i \in 1..Len(writes) : writes[i] = PutDep("base", job[j].version)
      BY <1>1, <2>2, RollingWrites DEF Base
    <2>4. StagedBase(j)'
      BY <2>1, <2>3 DEF StagedBase, PutDep
    <2>5. QED
      BY <1>4, <2>1, <2>2, <2>4 DEF BaseWritten, BaseSettled, BaseSelected
  <1>6. CASE Write(j) /\ pc[j] = "applying"
    <2>1. /\ job[j].kind = "deploy" /\ UNCHANGED <<pc, job>> /\ todo'[j] = Tail(todo[j])
          /\ todo[j] # <<>> /\ todo[j] \in Seq(WriteType) /\ Apply(Head(todo[j]))
          /\ StagedBase(j) /\ Head(todo[j]) \in Staged(job[j]) /\ Head(todo[j]) \in WriteType
      <3>1. job[j].kind = "deploy"
        BY <1>3, <1>6
      <3>2. Request(j, Head(todo[j])) /\ Apply(Head(todo[j])) /\ Head(todo[j]) \in WriteType
        BY <1>6, WriteKeeps DEF Base
      <3>3. Head(todo[j]) \in Staged(job[j])
        BY <1>6, <3>1, <3>2, Requests
      <3>4. StagedBase(j)
        BY <1>6, <3>1 DEF BaseProgress
      <3>5. QED
        BY <1>1, <1>6, <3>1, <3>2, <3>3, <3>4, WriteKeeps DEF Base
    <2>2. \/ Head(todo[j]) = PutDep("base", job[j].version)
          \/ Head(todo[j]).on = "svc"
      BY <2>1 DEF Staged, PutSvc
    <2>3. /\ Head(todo[j]) = PutDep("base", job[j].version) => dep'["base"] = job[j].version
          /\ Head(todo[j]).on = "svc" => UNCHANGED dep
      BY <1>1, <2>1 DEF Apply, PutDep
    <2>4. StagedBase(j)'
      <3>1. CASE Head(todo[j]) = PutDep("base", job[j].version)
        BY <2>1, <2>3, <3>1 DEF StagedBase
      <3>2. CASE Head(todo[j]).on = "svc"
        <4>1. CASE dep["base"] = job[j].version
          BY <2>1, <2>3, <3>2, <4>1 DEF StagedBase
        <4>2. CASE \E i \in 1..Len(todo[j]) : todo[j][i] = PutDep("base", job[j].version)
          <5>1. PICK i \in 1..Len(todo[j]) : todo[j][i] = PutDep("base", job[j].version)
            BY <4>2
          <5>2. todo[j][i].on = "dep"
            BY <5>1 DEF PutDep
          <5>3. todo[j][1].on = "svc"
            BY <2>1, <3>2
          <5>4. i # 1
            BY <5>2, <5>3
          <5>5. i - 1 \in 1..Len(Tail(todo[j])) /\ Tail(todo[j])[i - 1] = todo[j][i]
            BY <2>1, <5>1, <5>4
          <5>6. \E k \in 1..Len(Tail(todo[j])) : Tail(todo[j])[k] = PutDep("base", job[j].version)
            BY <5>1, <5>5
          <5>7. QED
            BY <2>1, <5>6 DEF StagedBase, PutDep
        <4>3. QED
          BY <2>1, <4>1, <4>2 DEF StagedBase
      <3>3. QED
        BY <2>2, <3>1, <3>2
    <2>5. QED
      BY <1>6, <2>1, <2>4 DEF BaseWritten, BaseSettled, BaseSelected
  <1>7. CASE Write(j) /\ pc[j] # "applying"
    <2>1. UNCHANGED <<pc, job>> /\ Request(j, Head(todo[j])) /\ Apply(Head(todo[j]))
      BY <1>7, WriteKeeps DEF Base
    <2>2. Head(todo[j]) \in Drops(Candidates) \cup Publishings
      BY <1>7, <2>1, Requests, WriteKeeps DEF Writing, Base
    <2>3. /\ dep'["base"] = dep["base"] /\ pods'["base"] = pods["base"]
          /\ sel'["base"] = sel["base"]
      BY <2>1, <2>2, BaseUntouched DEF Base
    <2>4. QED
      BY <1>7, <2>1, <2>3 DEF BaseProgress, BaseWritten, BaseSettled, BaseSelected, OnlyCurrent
  <1>8. CASE WritesMade(j)
    <2>1. /\ UNCHANGED <<dep, pods, sel, job>> /\ pc'[j] = After(j) /\ pc[j] \in Writing
          /\ todo[j] = <<>>
      BY <1>1, <1>8 DEF WritesMade, Goto, cluster
    <2>2. pc[j] = "applying" => StagedBase(j) /\ job[j].kind = "deploy"
      BY <1>3 DEF BaseProgress
    <2>3. pc[j] = "applying" => dep["base"] = job[j].version
      BY <2>1, <2>2 DEF StagedBase
    <2>4. pc[j] # "publishing"
      BY <1>3 DEF DeployPlaces
    <2>5. QED
      BY <1>3, <2>1, <2>2, <2>3, <2>4 DEF After, Writing, BaseProgress, BaseWritten, BaseSettled,
         BaseSelected, OnlyCurrent, DeployPlaces
  <1>9. CASE PromoteRolling(j) \/ MoveStableService(j)
    <2>1. /\ UNCHANGED <<dep, pods, job>> /\ sel'["base"] = "base"
          /\ \/ pc[j] = "promoting" /\ pc'[j] = "settling"
             \/ pc[j] = "moving" /\ pc'[j] = "listing"
      BY <1>1, <1>9 DEF PromoteRolling, MoveStableService, Apply, PutSvc, Goto, At
    <2>2. QED
      BY <1>3, <2>1 DEF BaseProgress, BaseWritten, BaseSettled, BaseSelected, OnlyCurrent,
         DeployPlaces
  <1>10. CASE CopyCanary(j)
    <2>1. pc'[j] = "settling" /\ job[j].kind = "promote" /\ job'[j].version = dep["canary"]
      BY <1>1, <1>3, <1>10 DEF CopyCanary, Goto, At, DeployPlaces, JobType
    <2>2. dep'["base"] = dep["canary"]
      BY <1>1, <1>10 DEF CopyCanary, Apply, PutDep
    <2>3. QED
      BY <1>4, <2>1, <2>2 DEF BaseWritten, BaseSettled, BaseSelected
  <1>11. CASE Settled(j)
    BY <1>1, <1>3, <1>11 DEF Settled, Goto, At, RolledOut, Exists, cluster, DeployPlaces,
       BaseProgress, BaseWritten, BaseSettled, BaseSelected, OnlyCurrent
  <1>12. CASE Validated(j) \/ Sweep(j) \/ ListPublished(j) \/ ConfirmShifted(j)
    BY <1>1, <1>3, <1>12 DEF Validated, Sweep, ListPublished, ConfirmShifted, Plan, Goto, At, cluster,
       DeployPlaces, BaseProgress, BaseWritten, BaseSettled, BaseSelected, OnlyCurrent
  <1>13. CASE Abort(j) \/ Finish(j) \/ CleanupSkipped(j) \/ Revert(j) \/ UndoSlot(j)
    BY <1>1, <1>13 DEF Abort, Finish, CleanupSkipped, Revert, UndoSlot, Plan, Goto, BaseWritten,
       BaseSettled, BaseSelected
  <1>14. CASE CandidateLive(j) \/ SwitchCanonical(j) \/ RecordSlot(j) \/ ObserveHealthy(j)
              \/ ObserveUnhealthy(j) \/ CheckAvailability(j)
    BY <1>3, <1>14 DEF CandidateLive, SwitchCanonical, RecordSlot, ObserveHealthy,
       ObserveUnhealthy, CheckAvailability, At, DeployPlaces
  <1>15. QED
    BY <1>5, <1>6, <1>7, <1>8, <1>9, <1>10, <1>11, <1>12, <1>13, <1>14 DEF Handler

LEMMA BaseProgressStep == Base /\ BaseProgress /\ [Next]_vars => BaseProgress'
  <1> SUFFICES ASSUME Base, BaseProgress, [Next]_vars, NEW j \in Jobs
               PROVE  /\ job'[j].kind = "deploy" /\ job'[j].strategy = "rolling"
                         /\ pc'[j] = "applying" => StagedBase(j)'
                      /\ BaseWritten(j)' => dep'["base"] = job'[j].version
                      /\ BaseSettled(j)' => OnlyCurrent("base")'
                      /\ BaseSelected(j)' => sel'["base"] = "base"
    BY DEF BaseProgress
  <1>1. ASSUME pc'[j] = pc[j], job'[j] = job[j], todo'[j] = todo[j], dep'["base"] = dep["base"],
               sel'["base"] = sel["base"], OnlyCurrent("base") => OnlyCurrent("base")'
        PROVE  /\ job'[j].kind = "deploy" /\ job'[j].strategy = "rolling"
                  /\ pc'[j] = "applying" => StagedBase(j)'
               /\ BaseWritten(j)' => dep'["base"] = job'[j].version
               /\ BaseSettled(j)' => OnlyCurrent("base")'
               /\ BaseSelected(j)' => sel'["base"] = "base"
    BY <1>1 DEF BaseProgress, StagedBase, BaseWritten, BaseSettled, BaseSelected, PutDep
  <1>2. ASSUME pc'[j] \notin RollingPlaces \cup PromotePlaces \cup {"applying", "validating"}
        PROVE  ~BaseWritten(j)' /\ ~BaseSettled(j)' /\ ~BaseSelected(j)' /\ pc'[j] # "applying"
    BY <1>2 DEF BaseWritten, BaseSettled, BaseSelected
  <1>3. CASE job'[j].kind \notin {"deploy", "promote"}
             \/ (job'[j].kind = "deploy" /\ job'[j].strategy # "rolling")
    <2>1. Course'
      BY BaseStep DEF Base
    <2>2. job'[j].kind = "deploy" => pc'[j] \notin RollingPlaces
      BY <1>3, <2>1 DEF Course, OnCourse, RollingPlaces, Running
    <2>3. ~BaseWritten(j)' /\ ~BaseSettled(j)' /\ ~BaseSelected(j)'
      BY <1>3, <2>2 DEF BaseWritten, BaseSettled, BaseSelected
    <2>4. QED
      BY <1>3, <2>3
  <1>4. CASE /\ job'[j].kind \in {"deploy", "promote"}
             /\ job'[j].kind = "deploy" => job'[j].strategy = "rolling"
    <2>1. CASE Outside
      BY <1>1, <2>1, OutsideStep, Vocabulary DEF Base
    <2>2. ASSUME NEW i \in Jobs, Handler(i), i # j
          PROVE  /\ job'[j].kind = "deploy" /\ job'[j].strategy = "rolling"
                    /\ pc'[j] = "applying" => StagedBase(j)'
                 /\ BaseWritten(j)' => dep'["base"] = job'[j].version
                 /\ BaseSettled(j)' => OnlyCurrent("base")'
                 /\ BaseSelected(j)' => sel'["base"] = "base"
      <3>1. pc'[j] = pc[j] /\ job'[j] = job[j] /\ todo'[j] = todo[j]
        BY <2>2, Bystander DEF Base
      <3>2. CASE Running(j)
        <4>1. Moves(job[j])
          BY <1>4, <3>1 DEF Moves, Keeps
        <4>2. QED
          BY <1>1, <2>2, <3>1, <3>2, <4>1, BesideStep DEF OnlyCurrent
      <3>3. CASE ~Running(j)
        BY <1>2, <3>1, <3>3 DEF Running, RollingPlaces, PromotePlaces
      <3>4. QED
        BY <3>2, <3>3
    <2>3. CASE Start(j)
      <3>1. pc'[j] \in {"planning", "copying"} /\ (pc'[j] = "copying" => job'[j].kind = "promote")
        BY <1>4, <2>3, Started DEF Base
      <3>2. QED
        BY <3>1 DEF BaseWritten, BaseSettled, BaseSelected, RollingPlaces, PromotePlaces
    <2>4. CASE Handler(j) /\ ~Start(j)
      <3>1. job'[j].kind = job[j].kind /\ (CheckAvailability(j) \/ job'[j].strategy = job[j].strategy)
        BY <2>4, KindKept DEF Base
      <3>2. ~CheckAvailability(j)
        <4>1. Running(j)
          BY <2>4, Active
        <4>2. QED
          BY <1>4, <3>1, <4>1 DEF CheckAvailability, At, Base, Course, OnCourse, DeployPlaces,
             RollingPlaces, PromotePlaces
      <3>3. QED
        BY <1>4, <2>4, <3>1, <3>2, BaseProgressOwn
    <2>5. QED
      BY <2>1, <2>2, <2>3, <2>4, Steps
  <1>5. QED
    BY <1>3, <1>4

\* What the steps of a switch do to the slot it moves to.
SwitchDone(j) ==
  /\ pc[j] \in {"shifting", "recording", "observing", "deleting", "retiring"}
       => OnlyCurrent(Other(job[j].active))
  /\ pc[j] \in {"recording", "observing", "deleting", "retiring"}
       => sel["base"] = Other(job[j].active)

LEMMA SwitchProgressStep ==
  ~Overlap /\ Base /\ SwitchProgress /\ [Next]_vars => SwitchProgress'
  <1> SUFFICES ASSUME ~Overlap, Base, SwitchProgress, [Next]_vars,
                      NEW j \in Jobs, job'[j].kind = "switch"
               PROVE  SwitchDone(j)'
    BY DEF SwitchProgress, SwitchDone
  <1>1. /\ pc \in [Jobs -> Places] /\ job \in [Jobs -> JobType] /\ todo \in [Jobs -> Seq(WriteType)]
        /\ dep \in [Workloads -> Versions \cup {Absent}] /\ pods \in [Workloads -> SUBSET Versions]
        /\ sel \in [Workloads -> Workloads \cup {Absent}] /\ "base" \in Workloads
    BY Vocabulary, TypeParts DEF Base, HandlerTypes, JobTypes, ClusterTypes
  <1>2. ASSUME pc'[j] = pc[j], job'[j] = job[j], sel'["base"] = sel["base"],
               NEW s \in Slots, s = Other(job[j].active), OnlyCurrent(s) => OnlyCurrent(s)'
        PROVE  SwitchDone(j)'
    <2>1. SwitchDone(j)
      BY <1>2 DEF SwitchProgress, SwitchDone
    <2>2. Other(job'[j].active) = s
      BY <1>2
    <2>3. QED
      BY <1>2, <2>1, <2>2 DEF SwitchDone, OnlyCurrent
  <1>3. CASE Outside
    <2>1. PICK s \in Slots : s = Other(job[j].active)
      BY <1>1, Vocabulary DEF JobType
    <2>2. OnlyCurrent(s) => OnlyCurrent(s)'
      BY <1>3, <2>1, OutsideStep, Vocabulary DEF Base
    <2>3. pc'[j] = pc[j] /\ job'[j] = job[j] /\ sel'["base"] = sel["base"]
      BY <1>3, OutsideStep DEF Base
    <2>4. QED
      BY <1>2, <2>1, <2>2, <2>3
  <1>4. ASSUME NEW i \in Jobs, Handler(i), i # j PROVE SwitchDone(j)'
    <2>1. pc'[j] = pc[j] /\ ~Running(j)
      BY <1>4, Bystander, Alone DEF Base
    <2>2. QED
      BY <2>1 DEF SwitchDone, Running
  <1>5. CASE Start(j)
    BY <1>5, Started DEF SwitchDone, Base
  <1>6. CASE Handler(j) /\ ~Start(j)
    <2>1. Running(j) /\ job[j].kind = "switch" /\ pc[j] \in SwitchPlaces
      BY <1>6, Active, KindKept DEF Base, Course, OnCourse
    <2>2. job'[j] = job[j]
      BY <1>6, <2>1, KindKept DEF Base, CopyCanary, CheckAvailability, At, SwitchPlaces
    <2>3. SwitchDone(j)
      BY <2>1 DEF SwitchProgress, SwitchDone
    <2>4. PICK s \in Slots : s = Other(job[j].active)
      BY <1>1, Vocabulary DEF JobType
    <2>5. s \in Workloads /\ s # "base" /\ s # job[j].active /\ Other(job'[j].active) = s
      BY <1>1, <2>2, <2>4, Vocabulary DEF JobType, Slots
    <2>6. CASE CandidateLive(j)
      <3>1. RolledOut(s) /\ UNCHANGED cluster /\ pc'[j] = "shifting"
        BY <1>1, <2>4, <2>6 DEF CandidateLive, Goto
      <3>2. OnlyCurrent(s)'
        BY <3>1 DEF RolledOut, Exists, OnlyCurrent, cluster
      <3>3. QED
        BY <2>5, <3>1, <3>2 DEF SwitchDone
    <2>7. CASE SwitchCanonical(j)
      <3>1. /\ UNCHANGED <<dep, pods>> /\ sel'["base"] = s /\ pc'[j] = "recording" /\ pc[j] = "shifting"
        BY <1>1, <2>4, <2>7 DEF SwitchCanonical, Apply, PutSvc, Goto, At
      <3>2. OnlyCurrent(s)'
        BY <2>3, <2>4, <3>1 DEF SwitchDone, OnlyCurrent
      <3>3. QED
        BY <2>5, <3>1, <3>2 DEF SwitchDone
    <2>8. CASE RecordSlot(j) \/ ObserveHealthy(j)
      <3>1. /\ UNCHANGED <<dep, pods, sel>> /\ pc[j] \in {"recording", "observing"}
            /\ pc'[j] \in {"observing", "reverting", "deleting"}
        BY <1>1, <2>8 DEF RecordSlot, ObserveHealthy, Plan, Goto, At, cluster
      <3>2. OnlyCurrent(s)' /\ sel'["base"] = s
        BY <2>3, <2>4, <3>1 DEF SwitchDone, OnlyCurrent
      <3>3. QED
        BY <2>5, <3>2 DEF SwitchDone
    <2>9. CASE Write(j)
      <3>1. UNCHANGED <<pc, job>> /\ Request(j, Head(todo[j])) /\ Apply(Head(todo[j]))
        BY <2>9, WriteKeeps DEF Base
      <3>2. pc[j] = "deleting"
        BY <2>1, <2>9 DEF Write, Writing, SwitchPlaces
      <3>3. Head(todo[j]) \in Drops({job[j].active}) \cup {PutDep("base", Absent)}
        BY <2>1, <3>1, <3>2, Requests
      <3>4. dep'[s] = dep[s] /\ pods'[s] = pods[s] /\ sel'["base"] = sel["base"]
        <4>1. CASE Head(todo[j]) = PutSvc(job[j].active, Absent)
          <5>1. job[j].active # "base"
            BY <1>1 DEF JobType, Slots
          <5>2. QED
            BY <1>1, <3>1, <4>1, <5>1 DEF Apply, PutSvc
        <4>2. CASE \E w \in {job[j].active, "base"} : Head(todo[j]) = PutDep(w, Absent)
          BY <1>1, <2>5, <3>1, <4>2 DEF Apply, PutDep
        <4>3. QED
          BY <3>3, <4>1, <4>2 DEF Drops
      <3>5. OnlyCurrent(s)' /\ sel'["base"] = s
        BY <2>3, <2>4, <3>2, <3>4 DEF SwitchDone, OnlyCurrent
      <3>6. QED
        BY <2>5, <3>5 DEF SwitchDone
    <2>10. CASE WritesMade(j)
      <3>1. UNCHANGED <<dep, pods, sel>> /\ pc[j] = "deleting" /\ pc'[j] = "retiring"
        BY <1>1, <2>1, <2>10 DEF WritesMade, After, Writing, Goto, SwitchPlaces, cluster
      <3>2. OnlyCurrent(s)' /\ sel'["base"] = s
        BY <2>3, <2>4, <3>1 DEF SwitchDone, OnlyCurrent
      <3>3. QED
        BY <2>5, <3>2 DEF SwitchDone
    <2>11. CASE Abort(j) \/ Finish(j) \/ Revert(j) \/ ObserveUnhealthy(j) \/ UndoSlot(j)
                \/ CleanupSkipped(j)
      BY <1>1, <2>11 DEF Abort, Finish, Revert, ObserveUnhealthy, UndoSlot, CleanupSkipped, Plan,
         Goto, SwitchDone
    <2>12. CASE PlanDeploy(j) \/ Validated(j) \/ PromoteRolling(j) \/ Settled(j) \/ Sweep(j)
                \/ CopyCanary(j) \/ MoveStableService(j) \/ ListPublished(j) \/ ConfirmShifted(j)
                \/ CheckAvailability(j)
      BY <2>1, <2>12 DEF PlanDeploy, Validated, PromoteRolling, Settled, Sweep, CopyCanary,
         MoveStableService, ListPublished, ConfirmShifted, CheckAvailability, At, SwitchPlaces
    <2>13. QED
      BY <1>6, <2>6, <2>7, <2>8, <2>9, <2>10, <2>11, <2>12 DEF Handler
  <1>7. QED
    BY <1>3, <1>4, <1>5, <1>6, Steps

\* A running deploy works with the slot that is recorded.
LEMMA ActiveRecordedStep == Base /\ ActiveRecorded /\ [Next]_vars => ActiveRecorded'
  <1> SUFFICES ASSUME Base, ActiveRecorded, [Next]_vars,
                      NEW j \in Jobs, Running(j)', job'[j].kind = "deploy"
               PROVE  job'[j].active = primary'
    BY DEF ActiveRecorded
  <1>1. CASE Outside
    BY <1>1, OutsideStep DEF Base, ActiveRecorded, Running
  <1>2. ASSUME NEW i \in Jobs, Handler(i), i # j PROVE job'[j].active = primary'
    <2>1. Running(j) /\ job'[j] = job[j] /\ Moves(job[j])
      BY <1>2, Bystander DEF Base, Running, Moves, Keeps
    <2>2. QED
      BY <1>2, <2>1, BesideStep DEF ActiveRecorded
  <1>3. CASE Start(j)
    BY <1>3, Started DEF Base, ActiveSlot, apiVars
  <1>4. CASE Handler(j) /\ ~Start(j)
    <2>1. Running(j) /\ job[j].kind = "deploy" /\ pc[j] \in DeployPlaces
      BY <1>4, Active, KindKept DEF Base, Course, OnCourse
    <2>2. ~CheckAvailability(j) /\ ~RecordSlot(j) /\ ~UndoSlot(j)
      BY <2>1 DEF CheckAvailability, RecordSlot, UndoSlot, At, DeployPlaces, RollingPlaces
    <2>3. QED
      BY <1>4, <2>1, <2>2, KindKept, HandlerApi DEF Base, ActiveRecorded
  <1>5. QED
    BY <1>1, <1>2, <1>3, <1>4, Steps

\* A running switch works with the slot it was asked to move away from.
LEMMA SwitchAskedStep ==
  PayloadSlot /\ Base /\ SwitchAsked /\ [Next]_vars => SwitchAsked'
  <1> SUFFICES ASSUME PayloadSlot, Base, SwitchAsked, [Next]_vars,
                      NEW j \in Jobs, Running(j)', job'[j].kind = "switch"
               PROVE  job'[j].active = asked'
    BY DEF SwitchAsked
  <1>1. job \in [Jobs -> JobType] /\ pc \in [Jobs -> Places]
    BY TypeParts DEF Base, JobTypes, HandlerTypes
  <1>2. CASE Outside
    <2>1. Running(j) /\ job'[j] = job[j] /\ job[j].kind = "switch" /\ asked = job[j].active
      BY <1>2, OutsideStep DEF Base, SwitchAsked, Running
    <2>2. asked # NoSlot
      BY <1>1, <2>1, ConstantsAssumption DEF JobType, Slots
    <2>3. QED
      BY <1>2, <2>1, <2>2, OutsideStep DEF Base
  <1>3. ASSUME NEW i \in Jobs, Handler(i), i # j PROVE job'[j].active = asked'
    <2>1. Running(j) /\ job'[j] = job[j] /\ Moves(job[j])
      BY <1>3, Bystander DEF Base, Running, Moves, Keeps
    <2>2. QED
      BY <1>3, <2>1, BesideStep DEF SwitchAsked
  <1>4. CASE Start(j)
    BY <1>4, Started DEF Base, ActiveSlot, apiVars
  <1>5. CASE Handler(j) /\ ~Start(j)
    <2>1. Running(j) /\ job[j].kind = "switch" /\ pc[j] \in SwitchPlaces
      BY <1>5, Active, KindKept DEF Base, Course, OnCourse
    <2>2. job'[j].active = job[j].active
      BY <1>5, <2>1, KindKept DEF Base, CheckAvailability, At, SwitchPlaces
    <2>3. asked' = asked
      BY <1>1, <1>5, HandlerApi DEF Running
    <2>4. QED
      BY <2>1, <2>2, <2>3 DEF SwitchAsked
  <1>6. QED
    BY <1>2, <1>3, <1>4, <1>5, Steps
\* A blue-green deploy keeps to its plan, which leaves an active slot alone that is there.
LEMMA ActiveCreatedFirstStep == Base /\ ActiveCreatedFirst /\ [Next]_vars => ActiveCreatedFirst'
  <1> SUFFICES ASSUME Base, ActiveCreatedFirst, [Next]_vars, NEW j \in Jobs,
                      pc'[j] = "applying", job'[j].strategy = "blue-green"
               PROVE  \/ todo'[j] \in Seq(Elsewhere(job'[j].active))
                      \/ /\ todo'[j] # <<>> /\ dep'[job'[j].active] = Absent
                         /\ Tail(todo'[j]) \in Seq(Elsewhere(job'[j].active))
    BY DEF ActiveCreatedFirst, Elsewhere
  <1>1. /\ job \in [Jobs -> JobType] /\ pc \in [Jobs -> Places] /\ todo \in [Jobs -> Seq(WriteType)]
        /\ TypeOK
    BY TypeParts DEF Base, JobTypes, HandlerTypes
  <1>2. CASE Outside
    BY <1>1, <1>2, OutsideStep DEF ActiveCreatedFirst
  <1>3. ASSUME NEW i \in Jobs, Handler(i), i # j
        PROVE  \/ todo'[j] \in Seq(Elsewhere(job'[j].active))
               \/ /\ todo'[j] # <<>> /\ dep'[job'[j].active] = Absent
                  /\ Tail(todo'[j]) \in Seq(Elsewhere(job'[j].active))
    <2>1. pc[j] = "applying" /\ job'[j] = job[j] /\ todo'[j] = todo[j]
      BY <1>1, <1>3, Bystander
    <2>2. Running(j) /\ Moves(job[j])
      BY <1>1, <2>1 DEF Base, Course, OnCourse, Running, Moves, Keeps, SwitchPlaces, PromotePlaces,
         RulePlaces, JobType, Kinds
    <2>3. dep'[job[j].active] \in {dep[job[j].active], Absent}
      BY <1>1, <1>3, <2>2, BesideStep, Vocabulary DEF JobType
    <2>4. QED
      BY <2>1, <2>3 DEF ActiveCreatedFirst
  <1>4. CASE PlanDeploy(j)
    <2>1. PICK writes \in DeployPlans(job[j]) : todo'[j] = writes /\ UNCHANGED <<job, dep>>
      BY <1>1, <1>4 DEF PlanDeploy, Plan, cluster
    <2>2. job[j] \in JobType /\ job[j].strategy = "blue-green"
      BY <1>1, <2>1
    <2>3. QED
      BY <1>1, <2>1, <2>2, SlotWrites
  <1>5. CASE Write(j)
    <2>1. UNCHANGED <<pc, job>> /\ todo'[j] = Tail(todo[j]) /\ todo[j] # <<>>
      BY <1>1, <1>5, WriteKeeps
    <2>2. CASE todo[j] \in Seq(Elsewhere(job[j].active))
      BY <2>1, <2>2, HeadTail
    <2>3. CASE Tail(todo[j]) \in Seq(Elsewhere(job[j].active))
      BY <2>1, <2>3
    <2>4. QED
      BY <2>1, <2>2, <2>3 DEF ActiveCreatedFirst
  <1>6. CASE Handler(j)
    BY <1>1, <1>4, <1>5, <1>6, Arrivals
  <1>7. QED
    BY <1>2, <1>3, <1>6, Steps

\* Where only slots are deployed, no handler writes a canary or a new legacy workload.
LEMMA SlotsOnlyCluster ==
  ASSUME Strategies \subseteq {"blue-green"}, Base, SlotsOnly, NEW i \in Jobs, Handler(i)
  PROVE  /\ dep'["canary"] = Absent
         /\ \/ dep'["base"] = dep["base"] /\ pods'["base"] = pods["base"]
            \/ dep'["base"] = Absent
         /\ pc[i] = "applying" => dep'["base"] = dep["base"]
  <1>1. /\ dep \in [Workloads -> Versions \cup {Absent}] /\ pods \in [Workloads -> SUBSET Versions]
        /\ TypeOK /\ dep["canary"] = Absent /\ "base" \in Workloads /\ "canary" \in Workloads
    BY TypeParts, Vocabulary DEF Base, ClusterTypes, SlotsOnly
  <1>2. CASE UNCHANGED cluster
    BY <1>1, <1>2 DEF cluster
  <1>3. ASSUME NEW x, Request(i, x), Apply(x)
        PROVE  /\ dep'["canary"] = Absent
               /\ \/ dep'["base"] = dep["base"] /\ pods'["base"] = pods["base"]
                  \/ dep'["base"] = Absent
               /\ pc[i] = "applying" => dep'["base"] = dep["base"]
    <2>1. Running(i)
      BY <1>3 DEF Request, Running, Writing
    <2>2. OnCourse(i)
      BY <2>1 DEF Base, Course
    <2>3. CASE pc[i] = "applying" /\ job[i].kind = "deploy" /\ x \in Staged(job[i])
      <3>1. job[i].strategy = "blue-green"
        BY <2>2, <2>3 DEF OnCourse
      <3>2. (x.on = "dep" /\ x.w \in Slots) \/ x.on = "svc"
        BY <2>3, <3>1 DEF Staged, PutDep, PutSvc
      <3>3. QED
        BY <1>1, <1>3, <2>3, <3>2, ApplyCases, RequestTyped DEF Slots
    <2>4. CASE x \in Drops(Workloads) /\ pc[i] = "deleting"
      <3>1. x.on \in {"dep", "svc"} /\ x.to = Absent
        BY <2>4 DEF Drops, PutDep, PutSvc
      <3>2. QED
        BY <1>1, <1>3, <2>4, <3>1, ApplyCases, RequestTyped
    <2>5. CASE x \in Publishings /\ pc[i] \in {"rerouting", "publishing"}
      BY <1>1, <1>3, <2>5, BaseUntouched
    <2>6. CASE \E w \in Workloads : x = PutSvc("base", w) /\ pc[i] # "applying"
      BY <1>1, <1>3, <2>6 DEF Apply, PutSvc
    <2>7. job[i].kind # "promote" /\ (job[i].kind = "deploy" => job[i].strategy # "rolling")
      BY <2>2 DEF OnCourse
    <2>8. job[i].active \in Slots
      BY TypeParts DEF Base, JobTypes, JobType
    <2>9. Drops(Candidates) \subseteq Drops(Workloads)
          /\ Drops({job[i].active}) \cup {PutDep("base", Absent)} \subseteq Drops(Workloads)
      BY <1>1, <2>8, Vocabulary DEF Drops
    <2>10. \/ pc[i] = "applying" /\ job[i].kind = "deploy" /\ x \in Staged(job[i])
           \/ x \in Drops(Workloads) /\ pc[i] = "deleting"
           \/ x \in Publishings /\ pc[i] \in {"rerouting", "publishing"}
           \/ \E w \in Workloads : x = PutSvc("base", w) /\ pc[i] # "applying"
      <3>1. Other(job[i].active) \in Workloads /\ job[i].active \in Workloads
        BY <2>8, Vocabulary
      <3>2. QED
        BY <1>3, <2>7, <2>9, <3>1, Requests
    <2>11. QED
      BY <2>3, <2>4, <2>5, <2>6, <2>10
  <1>4. QED
    BY <1>2, <1>3, HandlerCluster

LEMMA SlotsOnlyStep ==
  Strategies \subseteq {"blue-green"} /\ Base /\ SlotsOnly /\ [Next]_vars => SlotsOnly'
  <1> SUFFICES ASSUME Strategies \subseteq {"blue-green"}, Base, SlotsOnly, [Next]_vars
               PROVE  SlotsOnly'
    OBVIOUS
  <1>1. /\ job \in [Jobs -> JobType] /\ pc \in [Jobs -> Places] /\ todo \in [Jobs -> Seq(WriteType)]
        /\ TypeOK /\ "base" \in Workloads
    BY TypeParts, Vocabulary DEF Base, JobTypes, HandlerTypes
  <1>2. dep'["canary"] = Absent /\ (dep'["base"] # Absent => pods'["base"] # {})
    <2>1. CASE Outside
      BY <1>1, <2>1, OutsideStep DEF SlotsOnly
    <2>2. ASSUME NEW i \in Jobs, Handler(i)
          PROVE  dep'["canary"] = Absent /\ (dep'["base"] # Absent => pods'["base"] # {})
      BY <2>2, SlotsOnlyCluster DEF SlotsOnly
    <2>3. QED
      BY <2>1, <2>2, Steps
  <1>3. ASSUME NEW j \in Jobs, pc'[j] = "applying"
        PROVE  todo'[j] \in Seq(ToLegacy')
    <2>1. CASE Outside
      <3>1. pc[j] = "applying" /\ todo'[j] = todo[j] /\ UNCHANGED dep
        BY <1>1, <1>3, <2>1, OutsideStep
      <3>2. ToLegacy' = ToLegacy
        BY <3>1 DEF ToLegacy
      <3>3. QED
        BY <3>1, <3>2 DEF SlotsOnly
    <2>2. ASSUME NEW i \in Jobs, Handler(i), i # j
          PROVE  todo'[j] \in Seq(ToLegacy')
      <3>1. pc[j] = "applying" /\ todo'[j] = todo[j]
        BY <1>1, <1>3, <2>2, Bystander
      <3>2. Running(j) /\ Moves(job[j])
        BY <1>1, <3>1 DEF Base, Course, OnCourse, Running, Moves, Keeps, SwitchPlaces, PromotePlaces,
           RulePlaces, JobType, Kinds
      <3>3. dep'["base"] = dep["base"]
        BY <2>2, <3>2, BesideStep
      <3>4. ToLegacy' = ToLegacy
        BY <3>3 DEF ToLegacy
      <3>5. QED
        BY <3>1, <3>4 DEF SlotsOnly
    <2>3. CASE PlanDeploy(j)
      <3>1. PICK writes \in DeployPlans(job[j]) : todo'[j] = writes /\ UNCHANGED dep
        BY <1>1, <2>3 DEF PlanDeploy, Plan, cluster
      <3>2. job[j] \in JobType /\ job[j].strategy = "blue-green"
        <4>1. Running(j) /\ job[j].kind = "deploy"
          BY <1>1, <2>3 DEF PlanDeploy, At, Running, Base, Course, OnCourse, SwitchPlaces,
             PromotePlaces, RulePlaces, JobType, Kinds
        <4>2. QED
          BY <1>1, <4>1 DEF Base, Course, OnCourse
      <3>3. writes \in Seq(ToLegacy) /\ ToLegacy' = ToLegacy
        BY <1>1, <3>1, <3>2, SlotWrites DEF ToLegacy
      <3>4. QED
        BY <3>1, <3>3
    <2>4. CASE Write(j)
      <3>1. pc[j] = "applying" /\ todo'[j] = Tail(todo[j]) /\ todo[j] # <<>>
        BY <1>1, <1>3, <2>4, WriteKeeps
      <3>2. dep'["base"] = dep["base"]
        BY <2>4, <3>1, SlotsOnlyCluster DEF Handler
      <3>3. ToLegacy' = ToLegacy
        BY <3>2 DEF ToLegacy
      <3>4. todo[j] \in Seq(ToLegacy)
        BY <3>1 DEF SlotsOnly
      <3>5. QED
        BY <3>1, <3>3, <3>4, HeadTail
    <2>5. CASE Handler(j)
      BY <1>1, <1>3, <2>3, <2>4, <2>5, Arrivals
    <2>6. QED
      BY <2>1, <2>2, <2>5, Steps
  <1>4. QED
    BY <1>2, <1>3 DEF SlotsOnly

-----------------------------------------------------------------------------
(***************************************************************************)
(* All parts together.                                                     *)
(***************************************************************************)

IInv ==
  /\ Base /\ TrafficKept /\ BaseReady /\ BaseProgress
  /\ ActiveRecorded /\ ActiveCreatedFirst
  /\ ~Crossed => SweepsSpareTraffic
  /\ ~Overlap => SweepsSpareRoutes /\ SwitchProgress
  /\ PayloadSlot => SwitchAsked
  /\ Strategies \subseteq {"blue-green"} => SlotsOnly

LEMMA IInvInit == Init => IInv
  <1> SUFFICES ASSUME Init PROVE IInv
    OBVIOUS
  <1>1. \A j \in Jobs : pc[j] = "idle"
    BY DEF Init
  <1>2. TrafficKept /\ BaseReady /\ SweepsSpareTraffic /\ SweepsSpareRoutes
    BY <1>1 DEF TrafficKept, BaseReady, SweepsSpareTraffic, SweepsSpareRoutes
  <1>3. BaseProgress /\ SwitchProgress
    BY <1>1 DEF BaseProgress, SwitchProgress, BaseWritten, BaseSettled, BaseSelected,
       RollingPlaces, PromotePlaces
  <1>4. ActiveRecorded /\ ActiveCreatedFirst /\ SwitchAsked
    BY <1>1 DEF ActiveRecorded, ActiveCreatedFirst, SwitchAsked, Running
  <1>5. SlotsOnly
    <2>1. PICK w \in {{}, {"base"}, {"blue"}} : Established(w)
      BY DEF Init
    <2>2. /\ dep["canary"] = Absent
          /\ dep["base"] # Absent => pods["base"] # {}
      BY <2>1 DEF Established, Only, Workloads
    <2>3. QED
      BY <1>1, <2>2 DEF SlotsOnly
  <1>6. QED
    BY <1>2, <1>3, <1>4, <1>5, BaseInit DEF IInv

LEMMA IInvStep == IInv /\ [Next]_vars => IInv'
  BY BaseStep, TrafficKeptStep, BaseReadyStep, BaseProgressStep, ActiveRecordedStep,
     ActiveCreatedFirstStep, SweepsSpareTrafficStep, SweepsSpareRoutesStep, SwitchProgressStep,
     SwitchAskedStep, SlotsOnlyStep DEF IInv, Crossed

LEMMA IInvariant == Spec => []IInv
  BY IInvInit, IInvStep, PTL DEF Spec

-----------------------------------------------------------------------------
(***************************************************************************)
(* What the service's own traffic sees.                                    *)
(***************************************************************************)

LEMMA Plain ==
  IInv => /\ TypeOK /\ Base /\ "base" \in Workloads
          /\ dep \in [Workloads -> Versions \cup {Absent}] /\ pods \in [Workloads -> SUBSET Versions]
          /\ sel \in [Workloads -> Workloads \cup {Absent}] /\ route \in [Rules -> SUBSET Workloads]
          /\ job \in [Jobs -> JobType] /\ pc \in [Jobs -> Places]
          /\ todo \in [Jobs -> Seq(WriteType)] /\ primary \in Slots
  BY TypeParts, Vocabulary DEF IInv, Base, ClusterTypes, JobTypes, HandlerTypes, ApiTypes

\* Whoever asks for the service's own name reaches the pods of the one workload its
\* Service selects, unless a rendered canary answers to the canonical label.
LEMMA ServedBy ==
  ASSUME TypeOK, ~Rendered \/ pods["canary"] = {}
  PROVE  Serving <=> sel["base"] # Absent /\ pods[sel["base"]] # {}
  <1>1. /\ pods \in [Workloads -> SUBSET Versions] /\ sel["base"] \in Workloads \cup {Absent}
        /\ Absent \notin Workloads
    BY TypeParts, Vocabulary DEF ClusterTypes
  <1>2. Reach("base") # {} <=> \E y \in Workloads : App(y) = sel["base"] /\ pods[y] # {}
    BY DEF Reach
  <1>3. \A y \in Workloads : pods[y] # {} => App(y) = y
    BY DEF App
  <1>4. QED
    BY <1>1, <1>2, <1>3 DEF Serving

LEMMA ServedByNext ==
  ASSUME TypeOK', ~Rendered' \/ pods'["canary"] = {}
  PROVE  Serving' <=> sel'["base"] # Absent /\ pods'[sel'["base"]] # {}
  <1>1. /\ pods' \in [Workloads -> SUBSET Versions] /\ sel'["base"] \in Workloads \cup {Absent}
        /\ Absent \notin Workloads
    BY TypeParts, Vocabulary DEF TypeOK
  <1>2. Reach("base")' # {} <=> \E y \in Workloads : App(y)' = sel'["base"] /\ pods'[y] # {}
    BY DEF Reach
  <1>3. \A y \in Workloads : pods'[y] # {} => App(y)' = y
    BY DEF App, Rendered
  <1>4. QED
    BY <1>1, <1>2, <1>3 DEF Serving

\* What the writes of a handler do to a workload the canonical Service selects.
LEMMA Spared ==
  ASSUME TypeOK, NEW x \in WriteType, Apply(x), NEW w \in Workloads,
         ~(x.on = "dep" /\ x.w = w /\ x.to = Absent)
  PROVE  pods'[w] = pods[w]
  <1>1. pods \in [Workloads -> SUBSET Versions]
    BY TypeParts DEF ClusterTypes
  <1>2. QED
    BY <1>1, ApplyCases

-----------------------------------------------------------------------------
(***************************************************************************)
(* The theorems.                                                           *)
(***************************************************************************)

\* Pods that answer to the label the canonical Service selects serve its traffic.
LEMMA ServingBy ==
  ASSUME NEW y \in Workloads, pods'[y] # {}, App(y)' = sel'["base"], sel'["base"] # Absent
  PROVE  Serving'
  BY DEF Serving, Reach

LEMMA UnseenStep ==
  "blue-green" \notin Strategies /\ IInv /\ [Next]_vars /\ Serving /\ ~Serving' =>
    \E j \in Jobs :
      \/ /\ pc[j] = "applying" /\ (job[j].blind \/ Rendered)
         /\ ~Available("base") /\ sel["base"] # "base" /\ sel'["base"] = "base"
      \/ /\ pc[j] = "deleting" /\ Rendered
         /\ ~Available("base") /\ Exists("canary") /\ dep'["canary"] = Absent
  <1> DEFINE Pointed(j) == /\ pc[j] = "applying" /\ (job[j].blind \/ Rendered)
                           /\ ~Available("base") /\ sel["base"] # "base" /\ sel'["base"] = "base"
             Dropped(j) == /\ pc[j] = "deleting" /\ Rendered
                           /\ ~Available("base") /\ Exists("canary") /\ dep'["canary"] = Absent
  <1> SUFFICES ASSUME "blue-green" \notin Strategies, IInv, [Next]_vars, Serving, ~Serving'
               PROVE  \E j \in Jobs : Pointed(j) \/ Dropped(j)
    OBVIOUS
  <1>1. /\ TypeOK /\ Base /\ "base" \in Workloads /\ sel["base"] \in Workloads
        /\ sel \in [Workloads -> Workloads \cup {Absent}] /\ pods \in [Workloads -> SUBSET Versions]
        /\ dep \in [Workloads -> Versions \cup {Absent}]
    BY Plain DEF Serving
  <1>2. PICK y \in Workloads : App(y) = sel["base"] /\ pods[y] # {}
    BY DEF Serving, Reach
  <1>3. \A w \in Workloads : App(w)' = App(w) /\ App("base") = "base"
    <2>1. UNCHANGED payload
      BY <1>1, Steps, OutsideStep, HandlerApi DEF configured
    <2>2. QED
      BY <2>1 DEF App, Rendered
  <1>4. sel["base"] # Absent
    BY DEF Serving
  <1>5. pods'[y] # {} => sel'["base"] # sel["base"]
    BY <1>2, <1>3, <1>4, ServingBy
  <1>6. sel'["base"] = "base" => pods'["base"] = {}
    BY <1>1, <1>3, Vocabulary, ServingBy
  <1>7. ~Outside
    BY <1>1, <1>2, <1>5, OutsideStep
  <1>8. ASSUME NEW i \in Jobs, NEW x, Request(i, x), Apply(x)
        PROVE  Pointed(i) \/ Dropped(i)
    <2>1. x \in WriteType /\ Running(i)
      BY <1>1, <1>8, RequestTyped DEF Request, Running, Writing
    <2>2. OnCourse(i)
      BY <1>1, <2>1 DEF Base, Course
    <2>3. \/ x.on = "dep" /\ x.w = y /\ x.to = Absent
          \/ x.on = "svc" /\ x.w = "base" /\ x.to # sel["base"]
      BY <1>1, <1>2, <1>5, <1>8, <2>1, Spared, ApplyCases
    <2>4. CASE pc[i] = "applying" /\ job[i].kind = "deploy" /\ x \in Staged(job[i])
      <3>1. job[i].strategy \in {"rolling", "canary"} /\ x = Head(todo[i]) /\ todo[i] # <<>>
        BY <1>8, <2>2, <2>4, ConstantsAssumption DEF OnCourse, Request
      <3>2. x \in Kept(job[i])
        BY <2>4, <3>1, HeadTail DEF IInv, TrafficKept
      <3>3. x.on = "dep" => x.to # Absent
        <4>1. job[i].version # Absent
          BY <1>8, Plain, Vocabulary DEF JobType
        <4>2. QED
          BY <2>4, <3>1, <4>1 DEF Staged, PutDep, PutSvc
      <3>4. /\ x.on = "svc" /\ x.w = "base" /\ x.to = "base" /\ sel["base"] # "base"
            /\ job[i].blind \/ Rendered
        BY <1>4, <2>3, <3>2, <3>3 DEF Kept
      <3>5. sel'["base"] = "base" /\ pods'["base"] = pods["base"]
        BY <1>1, <1>8, <2>1, <3>4, ApplyCases
      <3>6. QED
        BY <1>6, <2>4, <3>4, <3>5 DEF Available
    <2>5. CASE pc[i] = "deleting" /\ job[i].kind # "switch" /\ x \in Drops(Candidates)
      <3>1. x = Head(todo[i]) /\ todo[i] # <<>>
        BY <1>8, <2>5 DEF Request
      <3>2. todo[i] \in Seq(Untargeted)
        BY <2>5 DEF IInv, SweepsSpareTraffic, Crossed
      <3>3. x \in Untargeted
        BY <3>1, <3>2, HeadTail
      <3>4. x.w # "base"
        BY <2>5 DEF Drops, Candidates, PutDep, PutSvc
      <3>5. x.on = "dep" /\ x.w = y /\ x.to = Absent /\ y # sel["base"]
        BY <2>3, <3>3, <3>4 DEF Untargeted
      <3>6. Rendered /\ y = "canary" /\ sel["base"] = "base"
        BY <1>2, <3>5 DEF App
      <3>7. sel'["base"] = "base" /\ pods'["base"] = pods["base"] /\ dep'["canary"] = Absent
        BY <1>1, <1>8, <2>1, <3>4, <3>5, <3>6, ApplyCases
      <3>8. Exists("canary")
        BY <1>1, <1>2, <3>6 DEF Base, PodsBehind, Exists
      <3>9. QED
        BY <1>6, <2>5, <3>6, <3>7, <3>8 DEF Available
    <2>6. x \notin Publishings
      BY <2>3 DEF Publishings, PutRoute
    <2>7. ~(Exists("canary") /\ x = PutDep("base", dep["canary"]))
      BY <2>3 DEF PutDep, Exists
    <2>8. ~(pc[i] \in {"promoting", "moving"} /\ x = PutSvc("base", "base"))
      <3> SUFFICES ASSUME pc[i] \in {"promoting", "moving"}, x = PutSvc("base", "base")
                   PROVE  FALSE
        OBVIOUS
      <3>1. sel'["base"] = "base" /\ pods' = pods
        BY <1>1, <1>8 DEF Apply, PutSvc
      <3>2. QED
        BY <1>6, <3>1 DEF IInv, BaseReady
    <2>9. job[i].kind # "switch"
      BY <2>2 DEF OnCourse
    <2>10. QED
      BY <1>1, <1>8, <2>4, <2>5, <2>6, <2>7, <2>8, <2>9, Requests
  <1> HIDE DEF Pointed, Dropped
  <1>9. ASSUME NEW i \in Jobs, Handler(i) PROVE Pointed(i) \/ Dropped(i)
    <2>1. ~UNCHANGED cluster
      BY <1>1, <1>2, <1>5 DEF cluster
    <2>2. QED
      BY <1>8, <1>9, <2>1, HandlerCluster
  <1>10. QED
    BY <1>7, <1>9, Steps

\* A service whose operator never configures blue-green loses traffic in the two ways
\* LostOnlyUnseen names and in no other, whatever is interrupted, retried, or published
\* beside it, and however many read errors are swallowed (the order of writes in the
\* apply, promote and cleanup functions).
THEOREM TrafficLostOnlyUnseen ==
  ASSUME "blue-green" \notin Strategies
  PROVE  Spec => LostOnlyUnseen
  <1>1. IInv /\ [Next]_vars =>
          [Serving /\ ~Serving' =>
             \E j \in Jobs :
               \/ /\ pc[j] = "applying" /\ (job[j].blind \/ Rendered)
                  /\ ~Available("base") /\ sel["base"] # "base" /\ sel'["base"] = "base"
               \/ /\ pc[j] = "deleting" /\ Rendered
                  /\ ~Available("base") /\ Exists("canary") /\ dep'["canary"] = Absent]_vars
    BY UnseenStep
  <1>2. QED
    BY <1>1, IInvariant, PTL DEF Spec, LostOnlyUnseen

-----------------------------------------------------------------------------
\* What a handler completes with (Finish).
LEMMA CompletedStep ==
  ~Crossed /\ IInv /\ [Next]_vars
    => \A j \in Jobs : Completes(j) => Reach("base") = {LiveVersion(job[j])}
  <1> SUFFICES ASSUME ~Crossed, IInv, [Next]_vars, NEW j \in Jobs, Completes(j)
               PROVE  Reach("base") = {LiveVersion(job[j])}
    OBVIOUS
  <1>1. /\ TypeOK /\ Base /\ "base" \in Workloads /\ "canary" \in Workloads
        /\ pods \in [Workloads -> SUBSET Versions] /\ pc[j] = "retiring" /\ pc'[j] = "done"
        /\ job[j] \in JobType
    BY Plain, Vocabulary DEF Completes
  <1>2. Finish(j)
    <2>1. CASE Outside
      BY <1>1, <2>1, OutsideStep
    <2>2. ASSUME NEW i \in Jobs, Handler(i), i # j PROVE Finish(j)
      BY <1>1, <2>2, Bystander
    <2>3. CASE Handler(j)
      <3>1. Running(j) /\ pc[j] \notin Writing
        BY <1>1 DEF Running, Writing
      <3>2. QED
        BY <1>1, <2>3, <3>1, Plain DEF Handler, Start, Write, WritesMade, Abort, PlanDeploy, Validated,
           PromoteRolling, Settled, Sweep, CandidateLive, SwitchCanonical, RecordSlot, Revert,
           ObserveHealthy, ObserveUnhealthy, UndoSlot, CopyCanary, MoveStableService,
           ListPublished, ConfirmShifted, CheckAvailability, CleanupSkipped, At, Goto
    <2>4. QED
      BY <2>1, <2>2, <2>3, Steps
  <1>3. OnCourse(j) /\ job[j].kind \in {"deploy", "promote", "switch"}
    <2>1. OnCourse(j)
      BY <1>1 DEF Base, Course, Running
    <2>2. QED
      BY <1>1, <2>1 DEF OnCourse, RulePlaces, JobType, Kinds
  <1>4. CASE job[j].kind \in {"deploy", "promote"}
    <2>1. sel["base"] = "base" /\ dep["base"] = job[j].version /\ OnlyCurrent("base")
      <3>1. BaseWritten(j) /\ BaseSettled(j) /\ BaseSelected(j)
        BY <1>1, <1>3, <1>4 DEF OnCourse, BaseWritten, BaseSettled, BaseSelected, RollingPlaces,
           PromotePlaces
      <3>2. QED
        BY <3>1 DEF IInv, BaseProgress
    <2>2. pods["canary"] = {}
      <3>1. Retired("canary")
        BY <1>2, <1>4 DEF Finish, Leaving
      <3>2. QED
        BY <1>1, <3>1 DEF Retired, Exists, Base, PodsBehind
    <2>3. \A y \in Workloads : App(y) = "base" => y \in {"base", "canary"}
      BY DEF App
    <2>4. App("base") = "base"
      BY DEF App
    <2>5. Reach("base") = pods["base"]
      BY <1>1, <2>1, <2>2, <2>3, <2>4 DEF Reach
    <2>6. QED
      BY <1>4, <2>1, <2>5 DEF LiveVersion, OnlyCurrent
  <1>5. CASE job[j].kind = "switch"
    <2>1. ~Overlap
      BY <1>3, <1>5 DEF OnCourse, Crossed
    <2>2. PICK s \in Slots : s = Other(job[j].active)
      BY <1>1, Vocabulary DEF JobType
    <2>3. OnlyCurrent(s) /\ sel["base"] = s
      BY <1>1, <1>5, <2>1, <2>2 DEF IInv, SwitchProgress
    <2>4. \A y \in Workloads : App(y) = s <=> y = s
      BY <2>2 DEF App, Slots
    <2>5. Reach("base") = pods[s]
      BY <1>1, <2>2, <2>3, <2>4, Vocabulary DEF Reach
    <2>6. QED
      BY <1>5, <2>2, <2>3, <2>5 DEF LiveVersion, OnlyCurrent
  <1>6. QED
    BY <1>3, <1>4, <1>5

\* A deploy, a promotion or a switch that reports success left the traffic on pods
\* of the version it deployed, and on no other (the waits of promoteRollingTraffic,
\* HandlePromoteCanary and promoteBlueGreen before they report), unless rule
\* operations may run beside a switch.
THEOREM SuccessLeavesVersionLive ==
  ASSUME ~(Overlap /\ "blue-green" \in Strategies)
  PROVE  Spec => SuccessIsLive
  <1>1. IInv /\ [Next]_vars
          => [\A j \in Jobs : Completes(j) => Reach("base") = {LiveVersion(job[j])}]_vars
    BY CompletedStep DEF Crossed
  <1>2. QED
    BY <1>1, IInvariant, PTL DEF Spec, SuccessIsLive

-----------------------------------------------------------------------------
LEMMA SwitchSticksStep ==
  ~Overlap /\ PayloadSlot /\ IInv /\ [Next]_vars /\ asked # NoSlot =>
       /\ primary # asked /\ primary' = asked => \E j \in Jobs : pc[j] = "undoing"
       /\ \A j \in Jobs : /\ Running(j) /\ job[j].kind = "switch"
                         /\ Exists(Other(asked))
                         => dep'[Other(asked)] # Absent
  <1> SUFFICES ASSUME ~Overlap, PayloadSlot, IInv, [Next]_vars, asked # NoSlot
               PROVE  /\ primary # asked /\ primary' = asked => \E j \in Jobs : pc[j] = "undoing"
                      /\ \A j \in Jobs : /\ Running(j) /\ job[j].kind = "switch"
                                        /\ Exists(Other(asked))
                                        => dep'[Other(asked)] # Absent
    OBVIOUS
  <1>1. /\ TypeOK /\ Base /\ SwitchAsked /\ "base" \in Workloads /\ asked \in Slots
        /\ dep \in [Workloads -> Versions \cup {Absent}] /\ job \in [Jobs -> JobType]
    BY Plain, TypeParts DEF IInv, ApiTypes
  <1>2. ASSUME primary # asked, primary' = asked PROVE \E j \in Jobs : pc[j] = "undoing"
    <2>1. PICK i \in Jobs : RecordSlot(i) \/ UndoSlot(i)
      BY <1>1, <1>2, Steps, OutsideStep, HandlerApi
    <2>2. ASSUME RecordSlot(i) PROVE FALSE
      <3>1. pc[i] = "recording" /\ primary' = Other(job[i].active)
        BY <1>2, <2>2 DEF RecordSlot, At
      <3>2. Running(i) /\ job[i].kind = "switch"
        BY <1>1, <3>1 DEF Base, Course, OnCourse, Running, DeployPlaces, RollingPlaces,
           PromotePlaces, RulePlaces, JobType, Kinds
      <3>3. job[i].active = asked
        BY <1>1, <3>2 DEF SwitchAsked
      <3>4. QED
        BY <1>1, <1>2, <3>1, <3>3, Vocabulary
    <2>3. QED
      BY <2>1, <2>2 DEF UndoSlot, At
  <1>3. ASSUME NEW j \in Jobs, Running(j), job[j].kind = "switch", Exists(Other(asked))
        PROVE  dep'[Other(asked)] # Absent
    <2>1. PICK s \in Slots : s = Other(asked)
      BY <1>1, Vocabulary
    <2>2. /\ job[j].active = asked /\ s # asked /\ s # "base" /\ s \in Workloads
          /\ dep[s] # Absent /\ dep[s] \in Versions
      BY <1>1, <1>3, <2>1, Vocabulary DEF SwitchAsked, Slots, Exists
    <2>3. ASSUME NEW x, Request(j, x), Apply(x) PROVE dep'[s] # Absent
      <3>1. x \in WriteType
        BY <1>1, <2>3, RequestTyped
      <3>2. ~(x.on = "dep" /\ x.w = s)
        <4>1. \/ x \in Drops({asked}) \cup {PutDep("base", Absent)}
              \/ x \in Publishings
              \/ \E w : x = PutSvc("base", w)
          BY <1>1, <1>3, <2>2, <2>3, Requests
        <4>2. QED
          BY <2>2, <4>1 DEF Drops, Publishings, PutDep, PutSvc, PutRoute
      <3>3. QED
        BY <1>1, <2>2, <2>3, <3>1, <3>2, ApplyCases
    <2>4. CASE Outside
      BY <1>1, <2>1, <2>2, <2>4, OutsideStep
    <2>5. ASSUME NEW i \in Jobs, Handler(i), i # j PROVE FALSE
      BY <1>1, <1>3, <2>5, Alone
    <2>6. CASE Handler(j)
      <3>1. CASE UNCHANGED cluster
        BY <2>2, <3>1, <2>1 DEF cluster
      <3>2. QED
        BY <2>1, <2>3, <2>6, <3>1, HandlerCluster
    <2>7. QED
      BY <2>4, <2>5, <2>6, Steps
  <1>4. QED
    BY <1>2, <1>3

\* While a switch is pending, what it moved stays moved unless it undoes it, and no
\* execution of it deletes the slot the traffic is to move to, when the payload
\* names the slot to move away from ("activeSlot") and nothing runs beside the switch
\* (HandleSwitchBlueGreen and promoteBlueGreen, executed again after recovery).
THEOREM SwitchesStick ==
  ASSUME ~Overlap, PayloadSlot
  PROVE  Spec => SwitchSticks
  <1>1. IInv /\ [Next]_vars =>
          [asked # NoSlot =>
             /\ primary # asked /\ primary' = asked => \E j \in Jobs : pc[j] = "undoing"
             /\ \A j \in Jobs : /\ Running(j) /\ job[j].kind = "switch"
                               /\ Exists(Other(asked))
                               => dep'[Other(asked)] # Absent]_vars
    BY SwitchSticksStep
  <1>2. QED
    BY <1>1, IInvariant, PTL DEF Spec, SwitchSticks

-----------------------------------------------------------------------------
LEMMA StagingSparesStep ==
  ~Overlap /\ IInv /\ [Next]_vars =>
    \A j \in Jobs :
       /\ pc[j] = "applying" /\ job[j].strategy = "blue-green" /\ Serving
       /\ sel["base"] = primary
       => dep'[primary] = dep[primary]
  <1> SUFFICES ASSUME ~Overlap, IInv, [Next]_vars, NEW j \in Jobs, pc[j] = "applying",
                      job[j].strategy = "blue-green", Serving, sel["base"] = primary
               PROVE  dep'[primary] = dep[primary]
    OBVIOUS
  <1>1. /\ TypeOK /\ Base /\ ActiveRecorded /\ ActiveCreatedFirst /\ "base" \in Workloads
        /\ job \in [Jobs -> JobType] /\ pods \in [Workloads -> SUBSET Versions]
        /\ todo \in [Jobs -> Seq(WriteType)] /\ dep \in [Workloads -> Versions \cup {Absent}]
    BY Plain DEF IInv
  <1>2. Running(j) /\ job[j].kind = "deploy" /\ job[j].active = primary
    <2>1. Running(j)
      BY DEF Running
    <2>2. job[j].kind = "deploy"
      BY <1>1, <2>1 DEF Base, Course, OnCourse, SwitchPlaces, PromotePlaces, RulePlaces, JobType, Kinds
    <2>3. QED
      BY <1>1, <2>1, <2>2 DEF ActiveRecorded
  <1>3. PICK s \in Slots : s = primary
    BY Plain
  <1>4. dep[s] # Absent
    <2>1. \A y \in Workloads : App(y) = s => y = s
      BY DEF App, Slots
    <2>2. pods[s] # {}
      BY <1>1, <1>3, <2>1 DEF Serving, Reach
    <2>3. QED
      BY <1>1, <2>2, Vocabulary DEF Base, PodsBehind
  <1>5. todo[j] \in Seq(Elsewhere(s))
    BY <1>1, <1>2, <1>3, <1>4 DEF ActiveCreatedFirst
  <1>6. CASE Outside
    BY <1>1, <1>6, OutsideStep
  <1>7. ASSUME NEW i \in Jobs, Handler(i), i # j PROVE FALSE
    BY <1>1, <1>2, <1>7, Alone
  <1>8. CASE Handler(j)
    <2>1. ASSUME NEW x, Request(j, x), Apply(x) PROVE dep'[s] = dep[s]
      <3>1. x = Head(todo[j]) /\ todo[j] # <<>>
        BY <2>1 DEF Request
      <3>2. x \in Elsewhere(s)
        BY <1>5, <3>1, HeadTail
      <3>3. x \in WriteType /\ ~(x.on = "dep" /\ x.w = s)
        BY <3>2 DEF Elsewhere
      <3>4. CASE x.on = "dep" /\ dep' = [dep EXCEPT ![x.w] = x.to]
        BY <1>1, <3>3, <3>4
      <3>5. CASE UNCHANGED dep
        BY <3>5
      <3>6. QED
        BY <1>1, <2>1, <3>3, <3>4, <3>5, ApplyCases
    <2>2. CASE UNCHANGED cluster
      BY <2>2 DEF cluster
    <2>3. QED
      BY <1>3, <1>8, <2>1, <2>2, HandlerCluster
  <1>9. QED
    BY <1>6, <1>7, <1>8, Steps

\* While the API's record of the active slot says where the traffic is, staging a
\* candidate leaves the Deployment that carries it alone
\* (applyBlueGreenWorkloadResources), when nothing runs beside the deploy.
THEOREM StagingLeavesTraffic ==
  ASSUME ~Overlap
  PROVE  Spec => StagingSparesTraffic
  <1>1. IInv /\ [Next]_vars =>
          [\A j \in Jobs :
             /\ pc[j] = "applying" /\ job[j].strategy = "blue-green" /\ Serving
             /\ sel["base"] = primary
             => dep'[primary] = dep[primary]]_vars
    BY StagingSparesStep
  <1>2. QED
    BY <1>1, IInvariant, PTL DEF Spec, StagingSparesTraffic

-----------------------------------------------------------------------------
(* Published routes.                                                       *)

\* Which workloads lose a Deployment or a Service: those no route names, or those a
\* switch has moved the traffic away from.
LEMMA Deletions ==
  ASSUME ~Overlap, IInv, [Next]_vars, NEW w \in HostsInUse,
         \/ Exists(w) /\ dep'[w] = Absent
         \/ sel[w] # Absent /\ sel'[w] = Absent
  PROVE  \E j \in Jobs : /\ Running(j) /\ job[j].kind = "switch" /\ w \in {"base", job[j].active}
                         /\ sel["base"] = Other(job[j].active)
  <1>1. /\ TypeOK /\ Base /\ SweepsSpareRoutes /\ SwitchProgress /\ "base" \in Workloads
        /\ dep \in [Workloads -> Versions \cup {Absent}]
        /\ sel \in [Workloads -> Workloads \cup {Absent}]
        /\ job \in [Jobs -> JobType] /\ todo \in [Jobs -> Seq(WriteType)] /\ w \in Workloads
    BY Plain DEF IInv, HostsInUse
  <1>2. ~Outside
    BY <1>1, OutsideStep DEF Exists
  <1>3. PICK i \in Jobs : Handler(i)
    BY <1>2, Steps
  <1>4. ~UNCHANGED cluster
    BY DEF cluster, Exists
  <1>5. PICK x : Request(i, x) /\ Apply(x)
    BY <1>3, <1>4, HandlerCluster
  <1>6. x \in WriteType /\ Running(i) /\ OnCourse(i)
    BY <1>1, <1>5, RequestTyped DEF Request, Running, Writing, Base, Course
  <1>7. x.on \in {"dep", "svc"} /\ x.w = w /\ x.to = Absent
    BY <1>1, <1>5, <1>6, ApplyCases DEF Exists
  <1>8. CASE pc[i] = "applying" /\ job[i].kind = "deploy" /\ x \in Staged(job[i])
    <2>1. /\ job[i].strategy \in {"rolling", "canary", "blue-green"} /\ job[i].version # Absent
          /\ job[i].active # Absent
      <3>1. job[i] \in JobType
        BY <1>1
      <3>2. job[i].strategy \in Strategies \cup {"rolling"} /\ job[i].version \in Versions
            /\ job[i].active \in Slots
        BY <3>1 DEF JobType
      <3>3. QED
        BY <3>2, Vocabulary, ConstantsAssumption
    <2>2. \A v \in Versions : v # Absent
      BY Vocabulary
    <2>3. \A v \in Workloads : v # Absent
      BY Vocabulary
    <2>4. QED
      BY <1>7, <1>8, <2>1, <2>2, <2>3, Vocabulary DEF Staged, PutDep, PutSvc
  <1>9. CASE pc[i] = "deleting" /\ job[i].kind # "switch"
    <2>1. x = Head(todo[i]) /\ todo[i] # <<>>
      BY <1>5, <1>9 DEF Request
    <2>2. todo[i] \in Seq(Unrouted)
      BY <1>1, <1>9 DEF SweepsSpareRoutes
    <2>3. x \in Unrouted
      BY <2>1, <2>2, HeadTail
    <2>4. QED
      BY <1>7, <2>3 DEF Unrouted
  <1>10. CASE /\ pc[i] = "deleting" /\ job[i].kind = "switch"
              /\ x \in Drops({job[i].active}) \cup {PutDep("base", Absent)}
    <2>1. w \in {"base", job[i].active}
      BY <1>7, <1>10 DEF Drops, PutDep, PutSvc
    <2>2. sel["base"] = Other(job[i].active)
      BY <1>1, <1>10 DEF SwitchProgress
    <2>3. QED
      BY <1>6, <1>10, <2>1, <2>2
  <1>11. CASE x \in Publishings
    BY <1>7, <1>11 DEF Publishings, PutRoute
  <1>12. CASE Exists("canary") /\ x = PutDep("base", dep["canary"])
    BY <1>7, <1>12 DEF PutDep, Exists
  <1>13. CASE x \in {PutSvc("base", "base"), PutSvc("base", job[i].active),
                     PutSvc("base", Other(job[i].active))}
    <2>1. {"base", job[i].active, Other(job[i].active)} \subseteq Workloads
      BY <1>1, Vocabulary DEF JobType
    <2>2. QED
      BY <1>7, <1>13, <2>1, Vocabulary DEF PutSvc
  <1>14. QED
    BY <1>1, <1>5, <1>8, <1>9, <1>10, <1>11, <1>12, <1>13, Requests

\* A published route loses the workload it names only to a switch, which deletes what
\* the traffic has left for good, and never what it moved to, when no rule operation
\* runs beside it (cleanupUnusedStrategyWorkloads, promoteBlueGreen).
THEOREM RoutesCutBySwitchesOnly ==
  ASSUME ~Overlap
  PROVE  Spec => OnlySwitchesCutRoutes
  <1>1. IInv /\ [Next]_vars =>
          [\A w \in HostsInUse : Exists(w) /\ dep'[w] = Absent =>
             w # sel["base"] /\ \E j \in Jobs : Running(j) /\ job[j].kind = "switch"
                                                /\ w \in {"base", job[j].active}]_vars
    <2> SUFFICES ASSUME IInv, [Next]_vars, NEW w \in HostsInUse, Exists(w), dep'[w] = Absent
                 PROVE  w # sel["base"] /\ \E j \in Jobs : Running(j) /\ job[j].kind = "switch"
                                                           /\ w \in {"base", job[j].active}
      OBVIOUS
    <2>1. PICK j \in Jobs : /\ Running(j) /\ job[j].kind = "switch" /\ w \in {"base", job[j].active}
                            /\ sel["base"] = Other(job[j].active)
      BY Deletions
    <2>2. job[j].active \in Slots
      BY Plain DEF JobType
    <2>3. Other(job[j].active) \notin {"base", job[j].active}
      BY <2>2, Vocabulary DEF Slots
    <2>4. QED
      BY <2>1, <2>3
  <1>2. QED
    BY <1>1, IInvariant, PTL DEF Spec, OnlySwitchesCutRoutes

\* Where no switch exists, no workload that a published route names is deleted, nor
\* its Service ("kept while traffic still references it"), when no rule operation
\* runs beside the deploy or the promotion.
THEOREM PublishedRoutesKept ==
  ASSUME ~Overlap, "blue-green" \notin Strategies
  PROVE  Spec => RoutesKept
  <1>1. IInv /\ [Next]_vars =>
          [\A w \in HostsInUse : /\ Exists(w) => dep'[w] # Absent
                                 /\ sel[w] # Absent => sel'[w] # Absent]_vars
    <2> SUFFICES ASSUME IInv, [Next]_vars, NEW w \in HostsInUse,
                        \/ Exists(w) /\ dep'[w] = Absent
                        \/ sel[w] # Absent /\ sel'[w] = Absent
                 PROVE  FALSE
      OBVIOUS
    <2>1. PICK j \in Jobs : Running(j) /\ job[j].kind = "switch"
      BY Deletions
    <2>2. QED
      BY <2>1 DEF IInv, Base, Course, OnCourse
  <1>2. QED
    BY <1>1, IInvariant, PTL DEF Spec, RoutesKept

-----------------------------------------------------------------------------
LEMMA LostStep ==
  ~Overlap /\ Strategies \subseteq {"blue-green"} /\ IInv /\ [Next]_vars /\ Serving /\ ~Serving' =>
       \E j \in Jobs : /\ Running(j) /\ ~Available(job[j].active)
                      /\ sel["base"] # job[j].active /\ sel'["base"] = job[j].active
  <1> SUFFICES ASSUME ~Overlap, Strategies \subseteq {"blue-green"}, IInv, [Next]_vars, Serving, ~Serving'
               PROVE  \E j \in Jobs : /\ Running(j) /\ ~Available(job[j].active)
                                     /\ sel["base"] # job[j].active /\ sel'["base"] = job[j].active
    OBVIOUS
  <1>1. /\ TypeOK /\ Base /\ SlotsOnly /\ SwitchProgress /\ SweepsSpareTraffic
        /\ "base" \in Workloads /\ "canary" \in Workloads
        /\ dep \in [Workloads -> Versions \cup {Absent}] /\ pods \in [Workloads -> SUBSET Versions]
        /\ sel \in [Workloads -> Workloads \cup {Absent}]
        /\ job \in [Jobs -> JobType] /\ todo \in [Jobs -> Seq(WriteType)]
    BY Plain, Vocabulary DEF IInv, Crossed
  <1>2. sel["base"] \in Workloads /\ pods[sel["base"]] # {}
    <2>1. pods["canary"] = {}
      BY <1>1 DEF SlotsOnly, Base, PodsBehind
    <2>2. QED
      BY <1>1, <2>1, ServedBy
  <1>3. sel'["base"] = Absent \/ pods'[sel'["base"]] = {}
    <2>1. TypeOK' /\ pods'["canary"] = {}
      BY <1>1, NextTyped, PodsBehindStep, SlotsOnlyStep DEF SlotsOnly, Base, PodsBehind
    <2>2. QED
      BY <2>1, ServedByNext
  <1>4. ~Outside
    BY <1>1, <1>2, <1>3, OutsideStep, Vocabulary
  <1>5. PICK i \in Jobs : Handler(i)
    BY <1>4, Steps
  <1>6. ~UNCHANGED cluster
    BY <1>2, <1>3, Vocabulary DEF cluster
  <1>7. PICK x : Request(i, x) /\ Apply(x)
    BY <1>5, <1>6, HandlerCluster
  <1>8. x \in WriteType /\ Running(i) /\ OnCourse(i)
    BY <1>1, <1>7, RequestTyped DEF Request, Running, Writing, Base, Course
  <1>9. \/ x.on = "dep" /\ x.w = sel["base"] /\ x.to = Absent
        \/ x.on = "svc" /\ x.w = "base" /\ x.to # sel["base"]
    <2>1. SUFFICES ASSUME ~(x.on = "dep" /\ x.w = sel["base"] /\ x.to = Absent),
                          x.on = "svc" /\ x.w = "base" => x.to = sel["base"]
                   PROVE  FALSE
      OBVIOUS
    <2>2. pods'[sel["base"]] = pods[sel["base"]]
      BY <1>1, <1>2, <1>7, <1>8, <2>1, Spared
    <2>3. sel'["base"] = sel["base"]
      BY <1>1, <1>7, <1>8, <2>1, ApplyCases
    <2>4. QED
      BY <1>2, <1>3, <2>2, <2>3, Vocabulary
  <1>10. ASSUME NEW w \in Workloads, x = PutSvc("base", w)
         PROVE  /\ sel'["base"] = w /\ pods[w] = {} /\ sel["base"] # w
    <2>1. sel'["base"] = w /\ pods' = pods
      BY <1>1, <1>7, <1>10 DEF Apply, PutSvc
    <2>2. QED
      BY <1>2, <1>3, <2>1, Vocabulary
  <1>11. CASE x = PutSvc("base", job[i].active)
    <2>1. job[i].active \in Workloads
      BY <1>1, Vocabulary DEF JobType
    <2>2. QED
      BY <1>8, <1>10, <1>11, <2>1 DEF Available
  <1>12. CASE pc[i] = "applying" /\ job[i].kind = "deploy" /\ x \in Staged(job[i])
    <2>1. job[i].strategy = "blue-green" /\ x = Head(todo[i]) /\ todo[i] # <<>>
      BY <1>7, <1>8, <1>12 DEF OnCourse, Request
    <2>2. x # PutSvc("base", "base")
      <3>1. todo[i] \in Seq(ToLegacy)
        BY <1>1, <1>12 DEF SlotsOnly
      <3>2. x \in ToLegacy
        BY <2>1, <3>1, HeadTail
      <3>3. x = PutSvc("base", "base") => dep["base"] # Absent /\ pods["base"] = {}
        BY <1>1, <1>10, <3>2 DEF ToLegacy, PutSvc
      <3>4. QED
        BY <1>1, <3>3 DEF SlotsOnly
    <2>3. ~\E w \in Slots, v \in Versions : x = PutDep(w, v)
      BY <1>9, Vocabulary DEF PutDep
    <2>4. ~\E w \in Slots : x = PutSvc(w, w)
      BY <1>9 DEF PutSvc, Slots
    <2>5. QED
      BY <1>11, <1>12, <2>1, <2>2, <2>3, <2>4 DEF Staged
  <1>13. CASE pc[i] = "deleting" /\ job[i].kind # "switch" /\ x \in Drops(Candidates)
    <2>1. x = Head(todo[i]) /\ todo[i] # <<>>
      BY <1>7, <1>13 DEF Request
    <2>2. todo[i] \in Seq(Untargeted)
      BY <1>1, <1>13 DEF SweepsSpareTraffic
    <2>3. x \in Untargeted
      BY <2>1, <2>2, HeadTail
    <2>4. x.w # "base"
      BY <1>13 DEF Drops, Candidates, PutDep, PutSvc
    <2>5. QED
      BY <1>9, <2>3, <2>4 DEF Untargeted
  <1>14. CASE /\ pc[i] = "deleting" /\ job[i].kind = "switch"
              /\ x \in Drops({job[i].active}) \cup {PutDep("base", Absent)}
    <2>1. sel["base"] = Other(job[i].active)
      BY <1>1, <1>14 DEF SwitchProgress
    <2>2. job[i].active \in Slots /\ job[i].active # "base"
          /\ Other(job[i].active) \notin {"base", job[i].active}
      BY <1>1, Vocabulary DEF JobType, Slots
    <2>3. QED
      BY <1>9, <1>14, <2>1, <2>2 DEF Drops, PutDep, PutSvc
  <1>15. CASE x \in Publishings
    BY <1>9, <1>15 DEF Publishings, PutRoute
  <1>16. CASE pc[i] = "shifting" /\ job[i].kind = "switch" /\ x = PutSvc("base", Other(job[i].active))
    <2>1. PICK s \in Slots : s = Other(job[i].active)
      BY <1>1, Vocabulary DEF JobType
    <2>2. pods[s] # {}
      BY <1>1, <1>16, <2>1 DEF SwitchProgress, OnlyCurrent
    <2>3. QED
      BY <1>10, <1>16, <2>1, <2>2, Vocabulary
  <1>17. job[i].kind # "promote" /\ (job[i].kind = "deploy" => job[i].strategy # "rolling")
    BY <1>8 DEF OnCourse
  <1>18. QED
    BY <1>1, <1>7, <1>11, <1>12, <1>13, <1>14, <1>15, <1>16, <1>17, Requests

\* Between two slots the traffic is lost in one way only: by going to the slot that
\* the handler took for the active one and that has no pods
\* (applyBlueGreenWorkloadResources, the undo of promoteBlueGreen).  Moving on to a
\* candidate, and deleting a slot, never lose it.
THEOREM LostByGoingBackOnly ==
  ASSUME ~Overlap, Strategies \subseteq {"blue-green"}
  PROVE  Spec => LostOnlyGoingBack
  <1>1. IInv /\ [Next]_vars =>
          [Serving /\ ~Serving' =>
             \E j \in Jobs : /\ Running(j) /\ ~Available(job[j].active)
                            /\ sel["base"] # job[j].active /\ sel'["base"] = job[j].active]_vars
    BY LostStep
  <1>2. QED
    BY <1>1, IInvariant, PTL DEF Spec, LostOnlyGoingBack
=============================================================================
