------------------------- MODULE WorkerLoopsProofs -------------------------
(***************************************************************************)
(* Proofs about the loops of a worker: types, how long a control of the    *)
(* pool is acted on after the API replaced it, and what "unchanged" speaks *)
(* of, for any number of goroutines, any times and inventories.            *)
(***************************************************************************)
EXTENDS WorkerLoops, TLAPS

-----------------------------------------------------------------------------
(* Types.                                                                  *)

LEMMA PoolLoopTypes ==
  ASSUME PoolTypeOK, NEW g \in Getters,
         Ask(g) \/ Answer(g) \/ Asked(g) \/ FallBack(g) \/ Claimed(g)
  PROVE  PoolTypeOK'
<1>1. 0 \in 0..FetchTimeout /\ 0 \in 0..TTL
  BY PoolAssumption
<1>2. CASE Ask(g)
  BY <1>2 DEF PoolTypeOK, Ask, Getting
<1>3. CASE Answer(g)
  BY <1>1, <1>3 DEF PoolTypeOK, Answer, Getting
<1>4. CASE Hit(g)
  BY <1>1, <1>4 DEF PoolTypeOK, Hit, Decide, Waiting, Getting
<1>5. CASE Store(g)
  BY <1>1, <1>5 DEF PoolTypeOK, Store, Decide, Waiting, Getting
<1>6. CASE FallBack(g)
  BY <1>1, <1>6 DEF PoolTypeOK, FallBack, Decide, Waiting, Getting
<1>7. CASE Claimed(g)
  BY <1>1, <1>7 DEF PoolTypeOK, Claimed, Waiting, Getting
<1>8. QED
  BY <1>2, <1>3, <1>4, <1>5, <1>6, <1>7 DEF Asked

LEMMA TickTypes == ASSUME PoolTypeOK, Tick PROVE PoolTypeOK'
<1>1. settled' \in 0..Patience
  BY PoolAssumption DEF PoolTypeOK, Tick, Patience
<1>2. cache' \in [has : BOOLEAN, blocks : BOOLEAN, age : 0..TTL]
  BY PoolAssumption DEF PoolTypeOK, Tick
<1>3. getter' \in [Getters -> Getting]
  BY PoolAssumption DEF PoolTypeOK, Tick, Getting
<1>4. QED
  BY <1>1, <1>2, <1>3 DEF PoolTypeOK, Tick

LEMMA BeatTypes ==
  ASSUME BeatTypeOK, HeartbeatLoop \/ ClusterChanges \/ BeatArrivesLate \/ BeatForgotten
  PROVE  BeatTypeOK'
<1>1. Inventories \subseteq 0..MaxInventory /\ 0 \in 0..MaxInventory
  BY HeartbeatAssumption DEF Inventories
<1>2. CASE BeatBegins
  BY <1>1, <1>2 DEF BeatTypeOK, BeatBegins, Remember, Beats
<1>3. CASE BeatWithoutDiscovery
  BY <1>1, <1>3 DEF BeatTypeOK, BeatWithoutDiscovery, Beats
<1>4. Seen \in 0..MaxInventory /\ NoBeat \in Beats
  BY <1>1 DEF BeatTypeOK, Seen, Beats, NoBeat
<1>5. CASE BeatArrives
  BY <1>4, <1>5 DEF BeatTypeOK, BeatArrives
<1>6. CASE BeatFails
  <2>1. beat.mode = "full" => beat.hash \in Inventories
    BY DEF BeatTypeOK, Beats
  <2>2. QED
    BY <1>4, <1>6, <2>1 DEF BeatTypeOK, BeatFails
<1>7. CASE ClusterChanges
  BY <1>7 DEF BeatTypeOK, ClusterChanges
<1>8. CASE BeatArrivesLate
  BY <1>1, <1>8 DEF BeatTypeOK, BeatArrivesLate
<1>9. CASE BeatForgotten
  BY <1>1, <1>4, <1>9 DEF BeatTypeOK, BeatForgotten
<1>10. QED
  BY <1>2, <1>3, <1>5, <1>6, <1>7, <1>8, <1>9 DEF HeartbeatLoop

\* TypeOK is inductive.
LEMMA TypeStep == ASSUME TypeOK, [Next]_vars PROVE TypeOK'
<1>1. CASE \E g \in Getters : Loop(g)
  <2>1. PICK g \in Getters : Loop(g)
    BY <1>1
  <2>2. PoolTypeOK' /\ UNCHANGED beatVars
    BY <2>1, PoolLoopTypes DEF Loop, TypeOK
  <2>3. QED
    BY <2>2 DEF TypeOK, BeatTypeOK, beatVars
<1>2. CASE HeartbeatLoop
  BY <1>2, BeatTypes DEF TypeOK, HeartbeatLoop, PoolTypeOK, poolVars
<1>3. CASE PoolChanges /\ UNCHANGED beatVars
  <2>1. PoolTypeOK'
    BY <1>3, PoolAssumption DEF TypeOK, PoolTypeOK, PoolChanges, Patience
  <2>2. QED
    BY <1>3, <2>1 DEF TypeOK, BeatTypeOK, beatVars
<1>4. CASE Tick /\ UNCHANGED beatVars
  BY <1>4, TickTypes DEF TypeOK, BeatTypeOK, beatVars
<1>5. CASE (ClusterChanges \/ BeatArrivesLate) /\ UNCHANGED poolVars
  BY <1>5, BeatTypes DEF TypeOK, PoolTypeOK, poolVars
<1>6. CASE Restart
  <2>1. Waiting \in Getting /\ NoCache \in [has : BOOLEAN, blocks : BOOLEAN, age : 0..TTL]
    BY PoolAssumption DEF Waiting, Getting, NoCache
  <2>2. PoolTypeOK'
    BY <1>6, <2>1 DEF Restart, TypeOK, PoolTypeOK
  <2>3. BeatTypeOK'
    BY <1>6, BeatTypes DEF Restart, TypeOK
  <2>4. QED
    BY <2>2, <2>3 DEF TypeOK
<1>7. CASE UNCHANGED vars
  BY <1>7 DEF vars, poolVars, beatVars, TypeOK, PoolTypeOK, BeatTypeOK
<1>8. QED
  BY <1>1, <1>2, <1>3, <1>4, <1>5, <1>6, <1>7 DEF Next, Environment

\* Every variable keeps its type, the cached control, what the goroutines hold
\* and the heartbeats among them.
THEOREM TypeCorrectness == Spec => []TypeOK
<1>1. Init => TypeOK
  <2>1. ASSUME Init PROVE PoolTypeOK
    BY <2>1, PoolAssumption DEF Init, PoolInit, PoolTypeOK, Getting, Waiting, NoCache, Patience
  <2>2. ASSUME Init PROVE BeatTypeOK
    <3>1. 0 \in 0..MaxInventory /\ NoBeat \in Beats
      BY HeartbeatAssumption DEF NoBeat, Beats
    <3>2. QED
      BY <2>2, <3>1 DEF Init, BeatInit, BeatTypeOK
  <2>3. QED
    BY <2>1, <2>2 DEF TypeOK
<1>2. QED
  BY <1>1, TypeStep, PTL DEF Spec

-----------------------------------------------------------------------------
(* How old a control may be.                                               *)

\* An answer on its way for some ticks, or stored for some after taking up to
\* FetchTimeout, is what the API says unless that changed meanwhile.
Dated ==
  /\ \A g \in Getters :
       getter[g].phase = "answered" /\ settled > getter[g].age => getter[g].blocks = blocked
  /\ cache.has /\ settled > cache.age + FetchTimeout => cache.blocks = blocked

LEMMA DatedStep == ASSUME TypeOK, Dated, [Next]_vars PROVE Dated'
<1>1. /\ TTL \in Nat /\ FetchTimeout \in Nat /\ TTL > 0 /\ settled \in Nat
      /\ cache.age \in 0..TTL /\ cache \in [has : BOOLEAN, blocks : BOOLEAN, age : 0..TTL]
      /\ getter \in [Getters -> Getting]
  BY PoolAssumption DEF TypeOK, PoolTypeOK, Patience
<1>2. CASE \E g \in Getters : Loop(g)
  <2>1. PICK g \in Getters : Loop(g)
    BY <1>2
  <2>2. CASE Ask(g)
    BY <1>1, <2>2 DEF Ask, Dated, Getting
  <2>3. CASE Answer(g)
    BY <1>1, <2>3 DEF Answer, Dated, Getting
  <2>4. CASE Hit(g)
    BY <1>1, <2>4 DEF Hit, Decide, Waiting, Dated, Getting
  <2>5. CASE Store(g)
    <3>1. getter[g].age \in 0..FetchTimeout
      BY <1>1 DEF Getting
    <3>2. cache'.has /\ settled' > cache'.age + FetchTimeout => cache'.blocks = blocked'
      BY <1>1, <2>5, <3>1 DEF Store, Dated
    <3>3. ASSUME NEW h \in Getters, getter'[h].phase = "answered"
          PROVE  h # g /\ getter'[h] = getter[h]
      BY <1>1, <2>5, <3>3 DEF Store, Decide, Waiting, Getting
    <3>4. QED
      BY <2>5, <3>2, <3>3 DEF Store, Dated
  <2>6. CASE FallBack(g)
    BY <1>1, <2>6 DEF FallBack, Decide, Waiting, Dated, Getting
  <2>7. CASE Claimed(g)
    BY <1>1, <2>7 DEF Claimed, Waiting, Dated, Getting
  <2>8. QED
    BY <2>1, <2>2, <2>3, <2>4, <2>5, <2>6, <2>7 DEF Loop, Asked
<1>3. CASE PoolChanges
  <2>1. \A g \in Getters : getter[g].age \in 0..FetchTimeout
    BY <1>1 DEF Getting
  <2>2. QED
    BY <1>1, <1>3, <2>1 DEF PoolChanges, Dated
<1>4. CASE Tick
  <2>1. cache'.has /\ settled' > cache'.age + FetchTimeout => cache'.blocks = blocked'
    BY <1>1, <1>4 DEF Tick, Dated, Patience
  <2>2. ASSUME NEW g \in Getters, getter'[g].phase = "answered", settled' > getter'[g].age
        PROVE  getter'[g].blocks = blocked'
    <3>1. /\ getter[g].phase = "answered" /\ getter[g].age \in 0..FetchTimeout
          /\ getter'[g].age = getter[g].age + 1 /\ getter'[g].blocks = getter[g].blocks
      BY <1>1, <1>4, <2>2 DEF Tick, Getting
    <3>2. settled > getter[g].age
      BY <1>1, <1>4, <2>2, <3>1 DEF Tick
    <3>3. QED
      BY <1>4, <3>1, <3>2 DEF Tick, Dated
  <2>3. QED
    BY <2>1, <2>2 DEF Dated
<1>5. CASE UNCHANGED poolVars
  BY <1>5 DEF poolVars, Dated
<1>6. CASE Restart
  BY <1>6 DEF Restart, NoCache, Waiting, Dated
<1>7. QED
  BY <1>2, <1>3, <1>4, <1>5, <1>6 DEF Next, Environment, HeartbeatLoop, vars

LEMMA Typed == Spec => [](TypeOK /\ Dated)
<1>1. Init => Dated
  BY DEF Init, PoolInit, NoCache, Waiting, Dated
<1>2. QED
  BY <1>1, TypeCorrectness, DatedStep, PTL DEF Spec

\* Whatever a goroutine decides on a cached or fetched control agrees with what
\* the API has said for a time to live and a timeout, for any number of
\* goroutines and any such times (workerPoolControlCache.get).
THEOREM ControlsAreRecent == Spec => ControlIsRecent
<1> DEFINE Recent == \A g \in Getters :
             Asked(g) /\ settled = Patience => (getter'[g].phase = "claiming") = ~blocked
<1>1. ASSUME TypeOK, Dated, NEW g \in Getters, Asked(g), settled = Patience
      PROVE  (getter'[g].phase = "claiming") = ~blocked
  <2>1. /\ TTL \in Nat /\ FetchTimeout \in Nat /\ TTL > 0 /\ settled = TTL + FetchTimeout
        /\ cache \in [has : BOOLEAN, blocks : BOOLEAN, age : 0..TTL]
        /\ getter \in [Getters -> Getting]
    BY <1>1, PoolAssumption DEF TypeOK, PoolTypeOK, Patience
  <2>2. CASE Hit(g)
    <3>1. cache.blocks = blocked
      BY <1>1, <2>1, <2>2 DEF Hit, Fresh, Dated
    <3>2. getter'[g].phase = IF cache.blocks THEN "waiting" ELSE "claiming"
      BY <2>1, <2>2 DEF Hit, Decide, Waiting
    <3>3. QED
      BY <3>1, <3>2
  <2>3. CASE Store(g)
    <3>1. getter[g].age \in 0..FetchTimeout
      BY <2>1 DEF Getting
    <3>2. getter[g].blocks = blocked
      BY <1>1, <2>1, <2>3, <3>1 DEF Store, Dated
    <3>3. getter'[g].phase = IF getter[g].blocks THEN "waiting" ELSE "claiming"
      BY <2>1, <2>3 DEF Store, Decide, Waiting
    <3>4. QED
      BY <3>2, <3>3
  <2>4. QED
    BY <1>1, <2>2, <2>3 DEF Asked
<1>2. TypeOK /\ Dated => [Recent]_vars
  BY <1>1
<1>3. QED
  BY <1>2, Typed, PTL DEF ControlIsRecent

-----------------------------------------------------------------------------
(* What "unchanged" speaks of.                                             *)

\* As long as every full heartbeat was answered, the API has the inventory the
\* worker remembers, or is being sent it, and nothing else is on its way.
Followed ==
  ~missed => /\ late = {}
             /\ lastHash # 0 => lastHash = IF beat.mode = "full" THEN beat.hash ELSE view
             /\ beat.mode = "unchanged" => lastHash # 0 /\ beat.hash = lastHash

LEMMA FollowedStep == ASSUME TypeOK, Followed, [Next]_vars PROVE Followed'
<1>1. /\ inventory \in Inventories /\ 0 \notin Inventories
      /\ beat \in Beats
  BY HeartbeatAssumption DEF TypeOK, BeatTypeOK, Inventories
<1>2. CASE BeatBegins
  BY <1>1, <1>2 DEF BeatBegins, Remember, Idle, Followed
<1>3. CASE BeatWithoutDiscovery
  BY <1>3 DEF BeatWithoutDiscovery, Idle, Followed
<1>4. CASE BeatArrives
  BY <1>4 DEF BeatArrives, Seen, NoBeat, Followed
<1>5. CASE BeatFails
  <2>1. ASSUME ~missed' PROVE ~missed /\ beat.mode # "full" /\ UNCHANGED <<late, view>>
    BY <1>5, <2>1 DEF BeatFails, Seen
  <2>2. QED
    BY <1>5, <2>1 DEF BeatFails, NoBeat, Followed
<1>6. CASE ClusterChanges
  BY <1>6 DEF ClusterChanges, Followed
<1>7. CASE BeatArrivesLate
  BY <1>7 DEF BeatArrivesLate, Followed
<1>8. CASE BeatForgotten
  BY <1>8 DEF BeatForgotten, NoBeat, Followed
<1>9. CASE UNCHANGED beatVars
  BY <1>9 DEF beatVars, Followed
<1>10. QED
  BY <1>2, <1>3, <1>4, <1>5, <1>6, <1>7, <1>8, <1>9
  DEF Next, Loop, HeartbeatLoop, Environment, Restart, vars

\* A heartbeat that says "unchanged" names the inventory the API has, as long
\* as every full one was answered, for any number of inventories.
THEOREM UnchangedBeatsAreTrue == Spec => []UnchangedIsTrue
<1>1. Init => Followed
  BY DEF Init, BeatInit, NoBeat, Followed
<1>2. Followed => UnchangedIsTrue
  BY DEF Followed, UnchangedIsTrue
<1>3. QED
  BY <1>1, <1>2, TypeCorrectness, FollowedStep, PTL DEF Spec
=============================================================================
