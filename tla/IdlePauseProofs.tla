-------------------------- MODULE IdlePauseProofs --------------------------
(***************************************************************************)
(* Proofs about IdlePause: what the monitors pause was idle, and what they *)
(* resume was asked for, for any number of monitors, any windows, cycle    *)
(* times and numbers of deploys, scalings and failed requests.             *)
(***************************************************************************)
EXTENDS IdlePause, TLAPS

\* A cycle that has begun to pause has seen an old revision and old requests:
\* younger ones have come since it began.
Quiet(m) ==
  /\ pc[m] \in {"pauseCheck", "suspending", "pausing"} =>
       revision <= spent[m] \/ revision >= IdleWindow
  /\ pc[m] \in {"suspending", "pausing"} =>
       request <= spent[m] \/ request > IdleWindow

\* The last pause found no request within the idle window, except of its cycle.
PausedQuietly == paused < Horizon => request <= paused + CycleTime \/ request > IdleWindow

\* A cycle that resumes goes by a request since the last pause, unless the
\* service has been paused during the cycle or never within the horizon.
Asked(m) ==
  pc[m] \in {"restoring", "resuming", "resumingUnrestored"} =>
    paused <= spent[m] \/ paused = Horizon \/ request <= paused + CycleTime

IInv ==
  /\ TypeOK
  /\ \A m \in Monitors : Quiet(m) /\ Asked(m)
  /\ PausedQuietly

LEMMA Windows ==
  /\ IdleWindow \in Nat /\ ResumeSetting \in Nat /\ CycleTime \in Nat /\ Horizon \in Nat
  /\ MaxChanges \in Nat /\ MaxFaults \in Nat /\ IdleWindow > 0 /\ CycleTime > 0
  /\ Horizon > IdleWindow + CycleTime
  /\ Autoscaled \in BOOLEAN
  BY ConstantsAssumption

\* The parts of TypeOK.
ServiceTypes == wanted \in BOOLEAN /\ running \in BOOLEAN /\ hpa \in BOOLEAN /\ deploying \in BOOLEAN
AgeTypes     == request \in 0..Horizon /\ revision \in 0..Horizon /\ paused \in 0..Horizon
PlaceTypes   == pc \in [Monitors -> Places] /\ due \in [Monitors -> BOOLEAN]
TimeTypes    == spent \in [Monitors -> 0..CycleTime]
ReportTypes  ==
  report \in {"none", "idle", "pending", "restoration pending", "unknown", "assessed"}
BoundTypes   == changes \in 0..MaxChanges /\ faults \in 0..MaxFaults

LEMMA TypeParts ==
  TypeOK <=> /\ ServiceTypes /\ AgeTypes /\ PlaceTypes /\ TimeTypes
             /\ ReportTypes /\ BoundTypes
  BY DEF TypeOK, ServiceTypes, AgeTypes, PlaceTypes, TimeTypes, ReportTypes, BoundTypes

LEMMA Numbers == IInv => AgeTypes /\ PlaceTypes /\ TimeTypes
  BY TypeParts DEF IInv

LEMMA InitIInv == Init => IInv
<1> SUFFICES ASSUME Init PROVE IInv
  OBVIOUS
<1>1. TypeOK
  <2>0. ServiceTypes
    BY Windows DEF Init, ServiceTypes
  <2>1. AgeTypes
    BY Windows DEF Init, AgeTypes
  <2>2. PlaceTypes /\ ReportTypes
    BY DEF Init, PlaceTypes, Places, ReportTypes
  <2>3. TimeTypes /\ BoundTypes
    BY Windows DEF Init, TimeTypes, BoundTypes
  <2>4. QED
    BY <2>0, <2>1, <2>2, <2>3, TypeParts
<1>2. \A m \in Monitors : Quiet(m) /\ Asked(m)
  BY DEF Init, Quiet, Asked
<1>3. PausedQuietly
  BY Windows DEF Init, PausedQuietly
<1>4. QED
  BY <1>1, <1>2, <1>3 DEF IInv

-----------------------------------------------------------------------------
(* Types.                                                                  *)

Monitoring == \E m \in Monitors : Cycle(m) \/ Expire(m)
Beside     == DeployApplies \/ DeploySyncs \/ \E on \in BOOLEAN : Scale(on)
External   == Settle \/ Request \/ UNCHANGED vars

LEMMA Steps == [Next]_vars => Monitoring \/ Beside \/ External \/ Tick
  BY DEF Next, Monitoring, Beside, External

LEMMA ServiceTypesKept == ASSUME ServiceTypes, [Next]_vars PROVE ServiceTypes'
<1> USE Windows DEF ServiceTypes, service
<1>1. CASE Monitoring
  BY <1>1 DEF Monitoring, Cycle, Observe, CheckResume, Restore, Resume, CheckPause, Suspend,
     Pause, Expire
<1>2. CASE Beside
  BY <1>2 DEF Beside, DeployApplies, DeploySyncs, Scale
<1>3. CASE External \/ Tick
  BY <1>3 DEF External, Settle, Request, Tick, vars
<1>4. QED
  BY <1>1, <1>2, <1>3, Steps

LEMMA AgeTypesKept == ASSUME AgeTypes, [Next]_vars PROVE AgeTypes'
<1> USE Windows DEF AgeTypes, ages
<1>1. CASE Monitoring
  <2>1. request' = request /\ revision' = revision /\ (paused' = paused \/ paused' = 0)
    BY <1>1 DEF Monitoring, Cycle, Observe, CheckResume, Restore, Resume, CheckPause, Suspend,
       Pause, Expire
  <2>2. QED
    BY <2>1
<1>2. CASE Beside
  BY <1>2 DEF Beside, DeployApplies, DeploySyncs, Scale
<1>3. CASE External
  BY <1>3 DEF External, Settle, Request, vars
<1>4. CASE Tick
  BY <1>4 DEF Tick, Older
<1>5. QED
  BY <1>1, <1>2, <1>3, <1>4, Steps

LEMMA PlaceTypesKept == ASSUME PlaceTypes, [Next]_vars PROVE PlaceTypes'
<1> USE DEF PlaceTypes, cycles
<1>1. CASE Monitoring
  <2>1. PICK m \in Monitors : Cycle(m) \/ Expire(m)
    BY <1>1 DEF Monitoring
  <2>2. /\ \E place \in Places : pc' = pc \/ pc' = [pc EXCEPT ![m] = place]
        /\ due' = due \/ due' = [due EXCEPT ![m] = FALSE]
    BY <2>1 DEF Cycle, Observe, CheckResume, Restore, Resume, CheckPause, Suspend, Pause,
       Expire, Goto, Ends, Places
  <2>3. QED
    BY <2>2
<1>2. CASE Beside
  BY <1>2 DEF Beside, DeployApplies, DeploySyncs, Scale
<1>3. CASE External \/ Tick
  BY <1>3 DEF External, Settle, Request, Tick, vars
<1>4. QED
  BY <1>1, <1>2, <1>3, Steps

\* No cycle outlives its timeout.
LEMMA TimeTypesKept == ASSUME TimeTypes, [Next]_vars PROVE TimeTypes'
<1> USE Windows DEF TimeTypes, cycles
<1>1. CASE Monitoring
  <2>1. PICK m \in Monitors : Cycle(m) \/ Expire(m)
    BY <1>1 DEF Monitoring
  <2>2. spent' = spent \/ spent' = [spent EXCEPT ![m] = 0]
    BY <2>1 DEF Cycle, Observe, CheckResume, Restore, Resume, CheckPause, Suspend, Pause,
       Expire, Goto, Ends
  <2>3. QED
    BY <2>2
<1>2. CASE Beside
  BY <1>2 DEF Beside, DeployApplies, DeploySyncs, Scale
<1>3. CASE External
  BY <1>3 DEF External, Settle, Request, vars
<1>4. CASE Tick
  <2>1. \A m \in Monitors : pc[m] # "waiting" => spent[m] + 1 \in 0..CycleTime
    BY <1>4 DEF Tick, InTime
  <2>2. QED
    BY <1>4, <2>1 DEF Tick
<1>5. QED
  BY <1>1, <1>2, <1>3, <1>4, Steps

LEMMA ReportTypesKept == ASSUME ReportTypes, [Next]_vars PROVE ReportTypes'
<1> USE DEF ReportTypes
<1>1. CASE Monitoring
  BY <1>1 DEF Monitoring, Cycle, Observe, CheckResume, Restore, Resume, CheckPause, Suspend,
     Pause, Expire, Goto, Ends
<1>2. CASE Beside
  BY <1>2 DEF Beside, DeployApplies, DeploySyncs, Scale
<1>3. CASE External \/ Tick
  BY <1>3 DEF External, Settle, Request, Tick, vars
<1>4. QED
  BY <1>1, <1>2, <1>3, Steps

LEMMA BoundTypesKept == ASSUME BoundTypes, [Next]_vars PROVE BoundTypes'
<1> USE Windows DEF BoundTypes, bounds, Fault, NoFault
<1>1. CASE Monitoring
  <2>1. changes' = changes /\ (UNCHANGED faults \/ Fault)
    BY <1>1 DEF Monitoring, Cycle, Observe, CheckResume, Restore, Resume, CheckPause, Suspend,
       Pause, Expire
  <2>2. QED
    BY <2>1
<1>2. CASE Beside
  BY <1>2 DEF Beside, DeployApplies, DeploySyncs, Scale
<1>3. CASE External \/ Tick
  BY <1>3 DEF External, Settle, Request, Tick, vars
<1>4. QED
  BY <1>1, <1>2, <1>3, Steps

LEMMA NextTypes == ASSUME TypeOK, [Next]_vars PROVE TypeOK'
<1>1. /\ ServiceTypes' /\ AgeTypes' /\ PlaceTypes' /\ TimeTypes'
      /\ ReportTypes' /\ BoundTypes'
  BY TypeParts, ServiceTypesKept, AgeTypesKept, PlaceTypesKept, TimeTypesKept,
     ReportTypesKept, BoundTypesKept
<1>2. QED
  BY <1>1 DEF TypeOK, ServiceTypes, AgeTypes, PlaceTypes, TimeTypes, ReportTypes, BoundTypes

-----------------------------------------------------------------------------
(* The cycles' observations.                                               *)

\* A step of cycle m leaves the other cycles alone.
LEMMA OwnPlace ==
  ASSUME TypeOK, NEW m \in Monitors, Cycle(m) \/ Expire(m), NEW n \in Monitors, n # m
  PROVE  pc'[n] = pc[n] /\ spent'[n] = spent[n]
<1> USE DEF TypeOK
<1>1. CASE Observe(m)
  BY <1>1 DEF Observe
<1>2. CASE CheckResume(m) \/ Restore(m) \/ Resume(m) \/ Expire(m)
  BY <1>2 DEF CheckResume, Restore, Resume, Expire, Goto, Ends
<1>3. CASE CheckPause(m) \/ Suspend(m) \/ Pause(m)
  BY <1>3 DEF CheckPause, Suspend, Pause, Goto, Ends
<1>4. QED
  BY <1>1, <1>2, <1>3 DEF Cycle

LEMMA CycleIsQuiet ==
  ASSUME IInv, NEW m \in Monitors, Cycle(m) \/ Expire(m), NEW n \in Monitors
  PROVE  Quiet(n)'
<1> USE Windows, Numbers DEF AgeTypes, PlaceTypes, TimeTypes, Quiet
<1> Quiet(n) /\ Quiet(m)
  BY DEF IInv
<1>0. request' = request /\ revision' = revision
  BY DEF Cycle, Observe, CheckResume, Restore, Resume, CheckPause, Suspend, Pause, Expire, ages
<1>1. CASE n # m
  BY <1>0, <1>1, OwnPlace DEF IInv
<1>2. CASE n = m
  <2>1. CASE Observe(m)
    BY <1>0, <1>2, <2>1 DEF Observe, ObservationComplete
  <2>2. CASE CheckPause(m)
    <3>1. \/ pc' = [pc EXCEPT ![m] = "suspending"] /\ request > IdleWindow
          \/ pc' = [pc EXCEPT ![m] = "waiting"]
      BY <2>2 DEF CheckPause, Goto, Ends, Active
    <3>2. spent' = spent /\ pc[m] = "pauseCheck"
      BY <2>2 DEF CheckPause, Goto, Ends
    <3>3. QED
      BY <1>0, <1>2, <3>1, <3>2
  <2>3. CASE Suspend(m) \/ Pause(m)
    BY <1>0, <1>2, <2>3 DEF Suspend, Pause, Goto, Ends
  <2>4. CASE CheckResume(m) \/ Restore(m) \/ Resume(m) \/ Expire(m)
    BY <1>0, <1>2, <2>4 DEF CheckResume, Restore, Resume, Expire, Goto, Ends
  <2>5. QED
    BY <2>1, <2>2, <2>3, <2>4 DEF Cycle
<1>3. QED
  BY <1>1, <1>2

LEMMA CyclePausesQuietly ==
  ASSUME IInv, NEW m \in Monitors, Cycle(m) \/ Expire(m)
  PROVE  PausedQuietly'
<1> USE Windows, Numbers DEF AgeTypes, PlaceTypes, TimeTypes, PausedQuietly
<1> PausedQuietly
  BY DEF IInv
<1>1. CASE Pause(m)
  <2>1. spent[m] <= CycleTime /\ (request <= spent[m] \/ request > IdleWindow)
    BY <1>1 DEF Pause, IInv, Quiet
  <2>2. request' = request /\ paused' \in {0, paused}
    BY <1>1 DEF Pause
  <2>3. QED
    BY <2>1, <2>2
<1>2. CASE ~Pause(m)
  BY <1>2 DEF Cycle, Observe, CheckResume, Restore, Resume, CheckPause, Suspend, Expire, ages
<1>3. QED
  BY <1>1, <1>2

LEMMA CycleIsAsked ==
  ASSUME IInv, NEW m \in Monitors, Cycle(m) \/ Expire(m), NEW n \in Monitors
  PROVE  Asked(n)'
<1> USE Windows, Numbers DEF AgeTypes, PlaceTypes, TimeTypes, Asked
<1> Asked(n) /\ PausedQuietly
  BY DEF IInv
<1>0. request' = request /\ (paused' = paused \/ paused' = 0)
  BY DEF Cycle, Observe, CheckResume, Restore, Resume, CheckPause, Suspend, Pause, Expire, ages
<1>1. CASE n # m
  BY <1>0, <1>1, OwnPlace DEF IInv
<1>2. CASE n = m
  <2>1. CASE CheckResume(m)
    <3>1. paused' = paused /\ (pc'[m] = "restoring" => request <= IdleWindow)
      BY <2>1 DEF CheckResume, Goto, Ends, Active, ResumeWindow, ages
    <3>2. pc'[m] \in {"restoring", "waiting"}
      BY <2>1 DEF CheckResume, Goto, Ends
    <3>3. QED
      BY <1>0, <1>2, <3>1, <3>2 DEF PausedQuietly
  <2>2. CASE Restore(m) \/ Resume(m)
    BY <1>0, <1>2, <2>2 DEF Restore, Resume, Goto, Ends, ages
  <2>3. CASE Observe(m)
    BY <1>0, <1>2, <2>3 DEF Observe
  <2>4. CASE CheckPause(m) \/ Suspend(m) \/ Pause(m) \/ Expire(m)
    BY <1>0, <1>2, <2>4 DEF CheckPause, Suspend, Pause, Expire, Goto, Ends
  <2>5. QED
    BY <2>1, <2>2, <2>3, <2>4 DEF Cycle
<1>3. QED
  BY <1>1, <1>2

LEMMA OlderAge ==
  ASSUME NEW age \in 0..Horizon
  PROVE  /\ Older(age) \in 0..Horizon /\ Older(age) >= age
         /\ Older(age) <= age + 1 /\ (Older(age) = age + 1 \/ Older(age) = Horizon)
         /\ (Older(age) # Horizon => age # Horizon)
  BY Windows DEF Older

\* A tick ages a cycle and what it looks at alike.
LEMMA TickKeeps ==
  ASSUME IInv, Tick
  PROVE  (\A m \in Monitors : Quiet(m)' /\ Asked(m)') /\ PausedQuietly'
<1> USE Windows, Numbers DEF AgeTypes, TimeTypes
<1>1. /\ request' = Older(request) /\ revision' = Older(revision)
      /\ paused' = Older(paused) /\ pc' = pc
  BY DEF Tick
<1>2. request \in 0..Horizon /\ revision \in 0..Horizon /\ paused \in 0..Horizon
  OBVIOUS
<1>3. ASSUME NEW m \in Monitors PROVE Quiet(m)' /\ Asked(m)'
  <2>1. CASE pc[m] = "waiting"
    BY <1>1, <2>1 DEF Quiet, Asked
  <2>2. CASE pc[m] # "waiting"
    <3>1. spent'[m] = spent[m] + 1 /\ spent[m] \in Nat
      BY <2>2 DEF Tick
    <3>2. Quiet(m)'
      BY <1>1, <1>2, <3>1, OlderAge DEF IInv, Quiet
    <3>3. Asked(m)'
      BY <1>1, <1>2, <3>1, OlderAge DEF IInv, Asked
    <3>4. QED
      BY <3>2, <3>3
  <2>3. QED
    BY <2>1, <2>2
<1>4. PausedQuietly'
  BY <1>1, <1>2, OlderAge DEF IInv, PausedQuietly
<1>5. QED
  BY <1>3, <1>4

LEMMA OthersKeep ==
  ASSUME IInv,
         \/ DeployApplies \/ DeploySyncs \/ \E on \in BOOLEAN : Scale(on)
         \/ Settle \/ Request \/ UNCHANGED vars
  PROVE  (\A m \in Monitors : Quiet(m)' /\ Asked(m)') /\ PausedQuietly'
<1> USE Windows, Numbers DEF AgeTypes, TimeTypes
<1>1. pc' = pc /\ spent' = spent /\ paused' = paused
  BY DEF DeployApplies, DeploySyncs, Scale, Settle, Request, vars, ages, cycles
<1>2. request' \in {0, request} /\ revision' \in {0, revision}
  BY DEF DeployApplies, DeploySyncs, Scale, Settle, Request, vars, ages
<1>3. \A m \in Monitors : spent[m] \in Nat
  OBVIOUS
<1>4. QED
  BY <1>1, <1>2, <1>3 DEF IInv, Quiet, Asked, PausedQuietly

LEMMA NextIInv == IInv /\ [Next]_vars => IInv'
<1> SUFFICES ASSUME IInv, [Next]_vars PROVE IInv'
  OBVIOUS
<1>1. TypeOK'
  BY NextTypes DEF IInv
<1>2. (\A m \in Monitors : Quiet(m)' /\ Asked(m)') /\ PausedQuietly'
  <2>1. CASE \E m \in Monitors : Cycle(m) \/ Expire(m)
    BY <2>1, CycleIsQuiet, CycleIsAsked, CyclePausesQuietly
  <2>2. CASE Tick
    BY <2>2, TickKeeps
  <2>3. CASE \/ DeployApplies \/ DeploySyncs \/ \E on \in BOOLEAN : Scale(on)
             \/ Settle \/ Request \/ UNCHANGED vars
    BY <2>3, OthersKeep
  <2>4. QED
    BY <2>1, <2>2, <2>3 DEF Next
<1>3. QED
  BY <1>1, <1>2 DEF IInv

\* The inductive invariant holds in every reachable state.
THEOREM Inductive == Spec => []IInv
  BY InitIInv, NextIInv, PTL DEF Spec

-----------------------------------------------------------------------------

\* Every variable keeps its type; in particular no cycle outlives its timeout.
THEOREM TypeCorrectness == Spec => []TypeOK
<1>1. IInv => TypeOK
  BY DEF IInv
<1>2. QED
  BY <1>1, Inductive, PTL

\* Whatever deploys, scalings and other monitors do between its requests: what
\* a monitor pauses (handlePauseWhenIdle) had neither a request nor a new
\* revision within the idle window, except for what happened during the cycle.
THEOREM PausesEarned == Spec => PausesAreEarned
<1> DEFINE Earned(m) == Pauses(m) =>
             /\ request <= CycleTime \/ request > IdleWindow
             /\ revision <= CycleTime \/ revision >= IdleWindow
<1>1. IInv => \A m \in Monitors : Earned(m)
  <2>1. ASSUME IInv, NEW m \in Monitors, Pauses(m) PROVE Earned(m)
    <3>1. spent[m] <= CycleTime /\ spent[m] \in Nat
      BY <2>1, Windows, Numbers DEF TimeTypes
    <3>2. request \in Nat /\ revision \in Nat /\ pc[m] = "pausing"
      BY <2>1, Numbers DEF AgeTypes, Pauses
    <3>3. QED
      BY <2>1, <3>1, <3>2, Windows DEF IInv, Quiet
  <2>2. QED
    BY <2>1
<1>2. IInv /\ [Next]_vars => [\A m \in Monitors : Earned(m)]_vars
  BY <1>1
<1>3. QED
  BY <1>2, Inductive, PTL DEF Spec, PausesAreEarned

\* A paused service is resumed by requests made since it was paused
\* (resolvePauseResumeWindow caps the window in which they count), never by
\* those whose age let it be paused.
THEOREM ResumptionsAreAskedFor == Spec => ResumedByNewRequests
<1> DEFINE Called(m) == Resumes(m) /\ paused \in CycleTime + 1 .. Horizon - 1
                          => request <= paused + CycleTime
<1>1. IInv => \A m \in Monitors : Called(m)
  <2>1. ASSUME IInv, NEW m \in Monitors, Resumes(m), paused \in CycleTime + 1 .. Horizon - 1
        PROVE  request <= paused + CycleTime
    <3>1. spent[m] <= CycleTime /\ spent[m] \in Nat
      BY <2>1, Windows, Numbers DEF TimeTypes
    <3>2. pc[m] \in {"resuming", "resumingUnrestored"} /\ paused > CycleTime /\ paused < Horizon
      BY <2>1, Windows DEF Resumes
    <3>3. QED
      BY <2>1, <3>1, <3>2, Windows, Numbers DEF AgeTypes, IInv, Asked
  <2>2. QED
    BY <2>1
<1>2. IInv /\ [Next]_vars => [\A m \in Monitors : Called(m)]_vars
  BY <1>1
<1>3. QED
  BY <1>2, Inductive, PTL DEF Spec, ResumedByNewRequests
=============================================================================
