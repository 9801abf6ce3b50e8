-------------------------- MODULE AutoDeployProofs --------------------------
(***************************************************************************)
(* Proofs about AutoDeploy, for every set of workers and every bound: one  *)
(* cycle at a time, each commit once, and no older commit after a newer    *)
(* one.                                                                    *)
(***************************************************************************)
EXTENDS AutoDeploy, TLAPS

\* The bounds and durations are natural numbers, one by one.
LEMMA Constants ==
  /\ Nobody \notin Workers
  /\ MaxCommit \in Nat /\ LeaseTTL \in Nat /\ CycleTime \in Nat
  /\ Cooldown \in Nat /\ RecentTTL \in Nat
  /\ MaxManual \in Nat /\ MaxFaults \in Nat
  /\ CycleTime < LeaseTTL
BY ConstantsAssumption

USE Constants

\* The lease was renewed when the cycle began, and has aged with it.
Leased ==
  \A w \in Workers : pc[w] # "waiting" => holder = w /\ left + spent[w] >= LeaseTTL

\* What monitors have created shows in the list of deploys and was pushed.
MadeIsListed == \A c \in Commits : made[c] > 0 => deploys[c] # "none" /\ c <= tip

\* The list a cycle goes by still holds all that monitors have created.
SeenIsCurrent ==
  \A w \in Workers : pc[w] \in {"looking", "queueing"} =>
    \A c \in Commits : made[c] > 0 => c \in seen[w]

\* The commit about to be queued is new, and newer than all of them.
FoundIsNew ==
  \A w \in Workers : pc[w] = "queueing" =>
    /\ found[w] \in Commits \ seen[w] /\ found[w] <= tip
    /\ \A c \in Commits : made[c] > 0 => c <= found[w]

IInv ==
  /\ TypeOK
  /\ Leased
  /\ MadeIsListed
  /\ SeenIsCurrent
  /\ FoundIsNew
  /\ OnceByMonitors

-----------------------------------------------------------------------------
\* The lease is held while a cycle runs, so that no other cycle does.
LEMMA LeaseHeld ==
  ASSUME TypeOK, Leased
  PROVE  /\ \A w \in Workers : pc[w] # "waiting" => left > 0
         /\ AloneInCycle
BY DEF TypeOK, Leased, AloneInCycle

\* The type invariant by parts: each part is disturbed by a few actions only.
ApiTypes ==
  /\ tip \in 0..MaxCommit
  /\ deploys \in [Commits -> {"none", "queued", "promoting", "ended"}]
  /\ made \in [Commits -> Nat] /\ manual \in 0..MaxManual
LeaseTypes == holder \in Workers \cup {Nobody} /\ left \in 0..LeaseTTL
PlaceTypes ==
  /\ pc \in [Workers -> {"waiting", "reading", "looking", "queueing"}]
  /\ seen \in [Workers -> SUBSET Commits] /\ found \in [Workers -> 0..MaxCommit]
ClockTypes ==
  /\ spent \in [Workers -> 0..CycleTime] /\ due \in [Workers -> BOOLEAN]
  /\ faults \in 0..MaxFaults
MemoryTypes ==
  /\ recent \in [Workers -> [Commits -> 0..RecentTTL]]
  /\ cooldown \in [Workers -> 0..Cooldown]

LEMMA TypeParts ==
  /\ TypeOK <=> ApiTypes /\ LeaseTypes /\ PlaceTypes /\ ClockTypes /\ MemoryTypes
  /\ TypeOK' <=> ApiTypes' /\ LeaseTypes' /\ PlaceTypes' /\ ClockTypes' /\ MemoryTypes'
BY DEF TypeOK, ApiTypes, LeaseTypes, PlaceTypes, ClockTypes, MemoryTypes

\* Types are preserved; the commit about to be queued is one.
LEMMA TypeStep ==
  TypeOK /\ FoundIsNew /\ [Next]_vars => TypeOK'
<1> SUFFICES ASSUME TypeOK, FoundIsNew, [Next]_vars PROVE TypeOK'
  OBVIOUS
<1> USE DEF api, lease, cycle, memory
<1>1. ApiTypes /\ LeaseTypes /\ PlaceTypes /\ ClockTypes /\ MemoryTypes
  BY TypeParts
<1>2. ASSUME NEW w \in Workers, AcquireLease(w) PROVE TypeOK'
  <2>1. ApiTypes'
    BY <1>1, <1>2 DEF ApiTypes, AcquireLease, Fault, NoFault, Goto
  <2>2. LeaseTypes'
    BY <1>1, <1>2 DEF LeaseTypes, AcquireLease, Fault, NoFault, Goto
  <2>3. PlaceTypes'
    BY <1>1, <1>2 DEF PlaceTypes, AcquireLease, Fault, NoFault, Goto
  <2>4. ClockTypes'
    BY <1>1, <1>2 DEF ClockTypes, AcquireLease, Fault, NoFault, Goto
  <2>5. MemoryTypes'
    BY <1>1, <1>2 DEF MemoryTypes, AcquireLease, Fault, NoFault, Goto
  <2> QED
    BY <2>1, <2>2, <2>3, <2>4, <2>5, TypeParts
<1>3. ASSUME NEW w \in Workers, ReadDeploys(w) PROVE TypeOK'
  <2>1. ApiTypes'
    BY <1>1, <1>3 DEF ApiTypes, ReadDeploys, Fault, NoFault, Goto, Ends, Known
  <2>2. LeaseTypes'
    BY <1>1, <1>3 DEF LeaseTypes, ReadDeploys, Fault, NoFault, Goto, Ends, Known
  <2>3. PlaceTypes'
    BY <1>1, <1>3 DEF PlaceTypes, ReadDeploys, Fault, NoFault, Goto, Ends, Known
  <2>4. ClockTypes'
    BY <1>1, <1>3 DEF ClockTypes, ReadDeploys, Fault, NoFault, Goto, Ends, Known
  <2>5. MemoryTypes'
    BY <1>1, <1>3 DEF MemoryTypes, ReadDeploys, Fault, NoFault, Goto, Ends, Known
  <2> QED
    BY <2>1, <2>2, <2>3, <2>4, <2>5, TypeParts
<1>4. ASSUME NEW w \in Workers, LookUpCommit(w) PROVE TypeOK'
  <2>1. ApiTypes'
    BY <1>1, <1>4 DEF ApiTypes, LookUpCommit, Fault, NoFault, Goto, Ends, FromStart
  <2>2. LeaseTypes'
    BY <1>1, <1>4 DEF LeaseTypes, LookUpCommit, Fault, NoFault, Goto, Ends, FromStart
  <2>3. PlaceTypes'
    BY <1>1, <1>4 DEF PlaceTypes, LookUpCommit, Fault, NoFault, Goto, Ends, FromStart, ApiTypes
  <2>4. ClockTypes'
    BY <1>1, <1>4 DEF ClockTypes, LookUpCommit, Fault, NoFault, Goto, Ends, FromStart
  <2>5. MemoryTypes'
    <3>1. FromStart(w, Cooldown) \in 0..Cooldown
      BY <1>1 DEF ClockTypes, FromStart
    <3> QED
      BY <1>1, <1>4, <3>1 DEF MemoryTypes, LookUpCommit
  <2> QED
    BY <2>1, <2>2, <2>3, <2>4, <2>5, TypeParts
<1>5. ASSUME NEW w \in Workers, QueueDeploy(w) PROVE TypeOK'
  <2>0. found[w] \in Commits
    BY <1>5 DEF QueueDeploy, FoundIsNew
  <2>1. ApiTypes'
    <3>1. CASE UNCHANGED <<deploys, made>>
      BY <1>1, <1>5, <3>1 DEF ApiTypes, QueueDeploy
    <3>2. CASE /\ deploys' = [deploys EXCEPT ![found[w]] = "queued"]
               /\ made' = [made EXCEPT ![found[w]] = @ + 1]
      BY <1>1, <1>5, <2>0, <3>2 DEF ApiTypes, QueueDeploy
    <3> QED
      BY <1>5, <3>1, <3>2 DEF QueueDeploy, Create
  <2>2. LeaseTypes'
    BY <2>0, <1>1, <1>5 DEF LeaseTypes, QueueDeploy, Fault, NoFault, Goto, Ends, FromStart
  <2>3. PlaceTypes'
    BY <2>0, <1>1, <1>5 DEF PlaceTypes, QueueDeploy, Fault, NoFault, Goto, Ends, FromStart
  <2>4. ClockTypes'
    BY <2>0, <1>1, <1>5 DEF ClockTypes, QueueDeploy, Fault, NoFault, Goto, Ends, FromStart
  <2>5. MemoryTypes'
    <3>1. FromStart(w, Cooldown) \in 0..Cooldown /\ FromStart(w, RecentTTL) \in 0..RecentTTL
      BY <1>1 DEF ClockTypes, FromStart
    <3>2. recent' \in [Workers -> [Commits -> 0..RecentTTL]]
      BY <1>1, <1>5, <2>0, <3>1 DEF MemoryTypes, QueueDeploy
    <3>3. cooldown' \in [Workers -> 0..Cooldown]
      BY <1>1, <1>5, <3>1 DEF MemoryTypes, QueueDeploy
    <3> QED
      BY <3>2, <3>3 DEF MemoryTypes
  <2> QED
    BY <2>1, <2>2, <2>3, <2>4, <2>5, TypeParts
<1>6. ASSUME NEW w \in Workers, Expire(w) PROVE TypeOK'
  <2>1. ApiTypes'
    BY <1>1, <1>6 DEF ApiTypes, Expire, Fault, Goto, Ends
  <2>2. LeaseTypes'
    BY <1>1, <1>6 DEF LeaseTypes, Expire, Fault, Goto, Ends
  <2>3. PlaceTypes'
    BY <1>1, <1>6 DEF PlaceTypes, Expire, Fault, Goto, Ends
  <2>4. ClockTypes'
    BY <1>1, <1>6 DEF ClockTypes, Expire, Fault, Goto, Ends
  <2>5. MemoryTypes'
    BY <1>1, <1>6 DEF MemoryTypes, Expire, Fault, Goto, Ends
  <2> QED
    BY <2>1, <2>2, <2>3, <2>4, <2>5, TypeParts
<1>7. ASSUME NEW w \in Workers, Restart(w) PROVE TypeOK'
  <2>1. ApiTypes'
    BY <1>1, <1>7 DEF ApiTypes, Restart, Fault, Goto
  <2>2. LeaseTypes'
    BY <1>1, <1>7 DEF LeaseTypes, Restart, Fault, Goto
  <2>3. PlaceTypes'
    BY <1>1, <1>7 DEF PlaceTypes, Restart, Fault, Goto
  <2>4. ClockTypes'
    BY <1>1, <1>7 DEF ClockTypes, Restart, Fault, Goto
  <2>5. MemoryTypes'
    BY <1>1, <1>7 DEF MemoryTypes, Restart, Fault, Goto
  <2> QED
    BY <2>1, <2>2, <2>3, <2>4, <2>5, TypeParts
<1>8. CASE Push
  <2>1. ApiTypes'
    BY <1>1, <1>8 DEF ApiTypes, Push
  <2>2. LeaseTypes'
    BY <1>1, <1>8 DEF LeaseTypes, Push
  <2>3. PlaceTypes'
    BY <1>1, <1>8 DEF PlaceTypes, Push
  <2>4. ClockTypes'
    BY <1>1, <1>8 DEF ClockTypes, Push
  <2>5. MemoryTypes'
    BY <1>1, <1>8 DEF MemoryTypes, Push
  <2> QED
    BY <2>1, <2>2, <2>3, <2>4, <2>5, TypeParts
<1>9. CASE QueueByHand
  <2>1. ApiTypes'
    BY <1>1, <1>9 DEF ApiTypes, QueueByHand, Commits
  <2>2. LeaseTypes'
    BY <1>1, <1>9 DEF LeaseTypes, QueueByHand, Commits
  <2>3. PlaceTypes'
    BY <1>1, <1>9 DEF PlaceTypes, QueueByHand, Commits
  <2>4. ClockTypes'
    BY <1>1, <1>9 DEF ClockTypes, QueueByHand, Commits
  <2>5. MemoryTypes'
    BY <1>1, <1>9 DEF MemoryTypes, QueueByHand, Commits
  <2> QED
    BY <2>1, <2>2, <2>3, <2>4, <2>5, TypeParts
<1>10. CASE DeployPromotes \/ DeployEnds
  <2>1. ApiTypes'
    BY <1>1, <1>10 DEF ApiTypes, DeployPromotes, DeployEnds, Active, Commits
  <2>2. LeaseTypes'
    BY <1>1, <1>10 DEF LeaseTypes, DeployPromotes, DeployEnds, Active, Commits
  <2>3. PlaceTypes'
    BY <1>1, <1>10 DEF PlaceTypes, DeployPromotes, DeployEnds, Active, Commits
  <2>4. ClockTypes'
    BY <1>1, <1>10 DEF ClockTypes, DeployPromotes, DeployEnds, Active, Commits
  <2>5. MemoryTypes'
    BY <1>1, <1>10 DEF MemoryTypes, DeployPromotes, DeployEnds, Active, Commits
  <2> QED
    BY <2>1, <2>2, <2>3, <2>4, <2>5, TypeParts
<1>11. CASE Tick
  <2>1. ApiTypes'
    BY <1>1, <1>11 DEF ApiTypes, Tick, Less, InTime
  <2>2. LeaseTypes'
    BY <1>1, <1>11 DEF LeaseTypes, Tick, Less, InTime
  <2>3. PlaceTypes'
    BY <1>1, <1>11 DEF PlaceTypes, Tick, Less, InTime
  <2>4. ClockTypes'
    BY <1>1, <1>11 DEF ClockTypes, Tick, Less, InTime
  <2>5. MemoryTypes'
    BY <1>1, <1>11 DEF MemoryTypes, Tick, Less, InTime
  <2> QED
    BY <2>1, <2>2, <2>3, <2>4, <2>5, TypeParts
<1>12. CASE UNCHANGED vars
  <2>1. ApiTypes'
    BY <1>1, <1>12 DEF ApiTypes, vars
  <2>2. LeaseTypes'
    BY <1>1, <1>12 DEF LeaseTypes, vars
  <2>3. PlaceTypes'
    BY <1>1, <1>12 DEF PlaceTypes, vars
  <2>4. ClockTypes'
    BY <1>1, <1>12 DEF ClockTypes, vars
  <2>5. MemoryTypes'
    BY <1>1, <1>12 DEF MemoryTypes, vars
  <2> QED
    BY <2>1, <2>2, <2>3, <2>4, <2>5, TypeParts
<1> QED
  BY <1>2, <1>3, <1>4, <1>5, <1>6, <1>7, <1>8, <1>9, <1>10, <1>11, <1>12 DEF Next, Cycle

\* A cycle's lease ages with the cycle, and no other worker is granted it.
LEMMA LeasedStep ==
  TypeOK /\ TypeOK' /\ Leased /\ [Next]_vars => Leased'
<1> SUFFICES ASSUME TypeOK, TypeOK', Leased, [Next]_vars PROVE Leased'
  OBVIOUS
<1> USE LeaseHeld DEF TypeOK, Leased, lease, cycle, Goto, Ends
<1>1. ASSUME NEW w \in Workers, AcquireLease(w) PROVE Leased'
  <2>1. CASE Granted(w) /\ holder' = w /\ left' = LeaseTTL
    <3>1. \A v \in Workers \ {w} : pc[v] = "waiting"
      BY <2>1 DEF Granted
    <3> QED
      BY <1>1, <2>1, <3>1 DEF AcquireLease
  <2>2. CASE UNCHANGED <<lease, pc>>
    BY <1>1, <2>2 DEF AcquireLease
  <2> QED
    BY <1>1, <2>1, <2>2 DEF AcquireLease
<1>2. ASSUME NEW w \in Workers, ReadDeploys(w) \/ LookUpCommit(w) PROVE Leased'
  BY <1>2 DEF ReadDeploys, LookUpCommit
<1>3. ASSUME NEW w \in Workers, QueueDeploy(w) \/ Expire(w) \/ Restart(w) PROVE Leased'
  BY <1>3 DEF QueueDeploy, Expire, Restart
<1>4. CASE Push \/ QueueByHand \/ DeployPromotes \/ DeployEnds
  BY <1>4 DEF Push, QueueByHand, DeployPromotes, DeployEnds
<1>5. CASE Tick
  BY <1>5 DEF Tick, Less
<1>6. CASE UNCHANGED vars
  BY <1>6 DEF vars
<1> QED
  BY <1>1, <1>2, <1>3, <1>4, <1>5, <1>6 DEF Next, Cycle

\* What monitors create is recorded, and is what the cycle that creates it
\* looked for; the other cycles are not under way meanwhile.
LEMMA CommitsStep ==
  ASSUME IInv, [Next]_vars
  PROVE  MadeIsListed' /\ SeenIsCurrent' /\ FoundIsNew' /\ OnceByMonitors'
<1> USE DEF IInv, TypeOK, api, lease, cycle
<1>1. ASSUME NEW w \in Workers, AcquireLease(w)
      PROVE  MadeIsListed' /\ SeenIsCurrent' /\ FoundIsNew' /\ OnceByMonitors'
  <2>1. MadeIsListed'
    BY <1>1 DEF MadeIsListed, AcquireLease, Goto
  <2>2. SeenIsCurrent'
    BY <1>1 DEF SeenIsCurrent, AcquireLease, Goto
  <2>3. FoundIsNew'
    BY <1>1 DEF FoundIsNew, AcquireLease, Goto
  <2>4. OnceByMonitors'
    BY <1>1 DEF OnceByMonitors, AcquireLease, Goto
  <2> QED
    BY <2>1, <2>2, <2>3, <2>4
<1>2. ASSUME NEW w \in Workers, ReadDeploys(w)
      PROVE  MadeIsListed' /\ SeenIsCurrent' /\ FoundIsNew' /\ OnceByMonitors'
  <2>1. MadeIsListed'
    BY <1>2 DEF MadeIsListed, ReadDeploys, Goto, Ends
  <2>2. SeenIsCurrent'
    BY <1>2 DEF SeenIsCurrent, ReadDeploys, Goto, Ends, MadeIsListed, Known
  <2>3. FoundIsNew'
    BY <1>2 DEF FoundIsNew, ReadDeploys, Goto, Ends
  <2>4. OnceByMonitors'
    BY <1>2 DEF OnceByMonitors, ReadDeploys, Goto, Ends
  <2> QED
    BY <2>1, <2>2, <2>3, <2>4
<1>3. ASSUME NEW w \in Workers, LookUpCommit(w)
      PROVE  MadeIsListed' /\ SeenIsCurrent' /\ FoundIsNew' /\ OnceByMonitors'
  <2>1. MadeIsListed'
    BY <1>3 DEF MadeIsListed, LookUpCommit, Goto, Ends
  <2>2. SeenIsCurrent'
    BY <1>3 DEF SeenIsCurrent, LookUpCommit, Goto, Ends
  <2>3. FoundIsNew'
    <3>1. \A v \in Workers \ {w} : pc'[v] = pc[v] /\ found'[v] = found[v] /\ seen'[v] = seen[v]
      BY <1>3 DEF LookUpCommit, Goto, Ends
    <3>2. UNCHANGED <<tip, made>>
      BY <1>3 DEF LookUpCommit
    <3>3. pc'[w] = "queueing" =>
            tip \in Commits \ seen[w] /\ found'[w] = tip /\ seen'[w] = seen[w]
      BY <1>3 DEF LookUpCommit, Goto, Ends, Commits
    <3> QED
      BY <3>1, <3>2, <3>3 DEF FoundIsNew, MadeIsListed
  <2>4. OnceByMonitors'
    BY <1>3 DEF OnceByMonitors, LookUpCommit, Goto, Ends
  <2> QED
    BY <2>1, <2>2, <2>3, <2>4
<1>4. ASSUME NEW w \in Workers, QueueDeploy(w)
      PROVE  MadeIsListed' /\ SeenIsCurrent' /\ FoundIsNew' /\ OnceByMonitors'
  <2>1. \A v \in Workers : pc'[v] = "waiting"
    <3>1. \A v \in Workers \ {w} : pc[v] = "waiting"
      BY <1>4, LeaseHeld DEF QueueDeploy, AloneInCycle
    <3> QED
      BY <1>4, <3>1 DEF QueueDeploy, Goto, Ends
  <2>2. found[w] \in Commits /\ found[w] <= tip /\ made[found[w]] = 0
    BY <1>4 DEF QueueDeploy, FoundIsNew, SeenIsCurrent
  <2>3. SeenIsCurrent' /\ FoundIsNew'
    BY <2>1 DEF SeenIsCurrent, FoundIsNew
  <2>4. CASE UNCHANGED <<deploys, made>>
    BY <1>4, <2>3, <2>4 DEF QueueDeploy, MadeIsListed, OnceByMonitors
  <2>5. CASE /\ deploys' = [deploys EXCEPT ![found[w]] = "queued"]
             /\ made' = [made EXCEPT ![found[w]] = @ + 1]
    <3>1. MadeIsListed'
      BY <1>4, <2>2, <2>5 DEF QueueDeploy, MadeIsListed
    <3>2. OnceByMonitors'
      BY <2>2, <2>5 DEF OnceByMonitors
    <3> QED
      BY <2>3, <3>1, <3>2
  <2> QED
    BY <1>4, <2>4, <2>5 DEF QueueDeploy, Create
<1>5. ASSUME NEW w \in Workers, Expire(w) \/ Restart(w)
      PROVE  MadeIsListed' /\ SeenIsCurrent' /\ FoundIsNew' /\ OnceByMonitors'
  <2>1. MadeIsListed'
    BY <1>5 DEF MadeIsListed, Expire, Restart, Goto, Ends
  <2>2. SeenIsCurrent'
    BY <1>5 DEF SeenIsCurrent, Expire, Restart, Goto, Ends
  <2>3. FoundIsNew'
    BY <1>5 DEF FoundIsNew, Expire, Restart, Goto, Ends
  <2>4. OnceByMonitors'
    BY <1>5 DEF OnceByMonitors, Expire, Restart, Goto, Ends
  <2> QED
    BY <2>1, <2>2, <2>3, <2>4
<1>6. CASE Push \/ QueueByHand
  <2>1. MadeIsListed'
    <3>1. tip <= tip' /\ tip' \in Nat /\ UNCHANGED made
      BY <1>6 DEF Push, QueueByHand
    <3>2. \A d \in Commits : deploys[d] # "none" => deploys'[d] # "none"
      BY <1>6 DEF Push, QueueByHand
    <3> QED
      BY <3>1, <3>2 DEF MadeIsListed, Commits
  <2>2. SeenIsCurrent'
    BY <1>6 DEF SeenIsCurrent, Push, QueueByHand
  <2>3. FoundIsNew'
    BY <1>6 DEF FoundIsNew, Push, QueueByHand
  <2>4. OnceByMonitors'
    BY <1>6 DEF OnceByMonitors, Push, QueueByHand
  <2> QED
    BY <2>1, <2>2, <2>3, <2>4
<1>7. CASE DeployPromotes \/ DeployEnds
  <2>1. PICK c \in Commits, status \in {"promoting", "ended"} :
          deploys' = [deploys EXCEPT ![c] = status]
    BY <1>7 DEF DeployPromotes, DeployEnds, Active
  <2>2. \A d \in Commits : deploys[d] # "none" => deploys'[d] # "none"
    BY <2>1
  <2>3. UNCHANGED <<tip, made, seen, found, pc>>
    BY <1>7 DEF DeployPromotes, DeployEnds
  <2> QED
    BY <2>2, <2>3 DEF MadeIsListed, SeenIsCurrent, FoundIsNew, OnceByMonitors
<1>8. CASE Tick
  <2>1. MadeIsListed'
    BY <1>8 DEF MadeIsListed, Tick
  <2>2. SeenIsCurrent'
    BY <1>8 DEF SeenIsCurrent, Tick
  <2>3. FoundIsNew'
    BY <1>8 DEF FoundIsNew, Tick
  <2>4. OnceByMonitors'
    BY <1>8 DEF OnceByMonitors, Tick
  <2> QED
    BY <2>1, <2>2, <2>3, <2>4
<1>9. CASE UNCHANGED vars
  BY <1>9 DEF vars, MadeIsListed, SeenIsCurrent, FoundIsNew, OnceByMonitors
<1> QED
  BY <1>1, <1>2, <1>3, <1>4, <1>5, <1>6, <1>7, <1>8, <1>9 DEF Next, Cycle

-----------------------------------------------------------------------------
\* The inductive invariant holds throughout: the lease covers every cycle and
\* what a cycle has read stays valid until it queues.
THEOREM Inductive == Spec => []IInv
<1>1. Init => IInv
  BY DEF Init, IInv, TypeOK, Leased, MadeIsListed, SeenIsCurrent, FoundIsNew,
         OnceByMonitors, Commits
<1>2. IInv /\ [Next]_vars => IInv'
  BY TypeStep, LeasedStep, CommitsStep DEF IInv
<1> QED
  BY <1>1, <1>2, PTL DEF Spec

\* The types of AutoDeploy's state, the bounds of its clocks included
\* (a cycle never outlives its timeout, RunAutoDeployMonitor).
THEOREM TypeCorrect == Spec => []TypeOK
<1>1. IInv => TypeOK
  BY DEF IInv
<1> QED
  BY <1>1, Inductive, PTL

\* No two workers are in the part of runAutoDeployCycle that the lease of
\* acquireAutoDeployLease protects.
THEOREM Alone == Spec => []AloneInCycle
<1>1. IInv => AloneInCycle
  BY LeaseHeld DEF IInv
<1> QED
  BY <1>1, Inductive, PTL

\* runAutoDeployCycle creates at most one deploy of a commit, whatever answers
\* are lost and whichever workers restart.
THEOREM Once == Spec => []OnceByMonitors
<1>1. IInv => OnceByMonitors
  BY DEF IInv
<1> QED
  BY <1>1, Inductive, PTL

\* runAutoDeployCycle creates no deploy of a commit after one of a later commit.
THEOREM Forward == Spec => NeverBackwards
<1>1. IInv /\ [Next]_vars => [\A c, d \in Commits : c < d /\ made[d] > 0 => made'[c] = made[c]]_vars
  <2> SUFFICES ASSUME IInv, Next, NEW c \in Commits, NEW d \in Commits, c < d, made[d] > 0
               PROVE  made'[c] = made[c]
    OBVIOUS
  <2>1. ASSUME NEW w \in Workers, QueueDeploy(w) PROVE made'[c] = made[c]
    <3>1. d <= found[w] /\ found[w] \in Commits
      BY <2>1 DEF QueueDeploy, IInv, FoundIsNew
    <3>2. found[w] # c
      BY <3>1 DEF Commits
    <3> QED
      BY <2>1, <3>1, <3>2 DEF QueueDeploy, Create, IInv, TypeOK
  <2>2. CASE UNCHANGED made
    BY <2>2
  <2> QED
    BY <2>1, <2>2 DEF Next, Cycle, AcquireLease, ReadDeploys, LookUpCommit, Expire, Restart,
         Push, QueueByHand, DeployPromotes, DeployEnds, Tick, api
<1> QED
  BY <1>1, Inductive, PTL DEF Spec, NeverBackwards
=============================================================================
