---------------------------- MODULE WorkerLoops ----------------------------
(***************************************************************************)
(* The loops of one worker process and what they keep in memory (Run): the *)
(* switch the consumer and the poller ask before they claim (PoolControl)  *)
(* and the inventory of the heartbeats (Heartbeat).  A restart of the      *)
(* process forgets both.                                                   *)
(***************************************************************************)
EXTENDS PoolControl, Heartbeat

vars == <<poolVars, beatVars>>

TypeOK == PoolTypeOK /\ BeatTypeOK

Init == PoolInit /\ BeatInit

\* Where the consumer and the poller go on to claim.
Asked(g) == Hit(g) \/ Store(g)

Loop(g) ==
  /\ Ask(g) \/ Answer(g) \/ Asked(g) \/ FallBack(g) \/ Claimed(g)
  /\ UNCHANGED beatVars

HeartbeatLoop ==
  /\ BeatBegins \/ BeatWithoutDiscovery \/ BeatArrives \/ BeatFails
  /\ UNCHANGED poolVars

Environment ==
  \/ (PoolChanges \/ Tick) /\ UNCHANGED beatVars
  \/ (ClusterChanges \/ BeatArrivesLate) /\ UNCHANGED poolVars

Restart ==
  /\ cache' = NoCache
  /\ getter' = [g \in Getters |-> Waiting]
  /\ BeatForgotten
  /\ UNCHANGED <<blocked, settled>>

Next ==
  \/ \E g \in Getters : Loop(g)
  \/ HeartbeatLoop
  \/ Environment
  \/ Restart

Spec == Init /\ [][Next]_vars

-----------------------------------------------------------------------------
(* What must hold.                                                         *)

\* Whether a goroutine goes on to claim or refuses, what it acts on by a cached
\* or a fetched control is what the API says, or said less than a time to live
\* and a request's timeout ago, in whatever order the two goroutines store what
\* they were told: a late answer may overwrite a newer one, but not for longer
\* (workerPoolControlCache.get).
ControlIsRecent ==
  [][\A g \in Getters :
       Asked(g) /\ settled = Patience => (getter'[g].phase = "claiming") = ~blocked]_vars

\* A heartbeat that says "unchanged" speaks of the inventory the API has, as
\* long as every full one was answered, also across restarts and failed
\* discoveries and when an inventory comes back
\* (nextDiscoveredWorkloadHeartbeat).
UnchangedIsTrue == beat.mode = "unchanged" /\ ~missed => beat.hash = view
=============================================================================
