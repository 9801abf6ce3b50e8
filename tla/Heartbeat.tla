----------------------------- MODULE Heartbeat -----------------------------
(***************************************************************************)
(* The inventory in the worker's heartbeats                                *)
(* (workers_heartbeat_send.go).  The workloads found in the cluster are    *)
(* sent in full when their hash is not the one remembered, and as          *)
(* "unchanged" otherwise; the hash is remembered when the heartbeat is     *)
(* built, not when it has arrived.  A number stands for an inventory and   *)
(* for its hash, and 0 for none.                                           *)
(***************************************************************************)
EXTENDS Naturals

CONSTANT MaxInventory   \* bound: inventories the cluster may have

ASSUME HeartbeatAssumption == MaxInventory \in Nat \ {0}

VARIABLES
  inventory,  \* what DiscoverWorkloads finds
  lastHash,   \* deltaState.lastDiscoveredWorkloadsHash
  beat,       \* the heartbeat being sent
  late,       \* inventories of full heartbeats given up and still on their way
  view,       \* the inventory the API has
  missed      \* history: a full heartbeat was not answered

beatVars == <<inventory, lastHash, beat, late, view, missed>>

Inventories == 1..MaxInventory

\* A heartbeat carries an inventory, its hash, or, if discovery failed, neither.
Beats == [mode : {"full", "unchanged"}, hash : Inventories] \union [mode : {"idle", "none"}, hash : {0}]

BeatTypeOK ==
  /\ inventory \in Inventories
  /\ lastHash \in 0..MaxInventory
  /\ beat \in Beats
  /\ late \subseteq Inventories
  /\ view \in 0..MaxInventory
  /\ missed \in BOOLEAN

NoBeat == [mode |-> "idle", hash |-> 0]

BeatInit ==
  /\ inventory \in Inventories /\ lastHash = 0 /\ beat = NoBeat
  /\ late = {} /\ view = 0 /\ missed = FALSE

Idle == beat.mode = "idle"

ClusterChanges ==
  /\ inventory' \in Inventories \ {inventory}
  /\ UNCHANGED <<lastHash, beat, late, view, missed>>

\* Seeded: only the first hash is remembered.
RememberFirst(hash) == IF lastHash = 0 THEN hash ELSE lastHash

\* nextDiscoveredWorkloadHeartbeat: the hash remembered, whatever it was.
Remember(hash) == hash

\* buildHeartbeatPayload
BeatBegins ==
  /\ Idle
  /\ beat' = [mode |-> IF lastHash # inventory THEN "full" ELSE "unchanged", hash |-> inventory]
  /\ lastHash' = Remember(inventory)
  /\ UNCHANGED <<inventory, late, view, missed>>

BeatWithoutDiscovery ==
  /\ Idle
  /\ beat' = [mode |-> "none", hash |-> 0]
  /\ UNCHANGED <<inventory, lastHash, late, view, missed>>

\* The API takes an inventory that is sent in full; of the others it is only
\* told (external).
Seen == IF beat.mode = "full" THEN beat.hash ELSE view

BeatArrives ==
  /\ ~Idle
  /\ beat' = NoBeat /\ view' = Seen
  /\ UNCHANGED <<inventory, lastHash, late, missed>>

\* No answer: lost on the way, on the way back, or given up too early.  The
\* loop logs the error and does nothing about it.
BeatFails ==
  /\ ~Idle
  /\ beat' = NoBeat /\ missed' = (missed \/ beat.mode = "full")
  /\ \/ UNCHANGED <<late, view>>
     \/ view' = Seen /\ UNCHANGED late
     \/ beat.mode = "full" /\ late' = late \union {beat.hash} /\ UNCHANGED view
  /\ UNCHANGED <<inventory, lastHash>>

BeatArrivesLate ==
  /\ view' \in late /\ late' = late \ {view'}
  /\ UNCHANGED <<inventory, lastHash, beat, missed>>

\* The process is restarted: nothing is remembered of what was sent.
BeatForgotten ==
  /\ lastHash' = 0 /\ beat' = NoBeat
  /\ missed' = (missed \/ beat.mode = "full")
  /\ UNCHANGED <<inventory, late, view>>
=============================================================================
