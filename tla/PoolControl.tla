---------------------------- MODULE PoolControl ----------------------------
(***************************************************************************)
(* The maintenance and drain switch of a worker pool, cached by the worker *)
(* (workers_pool_control.go) and asked for by the consumer before it takes *)
(* a delivery and by the poller before it begins a cycle.  The cache's     *)
(* mutex is free while the API is asked: two answers may be stored in      *)
(* either order, and an answer that took its time is stored as new.        *)
(***************************************************************************)
EXTENDS Naturals

CONSTANTS
  Getters,      \* the goroutines of the consumer and of the poller
  TTL,          \* poolControlCacheTTL, in ticks
  FetchTimeout  \* http.Client.Timeout, in the same ticks

ASSUME PoolAssumption == {TTL, FetchTimeout} \subseteq Nat /\ TTL > 0

VARIABLES
  blocked,     \* the API: maintenance or drain of the pool is enabled
  settled,     \* history: ticks since that changed last, up to Patience
  cache,       \* the value, whether there is one, and the ticks since loadedAt
  getter       \* what each goroutine is doing

poolVars == <<blocked, settled, cache, getter>>

\* How long a control may still count after the API has replaced it.
Patience == TTL + FetchTimeout

\* "asking": the request has not reached the API; "answered": the answer is on
\* its way, for age ticks; "claiming": the delivery or the cycle is let through.
Getting == [phase : {"waiting", "asking", "answered", "claiming"},
            blocks : BOOLEAN, age : 0..FetchTimeout]

PoolTypeOK ==
  /\ blocked \in BOOLEAN
  /\ settled \in 0..Patience
  /\ cache \in [has : BOOLEAN, blocks : BOOLEAN, age : 0..TTL]
  /\ getter \in [Getters -> Getting]

Waiting == [phase |-> "waiting", blocks |-> FALSE, age |-> 0]
NoCache == [has |-> FALSE, blocks |-> FALSE, age |-> TTL]

PoolInit ==
  /\ blocked \in BOOLEAN /\ settled = 0
  /\ cache = NoCache
  /\ getter = [g \in Getters |-> Waiting]

\* workerPoolBlocksClaims of what get returned: refuse and wait, or go on.
Decide(g, blocks) ==
  getter' = [getter EXCEPT ![g] = [Waiting EXCEPT !.phase = IF blocks THEN "waiting" ELSE "claiming"]]

-----------------------------------------------------------------------------
(* workerPoolControlCache.get                                              *)

Fresh == cache.has /\ cache.age < TTL

\* Seeded: a hit counts as a load.
HitRenewing(g) ==
  /\ getter[g].phase = "waiting" /\ Fresh
  /\ Decide(g, cache.blocks)
  /\ cache' = [cache EXCEPT !.age = 0]
  /\ UNCHANGED <<blocked, settled>>

Hit(g) ==
  /\ getter[g].phase = "waiting" /\ Fresh
  /\ Decide(g, cache.blocks)
  /\ UNCHANGED <<blocked, settled, cache>>

Ask(g) ==
  /\ getter[g].phase = "waiting" /\ ~Fresh
  /\ getter' = [getter EXCEPT ![g].phase = "asking"]
  /\ UNCHANGED <<blocked, settled, cache>>

\* The API's answer speaks of this moment.
Answer(g) ==
  /\ getter[g].phase = "asking"
  /\ getter' = [getter EXCEPT ![g] = [phase |-> "answered", blocks |-> blocked, age |-> 0]]
  /\ UNCHANGED <<blocked, settled, cache>>

Store(g) ==
  /\ getter[g].phase = "answered"
  /\ cache' = [has |-> TRUE, blocks |-> getter[g].blocks, age |-> 0]
  /\ Decide(g, getter[g].blocks)
  /\ UNCHANGED <<blocked, settled>>

\* The request failed or timed out: the cached value, however old, and without
\* one the error, on which both callers go on.
FallBack(g) ==
  /\ getter[g].phase \in {"asking", "answered"}
  /\ Decide(g, cache.has /\ cache.blocks)
  /\ UNCHANGED <<blocked, settled, cache>>

\* The delivery is settled, the cycle is over.
Claimed(g) ==
  /\ getter[g].phase = "claiming"
  /\ getter' = [getter EXCEPT ![g] = Waiting]
  /\ UNCHANGED <<blocked, settled, cache>>

-----------------------------------------------------------------------------
(* The API and the clock.                                                  *)

PoolChanges ==
  /\ blocked' = ~blocked /\ settled' = 0
  /\ UNCHANGED <<cache, getter>>

\* Seeded: a client that waits for as long as it takes.
TickUntimed ==
  /\ settled' = IF settled < Patience THEN settled + 1 ELSE settled
  /\ cache' = [cache EXCEPT !.age = IF @ < TTL THEN @ + 1 ELSE @]
  /\ getter' = [g \in Getters |->
       IF getter[g].phase = "answered" THEN [getter[g] EXCEPT !.age = @ + 1] ELSE getter[g]]
  /\ UNCHANGED blocked

\* A client gives up before its answer is older than FetchTimeout.
Tick ==
  /\ \A g \in Getters : getter[g].phase = "answered" => getter[g].age < FetchTimeout
  /\ settled' = IF settled < Patience THEN settled + 1 ELSE settled
  /\ cache' = [cache EXCEPT !.age = IF @ < TTL THEN @ + 1 ELSE @]
  /\ getter' = [g \in Getters |->
       IF getter[g].phase = "answered" THEN [getter[g] EXCEPT !.age = @ + 1] ELSE getter[g]]
  /\ UNCHANGED blocked
=============================================================================
