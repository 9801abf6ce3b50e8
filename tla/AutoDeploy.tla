----------------------------- MODULE AutoDeploy -----------------------------
(***************************************************************************)
(* Auto deploy: the monitors of the workers of one environment watch the   *)
(* branch of ONE service and queue a deploy of its latest commit.          *)
(*                                                                         *)
(* A lease of the API lets one worker at a time run a cycle.  The cycle    *)
(* reads the deploys, then the latest commit, and then queues: what it     *)
(* read may be old by then.  What a worker remembers of earlier cycles     *)
(* (recently queued commits, cooldowns) is lost when it restarts.          *)
(*                                                                         *)
(* A tick of the clock is one interval of the monitor's loop, in which a   *)
(* worker starts one cycle; the cycle's timeout bounds the ticks it spans. *)
(* Commits are numbered in the order they are pushed.                      *)
(***************************************************************************)
EXTENDS Naturals, FiniteSets

CONSTANTS
  Workers,      \* workers of the environment, with identities of their own
  Nobody,       \* no holder of the lease
  MaxCommit,    \* bound: commits pushed
  LeaseTTL,     \* ticks the lease lasts
  CycleTime,    \* ticks a cycle may span
  Cooldown,     \* ticks a service is left alone after an error
  RecentTTL,    \* ticks a queued commit is remembered
  MaxManual,    \* bound: deploys queued by operators
  MaxFaults     \* bound: failed requests and restarts

\* A lease outlasts a cycle: resolveAutoDeployLeaseTTL gives it two intervals
\* and more, resolveMaintenanceCycleTimeout gives a cycle three quarters of one.
ASSUME ConstantsAssumption ==
  /\ Nobody \notin Workers
  /\ {MaxCommit, LeaseTTL, CycleTime, Cooldown, RecentTTL, MaxManual, MaxFaults} \subseteq Nat
  /\ CycleTime < LeaseTTL

Commits == 1..MaxCommit

VARIABLES
  tip,        \* latest commit of the branch, 0 before the first
  deploys,    \* deploys[c]: "none", "queued" (or being prepared or applied),
              \* "promoting" (or being validated), or "ended" (API)
  made,       \* made[c]: deploys of c that monitors have created (history)
  holder,     \* holder of the lease (API)
  left,       \* ticks until it runs out
  pc,         \* pc[w]: where w is in its cycle
  seen,       \* seen[w]: commits with a deploy, as w read them
  found,      \* found[w]: the commit w is about to queue
  recent,     \* recent[w][c]: ticks that w remembers having queued c
  cooldown,   \* cooldown[w]: ticks that w leaves the service alone
  spent,      \* spent[w]: ticks in w's cycle
  due,        \* due[w]: w has not started a cycle since the last tick
  manual,     \* deploys queued by operators so far
  faults      \* failed requests and restarts so far

api    == <<tip, deploys, made, manual>>
lease  == <<holder, left>>
cycle  == <<pc, seen, found, spent, due>>
memory == <<recent, cooldown>>
vars   == <<api, lease, cycle, memory, faults>>

TypeOK ==
  /\ tip \in 0..MaxCommit
  /\ deploys \in [Commits -> {"none", "queued", "promoting", "ended"}]
  /\ made \in [Commits -> Nat]
  /\ holder \in Workers \cup {Nobody} /\ left \in 0..LeaseTTL
  /\ pc \in [Workers -> {"waiting", "reading", "looking", "queueing"}]
  /\ seen \in [Workers -> SUBSET Commits] /\ found \in [Workers -> 0..MaxCommit]
  /\ recent \in [Workers -> [Commits -> 0..RecentTTL]]
  /\ cooldown \in [Workers -> 0..Cooldown]
  /\ spent \in [Workers -> 0..CycleTime] /\ due \in [Workers -> BOOLEAN]
  /\ manual \in 0..MaxManual /\ faults \in 0..MaxFaults

Init ==
  /\ tip = 0
  /\ deploys = [c \in Commits |-> "none"] /\ made = [c \in Commits |-> 0]
  /\ holder = Nobody /\ left = 0
  /\ pc = [w \in Workers |-> "waiting"]
  /\ seen = [w \in Workers |-> {}] /\ found = [w \in Workers |-> 0]
  /\ recent = [w \in Workers |-> [c \in Commits |-> 0]]
  /\ cooldown = [w \in Workers |-> 0]
  /\ spent = [w \in Workers |-> 0] /\ due = [w \in Workers |-> TRUE]
  /\ manual = 0 /\ faults = 0

-----------------------------------------------------------------------------
(* Guards and clocks.                                                      *)

\* Seeded: a deploy that has ended blocks like one that has not.
BlocksForever(status) == status # "none"
\* isAutoDeployBlockingStatus: the later phases of a deploy are not listed.
Blocks(status) == status = "queued"

\* Seeded: only deploys that are still active count as known.
KnownWhileActive == {c \in Commits : deploys[c] \in {"queued", "promoting"}}
\* buildAutoDeployStates: the commits of all deploys, whatever became of them.
Known == {c \in Commits : deploys[c] # "none"}

\* Seeded: a cycle has no timeout.
Untimed(w) == TRUE
\* A tick finds w between two cycles or in one whose time is not up.
InTime(w) == pc[w] = "waiting" \/ spent[w] < CycleTime

\* Seeded: any worker is granted the lease.
AlwaysGranted(w) == TRUE
\* Terms of the lease: the holder may renew it, others wait until it runs out.
Granted(w) == holder = w \/ left = 0

\* Times to come are counted from the start of the cycle.
FromStart(w, ttl) == IF ttl > spent[w] THEN ttl - spent[w] ELSE 0

Fault   == faults < MaxFaults /\ faults' = faults + 1
NoFault == UNCHANGED faults

Goto(w, place) == pc' = [pc EXCEPT ![w] = place]
Ends(w) == Goto(w, "waiting") /\ UNCHANGED <<seen, found, spent, due>>

-----------------------------------------------------------------------------
(* A cycle: runAutoDeployCycle.                                            *)

\* acquireAutoDeployLease; an answer may be lost although the API granted it.
AcquireLease(w) ==
  /\ pc[w] = "waiting" /\ due[w]
  /\ due' = [due EXCEPT ![w] = FALSE] /\ spent' = [spent EXCEPT ![w] = 0]
  /\ \/ /\ Granted(w) /\ holder' = w /\ left' = LeaseTTL
        /\ \/ Goto(w, "reading") /\ NoFault
           \/ UNCHANGED pc /\ Fault
     \/ ~Granted(w) /\ UNCHANGED <<lease, pc>> /\ NoFault
     \/ UNCHANGED <<lease, pc>> /\ Fault
  /\ UNCHANGED <<api, memory, seen, found>>

\* fetchDeploySnapshots, buildAutoDeployStates and the guards on them.
ReadDeploys(w) ==
  /\ pc[w] = "reading"
  /\ \/ /\ NoFault
        /\ seen' = [seen EXCEPT ![w] = Known]
        /\ Goto(w, IF (\E c \in Commits : Blocks(deploys[c])) \/ cooldown[w] > 0
                   THEN "waiting" ELSE "looking")
        /\ UNCHANGED <<found, spent, due>>
     \/ Fault /\ Ends(w)
  /\ UNCHANGED <<api, lease, memory>>

\* fetchLatestServiceCommit and the guards on the commit.
LookUpCommit(w) ==
  /\ pc[w] = "looking"
  /\ \/ /\ NoFault
        /\ found' = [found EXCEPT ![w] = tip]
        /\ Goto(w, IF tip = 0 \/ tip \in seen[w] THEN "waiting"
                   ELSE IF recent[w][tip] > 0 THEN "waiting" ELSE "queueing")
        /\ cooldown' = [cooldown EXCEPT ![w] = 0]
        /\ UNCHANGED <<seen, spent, due>>
     \/ Fault /\ Ends(w) /\ cooldown' = [cooldown EXCEPT ![w] = FromStart(w, Cooldown)]
  /\ UNCHANGED <<api, lease, recent>>

\* The API's answer to a deploy request: it creates a deploy unless one is active.
Active    == {c \in Commits : deploys[c] \in {"queued", "promoting"}}
Idle      == Active = {}
Create(c) == IF Idle
             THEN /\ deploys' = [deploys EXCEPT ![c] = "queued"]
                  /\ made' = [made EXCEPT ![c] = @ + 1]
             ELSE UNCHANGED <<deploys, made>>

\* queueAutoDeploy: an answer with the commit asked for means that it is queued,
\* another one that an active deploy blocks it; an error starts a cooldown.
QueueDeploy(w) ==
  /\ pc[w] = "queueing" /\ Ends(w)
  /\ \/ /\ NoFault /\ Create(found[w])
        /\ recent' = IF Idle \/ found[w] \in Active
                     THEN [recent EXCEPT ![w][found[w]] = FromStart(w, RecentTTL)] ELSE recent
        /\ UNCHANGED cooldown
     \/ /\ Fault /\ (Create(found[w]) \/ UNCHANGED <<deploys, made>>)
        /\ cooldown' = [cooldown EXCEPT ![w] = FromStart(w, Cooldown)]
        /\ UNCHANGED recent
  /\ UNCHANGED <<tip, manual, lease>>

Cycle(w) == AcquireLease(w) \/ ReadDeploys(w) \/ LookUpCommit(w) \/ QueueDeploy(w)

\* The cycle's context is done.
Expire(w) ==
  /\ pc[w] # "waiting" /\ Fault /\ Ends(w)
  /\ UNCHANGED <<api, lease, memory>>

\* The worker restarts and starts a cycle at once.
Restart(w) ==
  /\ Fault /\ Goto(w, "waiting")
  /\ due' = [due EXCEPT ![w] = TRUE] /\ spent' = [spent EXCEPT ![w] = 0]
  /\ recent' = [recent EXCEPT ![w] = [c \in Commits |-> 0]]
  /\ cooldown' = [cooldown EXCEPT ![w] = 0]
  /\ UNCHANGED <<api, lease, seen, found>>

-----------------------------------------------------------------------------
(* The repository, the operators, the deploys and the clock (external).    *)

Push ==
  /\ tip < MaxCommit /\ tip' = tip + 1
  /\ UNCHANGED <<deploys, made, manual, lease, cycle, memory, faults>>

QueueByHand ==
  /\ Idle /\ manual < MaxManual /\ manual' = manual + 1
  /\ \E c \in 1..tip : deploys' = [deploys EXCEPT ![c] = "queued"]
  /\ UNCHANGED <<tip, made, lease, cycle, memory, faults>>

DeployPromotes ==
  /\ \E c \in Commits : deploys[c] = "queued" /\ deploys' = [deploys EXCEPT ![c] = "promoting"]
  /\ UNCHANGED <<tip, made, manual, lease, cycle, memory, faults>>

DeployEnds ==
  /\ \E c \in Active : deploys' = [deploys EXCEPT ![c] = "ended"]
  /\ UNCHANGED <<tip, made, manual, lease, cycle, memory, faults>>

Less(n) == IF n > 0 THEN n - 1 ELSE 0

Tick ==
  /\ \A w \in Workers : ~due[w] /\ InTime(w)
  /\ left' = Less(left)
  /\ recent' = [w \in Workers |-> [c \in Commits |-> Less(recent[w][c])]]
  /\ cooldown' = [w \in Workers |-> Less(cooldown[w])]
  /\ spent' = [w \in Workers |-> IF pc[w] = "waiting" THEN 0 ELSE spent[w] + 1]
  /\ due' = [w \in Workers |-> pc[w] = "waiting"]
  /\ UNCHANGED <<api, holder, pc, seen, found, faults>>

Next ==
  \/ \E w \in Workers : Cycle(w) \/ Expire(w) \/ Restart(w)
  \/ Push \/ QueueByHand \/ DeployPromotes \/ DeployEnds \/ Tick

Spec == Init /\ [][Next]_vars

\* The monitors' loops run, deploys end and time passes.
FairSpec ==
  /\ Spec
  /\ \A w \in Workers : WF_vars(Cycle(w))
  /\ WF_vars(DeployEnds) /\ WF_vars(Tick)

-----------------------------------------------------------------------------
(* Properties.                                                             *)

\* The lease outlives the cycle it was taken for: no two workers are in the part
\* of the cycle it protects, whoever restarts or is late.
AloneInCycle ==
  \A v, w \in Workers : pc[v] # "waiting" /\ pc[w] # "waiting" => v = w

\* Monitors create at most one deploy of a commit, although the list of deploys,
\* the commit and the request are read and made one after the other, answers get
\* lost, and what a worker remembers does not survive its restart.
OnceByMonitors == \A c \in Commits : made[c] <= 1

\* Monitors never create a deploy of a commit after one of a later commit.
NeverBackwards ==
  [][\A c, d \in Commits : c < d /\ made[d] > 0 => made'[c] = made[c]]_vars

\* The last commit pushed gets a deploy, in spite of lost answers, cooldowns and
\* deploys that block it, whoever holds the lease.
TipGetsDeployed == (tip = MaxCommit) ~> (deploys[MaxCommit] # "none")
=============================================================================
