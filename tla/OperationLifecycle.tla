------------------------- MODULE OperationLifecycle -------------------------
(***************************************************************************)
(* How the workers of a pool carry operations from "queued" to a verdict.  *)
(*                                                                         *)
(* Every worker process runs, among others, three goroutines that write    *)
(* the status of operations:                                               *)
(*   - the consumer, fed by the broker one unacknowledged message at a     *)
(*     time (workers_queue_consume.go);                                    *)
(*   - the poller, which asks the API to recover stale claims and then     *)
(*     works through a snapshot of the queued operations                   *)
(*     (workers_queue_poll_operations.go);                                 *)
(*   - the curator, which settles deploys that look ready or dead without  *)
(*     holding their claim (maintenance_operations_curate.go).             *)
(* Consumer and poller share processOperation: claim, execute under a      *)
(* heartbeat that renews the claim, publish the verdict                    *)
(* (workers_operation_process.go).                                         *)
(*                                                                         *)
(* The API and the broker are external: they are modelled from the         *)
(* requests api_client.go and workers_queue_consume.go make of them.       *)
(* Reports on the deploy record ("retrying", "failed") are best effort,    *)
(* nothing here reads them, and they are not part of this module.          *)
(***************************************************************************)
EXTENDS Naturals, FiniteSets

CONSTANTS
  Workers,          \* worker identities (token, WORKER_ID)
  Ops,              \* operations
  NoWorker, NoOp,   \* "none"
  Compatible,       \* pairs <<w, o>> accepted by operationCompatibleWithWorker
  Curated,          \* operations of the kinds the curator lists
  Retryable,        \* operations isRetryableOperation accepts
  MaxAttempts,      \* WORKER_DEPLOY_RETRY_MAX_ATTEMPTS
  PollLimit,        \* WORKER_POLL_LIMIT
  OwnerOnlyVerdict, \* does the API take a verdict from the claim's owner only?
  MaxFaults         \* bound: faults of the environment in one behaviour

ASSUME ConstantsAssumption ==
  /\ NoWorker \notin Workers
  /\ NoOp \notin Ops
  /\ Compatible \subseteq Workers \X Ops
  /\ Curated \subseteq Ops
  /\ Retryable \subseteq Ops
  /\ MaxAttempts \in Nat \ {0}
  /\ PollLimit \in Nat \ {0}
  /\ OwnerOnlyVerdict \in BOOLEAN
  /\ MaxFaults \in Nat

VARIABLES
  \* the API's operation records
  status,    \* status[o]
  owner,     \* owner[o]: the worker whose claim the API recorded, or NoWorker
  live,      \* live[o]: the claim's lease has not run out
  epoch,     \* epoch[o]: how often recovery has put o back in the queue
  \* the broker: where the message of an operation is
  ready,     \* in the queue
  acked,     \* acknowledged
  dead,      \* rejected: in the dead-letter queue, or dropped if there is none
  cut,       \* workers whose channel closed under the delivery they work on
  \* the consumer and the poller of each worker
  pc,        \* pc[x]: where goroutine x is
  cur,       \* cur[x]: the operation processOperation is working on
  attempt,   \* attempt[x]: attempt number in executeWithRetry
  lost,      \* lost[x]: a renewal failed, the execution context is cancelled
  verdict,   \* verdict[x]: the terminal status x is about to publish
  term,      \* term[x]: epoch of the grant x executes under (history)
  batch,     \* batch[w]: what is left of the poller's snapshot
  curating,  \* curating[w]: what is left of the curator's snapshot
  faults,    \* faults of the environment so far
  evidence   \* evidence[o]: verdicts of finished executions (history)

api    == <<status, owner, live, epoch>>
broker == <<ready, acked, dead, cut>>
exec   == <<pc, cur, attempt, lost, verdict, term>>
vars   == <<status, owner, live, epoch, ready, acked, dead, cut, pc, cur, attempt,
            lost, verdict, term, batch, curating, faults, evidence>>

-----------------------------------------------------------------------------
Verdict   == {"succeeded", "failed"}
Status    == {"queued", "in-progress"} \cup Verdict
Executors == Workers \X {"consumer", "poller"}
Consumer(w) == <<w, "consumer">>
Poller(w)   == <<w, "poller">>
Worker(x)   == x[1]

\* pc values in which processOperation holds an operation.
Busy == {"claiming", "executing", "finishing"}
Place == {"idle", "listing", "draining"} \cup Busy

TypeOK ==
  /\ status \in [Ops -> Status]
  /\ owner \in [Ops -> Workers \cup {NoWorker}]
  /\ live \in [Ops -> BOOLEAN]
  /\ epoch \in [Ops -> Nat]
  /\ ready \subseteq Ops /\ acked \subseteq Ops /\ dead \subseteq Ops
  /\ cut \subseteq Workers
  /\ pc \in [Executors -> Place]
  /\ cur \in [Executors -> Ops \cup {NoOp}]
  /\ attempt \in [Executors -> 1..MaxAttempts]
  /\ lost \in [Executors -> BOOLEAN]
  /\ verdict \in [Executors -> Verdict]
  /\ term \in [Executors -> Nat]
  /\ batch \in [Workers -> SUBSET Ops]
  /\ curating \in [Workers -> SUBSET Ops]
  /\ faults \in 0..MaxFaults
  /\ evidence \in [Ops -> SUBSET Verdict]

\* Every operation starts queued; its message may have been published or not
\* (publishing is the API's business, and a worker may run without a broker).
Init ==
  /\ status = [o \in Ops |-> "queued"]
  /\ owner = [o \in Ops |-> NoWorker]
  /\ live = [o \in Ops |-> FALSE]
  /\ epoch = [o \in Ops |-> 0]
  /\ ready \in SUBSET Ops
  /\ acked = {} /\ dead = {} /\ cut = {}
  /\ pc = [x \in Executors |-> "idle"]
  /\ cur = [x \in Executors |-> NoOp]
  /\ attempt = [x \in Executors |-> 1]
  /\ lost = [x \in Executors |-> FALSE]
  /\ verdict = [x \in Executors |-> "failed"]
  /\ term = [x \in Executors |-> 0]
  /\ batch = [w \in Workers |-> {}]
  /\ curating = [w \in Workers |-> {}]
  /\ faults = 0
  /\ evidence = [o \in Ops |-> {}]

\* One fault of the environment is spent.
Fault == faults < MaxFaults /\ faults' = faults + 1

-----------------------------------------------------------------------------
(* The API (external).                                                     *)

\* An "in-progress" update is a claim, and from the owner also a heartbeat:
\* ClaimOperation and RenewOperationClaim send the same request.
ApiGrants(o, w) ==
  \/ status[o] = "queued"
  \/ status[o] = "in-progress" /\ owner[o] = w

RecordGrant(o, w) ==
  /\ status' = [status EXCEPT ![o] = "in-progress"]
  /\ owner' = [owner EXCEPT ![o] = w]
  /\ live' = [live EXCEPT ![o] = TRUE]
  /\ UNCHANGED epoch

ApiTakesVerdict(o, w) ==
  /\ status[o] = "in-progress"
  /\ OwnerOnlyVerdict => owner[o] = w

RecordVerdict(o, v) ==
  /\ status' = [status EXCEPT ![o] = v]
  /\ UNCHANGED <<owner, live, epoch>>

\* Somebody at the owner still renews the claim, or is about to publish.
Tended(o) ==
  \E x \in Executors :
    /\ Worker(x) = owner[o] /\ cur[x] = o
    /\ pc[x] \in {"executing", "finishing"} /\ ~lost[x]

\* The lease of an untended claim runs out; that of a tended one only when
\* renewals come too late, which is a fault: they are sent three times per TTL.
LeaseExpires(o) ==
  /\ status[o] = "in-progress" /\ live[o]
  /\ IF Tended(o) THEN Fault ELSE UNCHANGED faults
  /\ live' = [live EXCEPT ![o] = FALSE]
  /\ UNCHANGED <<status, owner, epoch, broker, exec, batch, curating, evidence>>

-----------------------------------------------------------------------------
(* Leaving processOperation.  The consumer acknowledges the message or     *)
(* rejects it to the dead-letter queue; the poller only logs and goes on   *)
(* with its batch.                                                         *)

\* The goroutine no longer holds an operation.
Released(x) ==
  /\ pc' = [pc EXCEPT ![x] = IF x[2] = "consumer" THEN "idle" ELSE "draining"]
  /\ cur' = [cur EXCEPT ![x] = NoOp]
  /\ lost' = [lost EXCEPT ![x] = FALSE]
  /\ attempt' = [attempt EXCEPT ![x] = 1]
  /\ verdict' = [verdict EXCEPT ![x] = "failed"]
  /\ term' = [term EXCEPT ![x] = 0]

\* The messages x settles when it leaves: that of its delivery, if x is the
\* consumer and its channel is still the one the delivery came on.
Held(x) == IF x[2] = "consumer" /\ Worker(x) \notin cut THEN {cur[x]} ELSE {}

Reconnected(x) == cut' = IF x[2] = "consumer" THEN cut \ {Worker(x)} ELSE cut

ReturnNil(x) ==
  /\ Released(x) /\ Reconnected(x)
  /\ acked' = acked \cup Held(x)
  /\ UNCHANGED <<ready, dead>>

ReturnError(x) ==
  /\ Released(x) /\ Reconnected(x)
  /\ dead' = dead \cup Held(x)
  /\ UNCHANGED <<ready, acked>>

Take(x, o) ==
  /\ pc' = [pc EXCEPT ![x] = "claiming"]
  /\ cur' = [cur EXCEPT ![x] = o]
  /\ UNCHANGED <<attempt, lost, verdict, term>>

-----------------------------------------------------------------------------
(* Consumer: a delivery, up to the decision of processOperation to claim.  *)
(* Three branches of the code put the message back where it was, or leave  *)
(* it there, and change nothing here: a pool in maintenance, an            *)
(* incompatible operation, an idle consumer that reconnects.               *)

\* Seeded bug: a message whose operation could not be fetched is acknowledged.
DeliverFetchFails_Acks(w, o) ==
  /\ pc[Consumer(w)] = "idle" /\ o \in ready
  /\ Fault
  /\ ready' = ready \ {o} /\ acked' = acked \cup {o}
  /\ UNCHANGED <<api, dead, cut, exec, batch, curating, evidence>>

\* FetchOperation fails: the message is rejected without requeue.
DeliverFetchFails(w, o) ==
  /\ pc[Consumer(w)] = "idle" /\ o \in ready
  /\ Fault
  /\ ready' = ready \ {o} /\ dead' = dead \cup {o}
  /\ UNCHANGED <<api, acked, cut, exec, batch, curating, evidence>>

\* The operation is no longer queued: skipped, the message is acknowledged.
DeliverSkip(w, o) ==
  /\ pc[Consumer(w)] = "idle" /\ o \in ready
  /\ status[o] # "queued"
  /\ ready' = ready \ {o} /\ acked' = acked \cup {o}
  /\ UNCHANGED <<api, dead, cut, exec, batch, curating, faults, evidence>>

\* Seeded bug: the queue is consumed with automatic acknowledgement.
Deliver_AutoAck(w, o) ==
  /\ pc[Consumer(w)] = "idle" /\ o \in ready
  /\ status[o] = "queued" /\ <<w, o>> \in Compatible
  /\ ready' = ready \ {o} /\ acked' = acked \cup {o}
  /\ Take(Consumer(w), o)
  /\ UNCHANGED <<api, dead, cut, batch, curating, faults, evidence>>

Deliver(w, o) ==
  /\ pc[Consumer(w)] = "idle" /\ o \in ready
  /\ status[o] = "queued" /\ <<w, o>> \in Compatible
  /\ ready' = ready \ {o}
  /\ Take(Consumer(w), o)
  /\ UNCHANGED <<api, acked, dead, cut, batch, curating, faults, evidence>>

-----------------------------------------------------------------------------
(* Poller: drainQueuedOperations.                                          *)

\* Seeded bug: the poller never asks for recovery.
Stale_Never == {}

Stale == {o \in Ops : status[o] = "in-progress" /\ ~live[o]}

\* RecoverStaleOperationClaims: the API requeues stale claims or writes them
\* off (its answer counts both).
PollRecover(w) ==
  /\ pc[Poller(w)] = "idle"
  /\ \E writtenOff \in SUBSET Stale :
       /\ status' = [o \in Ops |-> IF o \in writtenOff THEN "failed"
                                   ELSE IF o \in Stale THEN "queued" ELSE status[o]]
       /\ evidence' = [o \in Ops |-> IF o \in writtenOff THEN evidence[o] \cup {"failed"}
                                     ELSE evidence[o]]
       /\ epoch' = [o \in Ops |-> IF o \in Stale \ writtenOff THEN epoch[o] + 1
                                  ELSE epoch[o]]
  /\ owner' = [o \in Ops |-> IF o \in Stale THEN NoWorker ELSE owner[o]]
  /\ pc' = [pc EXCEPT ![Poller(w)] = "listing"]
  /\ UNCHANGED <<live, broker, cur, attempt, lost, verdict, term, batch, curating, faults>>

\* FetchQueuedOperations: at most PollLimit of the snapshot will be processed.
PollList(w) ==
  /\ pc[Poller(w)] = "listing"
  /\ LET queued == {o \in Ops : status[o] = "queued"} IN
     \E chosen \in SUBSET queued :
       /\ \/ chosen = queued /\ Cardinality(queued) <= PollLimit
          \/ Cardinality(chosen) = PollLimit
       /\ batch' = [batch EXCEPT ![w] = chosen]
  /\ pc' = [pc EXCEPT ![Poller(w)] = "draining"]
  /\ UNCHANGED <<api, broker, cur, attempt, lost, verdict, term, curating, faults, evidence>>

\* The recovery or the list request fails, whether or not the API acted on it.
PollFails(w) ==
  /\ pc[Poller(w)] = "listing"
  /\ Fault
  /\ pc' = [pc EXCEPT ![Poller(w)] = "idle"]
  /\ UNCHANGED <<api, broker, cur, attempt, lost, verdict, term, batch, curating,
                 evidence>>

\* processOperation sees the snapshot, in which every operation is queued: it
\* does not look at the operation's status again.
PollTake(w, o) ==
  /\ pc[Poller(w)] = "draining" /\ o \in batch[w]
  /\ batch' = [batch EXCEPT ![w] = @ \ {o}]
  /\ IF <<w, o>> \in Compatible THEN Take(Poller(w), o) ELSE UNCHANGED exec
  /\ UNCHANGED <<api, broker, curating, faults, evidence>>

PollDone(w) ==
  /\ pc[Poller(w)] = "draining" /\ batch[w] = {}
  /\ pc' = [pc EXCEPT ![Poller(w)] = "idle"]
  /\ UNCHANGED <<api, broker, cur, attempt, lost, verdict, term, batch, curating,
                 faults, evidence>>

-----------------------------------------------------------------------------
(* processOperation, in the consumer and in the poller.                    *)

ClaimGranted(x) ==
  /\ pc[x] = "claiming"
  /\ ApiGrants(cur[x], Worker(x))
  /\ RecordGrant(cur[x], Worker(x))
  /\ pc' = [pc EXCEPT ![x] = "executing"]
  /\ term' = [term EXCEPT ![x] = epoch[cur[x]]]
  /\ UNCHANGED <<broker, cur, attempt, lost, verdict, batch, curating, faults, evidence>>

\* Seeded bug: a conflicting claim is taken for a granted one.
ClaimConflict_Executes(x) ==
  /\ pc[x] = "claiming"
  /\ ~ApiGrants(cur[x], Worker(x))
  /\ pc' = [pc EXCEPT ![x] = "executing"]
  /\ term' = [term EXCEPT ![x] = epoch[cur[x]]]
  /\ UNCHANGED <<api, broker, cur, attempt, lost, verdict, batch, curating, faults, evidence>>

\* 409: somebody else has it, and that is not an error.
ClaimConflict(x) ==
  /\ pc[x] = "claiming"
  /\ ~ApiGrants(cur[x], Worker(x))
  /\ ReturnNil(x)
  /\ UNCHANGED <<api, batch, curating, faults, evidence>>

\* Any other failure; the API may have recorded the claim all the same.
ClaimFails(x) ==
  /\ pc[x] = "claiming"
  /\ Fault
  /\ \/ UNCHANGED api
     \/ ApiGrants(cur[x], Worker(x)) /\ RecordGrant(cur[x], Worker(x))
  /\ ReturnError(x)
  /\ UNCHANGED <<batch, curating, evidence>>

\* A tick of the claim heartbeat.  The request is the claim's, so on an
\* operation that was requeued meanwhile it takes a new claim.
Renew(x) ==
  /\ pc[x] = "executing" /\ ~lost[x]
  /\ ApiGrants(cur[x], Worker(x))
  /\ RecordGrant(cur[x], Worker(x))
  /\ term' = [term EXCEPT ![x] = epoch[cur[x]]]
  /\ UNCHANGED <<broker, pc, cur, attempt, lost, verdict, batch, curating, faults, evidence>>

\* Whatever made the renewal fail, the claim counts as lost.
RenewFails(x) ==
  /\ pc[x] = "executing" /\ ~lost[x]
  /\ \/ ~ApiGrants(cur[x], Worker(x)) /\ UNCHANGED <<api, faults>>
     \/ Fault /\ UNCHANGED api
     \/ Fault /\ ApiGrants(cur[x], Worker(x)) /\ RecordGrant(cur[x], Worker(x))
  /\ lost' = [lost EXCEPT ![x] = TRUE]
  /\ UNCHANGED <<broker, pc, cur, attempt, verdict, term, batch, curating, evidence>>

\* Seeded bug: one retry too many.
ExecuteRetry_OffByOne(x) ==
  /\ pc[x] = "executing" /\ ~lost[x]
  /\ cur[x] \in Retryable /\ attempt[x] <= MaxAttempts
  /\ attempt' = [attempt EXCEPT ![x] = @ + 1]
  /\ UNCHANGED <<api, broker, pc, cur, lost, verdict, term, batch, curating, faults, evidence>>

\* A transient error of a retryable operation, and the wait before the retry.
ExecuteRetry(x) ==
  /\ pc[x] = "executing" /\ ~lost[x]
  /\ cur[x] \in Retryable /\ attempt[x] < MaxAttempts
  /\ attempt' = [attempt EXCEPT ![x] = @ + 1]
  /\ UNCHANGED <<api, broker, pc, cur, lost, verdict, term, batch, curating, faults, evidence>>

\* Seeded bug: the error of the last attempt is dropped.
ExecuteEnds_DropsError(x, v) ==
  /\ pc[x] = "executing" /\ ~lost[x]
  /\ pc' = [pc EXCEPT ![x] = "finishing"]
  /\ verdict' = [verdict EXCEPT ![x] = "succeeded"]
  /\ evidence' = [evidence EXCEPT ![cur[x]] = @ \cup {v}]
  /\ UNCHANGED <<api, broker, cur, attempt, lost, term, batch, curating, faults>>

\* The last attempt ends, in success or with the error that stands.
ExecuteEnds(x, v) ==
  /\ pc[x] = "executing" /\ ~lost[x]
  /\ pc' = [pc EXCEPT ![x] = "finishing"]
  /\ verdict' = [verdict EXCEPT ![x] = v]
  /\ evidence' = [evidence EXCEPT ![cur[x]] = @ \cup {v}]
  /\ UNCHANGED <<api, broker, cur, attempt, lost, term, batch, curating, faults>>

\* Seeded bug: an execution that ended well is reported in spite of its claim.
ExecuteAbandoned_Reports(x) ==
  /\ pc[x] = "executing" /\ lost[x]
  /\ pc' = [pc EXCEPT ![x] = "finishing"]
  /\ verdict' = [verdict EXCEPT ![x] = "succeeded"]
  /\ UNCHANGED <<api, broker, cur, attempt, lost, term, batch, curating, faults, evidence>>

\* The heartbeat failed: however the execution ended, nothing is published.
ExecuteAbandoned(x) ==
  /\ pc[x] = "executing" /\ lost[x]
  /\ ReturnError(x)
  /\ UNCHANGED <<api, batch, curating, faults, evidence>>

FinishAccepted(x) ==
  /\ pc[x] = "finishing"
  /\ ApiTakesVerdict(cur[x], Worker(x))
  /\ RecordVerdict(cur[x], verdict[x])
  /\ ReturnNil(x)
  /\ UNCHANGED <<batch, curating, faults, evidence>>

FinishConflict(x) ==
  /\ pc[x] = "finishing"
  /\ ~ApiTakesVerdict(cur[x], Worker(x))
  /\ ReturnNil(x)
  /\ UNCHANGED <<api, batch, curating, faults, evidence>>

FinishFails(x) ==
  /\ pc[x] = "finishing"
  /\ Fault
  /\ \/ UNCHANGED api
     \/ ApiTakesVerdict(cur[x], Worker(x)) /\ RecordVerdict(cur[x], verdict[x])
  /\ ReturnError(x)
  /\ UNCHANGED <<batch, curating, evidence>>

-----------------------------------------------------------------------------
(* Curator.  What the cluster shows it is left open: the workloads of an   *)
(* operation may be ready (perhaps in their previous revision), broken or  *)
(* neither.                                                                *)

CurateList(w) ==
  /\ curating[w] = {}
  /\ curating' = [curating EXCEPT ![w] = {o \in Curated : status[o] = "in-progress"}]
  /\ UNCHANGED <<api, broker, exec, batch, faults, evidence>>

\* The verdict of the curator; a refusal by the API is ignored.
CurateSettle(w, o, v) ==
  /\ o \in curating[w]
  /\ curating' = [curating EXCEPT ![w] = @ \ {o}]
  /\ IF ApiTakesVerdict(o, w) THEN RecordVerdict(o, v) ELSE UNCHANGED api
  /\ UNCHANGED <<broker, exec, batch, faults, evidence>>

\* Not decided yet: left for a later sweep.
CurateLeave(w, o) ==
  /\ o \in curating[w]
  /\ curating' = [curating EXCEPT ![w] = @ \ {o}]
  /\ UNCHANGED <<api, broker, exec, batch, faults, evidence>>

-----------------------------------------------------------------------------
(* Environment.                                                            *)

\* What the broker redelivers, or sees rejected, when the process of w ends.
Unacked(w) == IF pc[Consumer(w)] \in Busy THEN Held(Consumer(w)) ELSE {}

\* f with the entries of the goroutines of w set to v.
Reset(f, w, v) == [x \in Executors |-> IF Worker(x) = w THEN v ELSE f[x]]

\* The process of w ends and is started again.  The broker redelivers what
\* was not acknowledged, unless the cancelled consumer came to reject it
\* before the process was gone.
Restart(w) ==
  /\ Fault
  /\ \/ ready' = ready \cup Unacked(w) /\ UNCHANGED dead
     \/ dead' = dead \cup Unacked(w) /\ UNCHANGED ready
  /\ pc' = Reset(pc, w, "idle") /\ cur' = Reset(cur, w, NoOp)
  /\ attempt' = Reset(attempt, w, 1) /\ lost' = Reset(lost, w, FALSE)
  /\ verdict' = Reset(verdict, w, "failed") /\ term' = Reset(term, w, 0)
  /\ batch' = [batch EXCEPT ![w] = {}]
  /\ curating' = [curating EXCEPT ![w] = {}]
  /\ cut' = cut \ {w}
  /\ UNCHANGED <<api, acked, evidence>>

\* The connection to the broker breaks while the consumer works on a delivery.
\* The broker hands the message out again; the consumer carries on, settles a
\* delivery that is no longer its own, and then reconnects.
ConnectionLost(w) ==
  /\ Fault
  /\ w \notin cut /\ pc[Consumer(w)] \in Busy
  /\ cut' = cut \cup {w}
  /\ ready' = ready \cup {cur[Consumer(w)]}
  /\ UNCHANGED <<api, acked, dead, exec, batch, curating, evidence>>

-----------------------------------------------------------------------------
Consume(w) ==
  \E o \in Ops : DeliverFetchFails(w, o) \/ DeliverSkip(w, o) \/ Deliver(w, o)

Poll(w) ==
  \/ PollRecover(w) \/ PollList(w) \/ PollFails(w) \/ PollDone(w)
  \/ \E o \in Ops : PollTake(w, o)

Process(x) ==
  \/ ClaimGranted(x) \/ ClaimConflict(x) \/ ClaimFails(x)
  \/ Renew(x) \/ RenewFails(x)
  \/ ExecuteRetry(x) \/ ExecuteAbandoned(x)
  \/ \E v \in Verdict : ExecuteEnds(x, v)
  \/ FinishAccepted(x) \/ FinishConflict(x) \/ FinishFails(x)

Curate(w) ==
  \/ CurateList(w)
  \/ \E o \in Ops : CurateLeave(w, o) \/ \E v \in Verdict : CurateSettle(w, o, v)

Environment ==
  \/ \E o \in Ops : LeaseExpires(o)
  \/ \E w \in Workers : Restart(w) \/ ConnectionLost(w)

Next ==
  \/ \E w \in Workers : Consume(w) \/ Poll(w) \/ Curate(w)
  \/ \E x \in Executors : Process(x)
  \/ Environment

Spec == Init /\ [][Next]_vars

\* Goroutines are scheduled, requests are answered and executions end (every
\* wait in the handlers is bounded); an untended lease runs out; a pool does not
\* stay in maintenance for ever.  The environment is never obliged to fail.
Fairness ==
  /\ \A w \in Workers :
       /\ WF_vars(PollRecover(w)) /\ WF_vars(PollList(w)) /\ WF_vars(PollDone(w))
       /\ \A o \in Ops : WF_vars(PollTake(w, o))
  /\ \A x \in Executors :
       /\ WF_vars(ClaimGranted(x) \/ ClaimConflict(x))
       /\ WF_vars(ExecuteAbandoned(x) \/ \E v \in Verdict : ExecuteEnds(x, v))
       /\ WF_vars(FinishAccepted(x) \/ FinishConflict(x))
  /\ \A o \in Ops : WF_vars(~Tended(o) /\ LeaseExpires(o))

FairSpec == Spec /\ Fairness

-----------------------------------------------------------------------------
(* Properties.                                                             *)

Executing(x, o) == cur[x] = o /\ pc[x] \in {"executing", "finishing"}

\* Two workers work on the same operation only if the API took it back from
\* one of them in between: executions under the same grant (same epoch) are
\* all of one worker.  Claims, heartbeats that come late, lost answers and
\* restarts of consumer, poller and curator may interleave in any way
\* (processOperation, executeWithLeaseHeartbeat).
SameGrantSameWorker ==
  \A x, y \in Executors, o \in Ops :
    Executing(x, o) /\ Executing(y, o) /\ term[x] = term[y] => Worker(x) = Worker(y)

\* A message is acknowledged only when the operation has been claimed at
\* least once, by somebody: no error path of runConsumer acknowledges work
\* that nobody ever started.
AckedOnlyAfterClaim ==
  \A o \in acked : status[o] # "queued" \/ epoch[o] > 0

\* While the consumer works on an operation, on the channel that delivered it,
\* the broker still has the message unacknowledged, so that a crash redelivers
\* it; and a message is never in two places (Ack and Nack in runConsumer,
\* redelivery after a crash or a broken connection).
MessageHeldWhileWorking ==
  /\ \A w \in Workers \ cut : pc[Consumer(w)] \in Busy =>
       cur[Consumer(w)] \notin ready \cup acked \cup dead
  /\ ready \cap acked = {} /\ ready \cap dead = {} /\ acked \cap dead = {}

\* An operation outside the curator's reach is recorded as succeeded only if
\* some execution of it ended well with its claim not known to be lost, and as
\* failed only if one failed or the API wrote it off: no retry, conflict or
\* lost answer in between turns one verdict into the other
\* (processOperation, executeWithRetry, failOperation).
VerdictHasEvidence ==
  \A o \in Ops \ Curated : status[o] \in Verdict => status[o] \in evidence[o]

\* An operation outside the curator's reach whose lease is live is settled
\* only by a goroutine that holds it and does not know its claim lost: however
\* the execution ended, a lost claim publishes nothing (ErrOperationLeaseLost
\* in processOperation), and no recovery settles work that is tended.
LostClaimIsSilent ==
  [][\A o \in Ops \ Curated :
       status[o] = "in-progress" /\ status'[o] \in Verdict =>
         ~live[o] \/ \E x \in Executors : cur[x] = o /\ pc[x] = "finishing" /\ ~lost[x]]_vars

\* The workers implement the operation contract.
Contract == INSTANCE OperationContract
  WITH Ops <- Ops, Curated <- Curated, status <- status, evidence <- evidence
ContractSpec == Contract!Spec

\* Every operation some worker can run is settled in the end and stays so,
\* in spite of restarts, lost answers, dead-lettered messages, late renewals
\* and drains: the poller and claim recovery pick up what the broker path
\* dropped.
EveryOperationSettles ==
  \A o \in Ops : (\E w \in Workers : <<w, o>> \in Compatible) => <>[](status[o] \in Verdict)

\* One execution at a time, in the whole pool.
SingleExecution ==
  \A x, y \in Executors, o \in Ops : Executing(x, o) /\ Executing(y, o) => x = y

=============================================================================
