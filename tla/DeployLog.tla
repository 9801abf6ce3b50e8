----------------------------- MODULE DeployLog -----------------------------
(***************************************************************************)
(* The logs an operation's handler sends to the API                        *)
(* (internal/platform/logging/deploy_rule.go).  A deploy's lines are       *)
(* collected, cut into batches with an id of their own, and each batch is  *)
(* sent up to three times before the next one; what cannot be sent waits   *)
(* for the next flush.  A rule's lines are sent once, and forgotten.       *)
(*                                                                         *)
(* Lines are the numbers 1, 2, ... in the order they are written.  How a   *)
(* request ends is decided elsewhere; here are its effects.  The API       *)
(* appends a batch unless it has seen its id.                              *)
(***************************************************************************)
EXTENDS Integers, Sequences

CONSTANTS
  MaxLines,   \* bound: lines a handler writes
  MaxBatch,   \* maxBatch
  Attempts    \* sends of a batch in one flush

ASSUME LogAssumption == {MaxLines, MaxBatch, Attempts} \subseteq Nat \ {0}

VARIABLES
  kind,       \* "deploy" or "rule" logger
  written,    \* lines written so far
  buffer,     \* logger.buffer
  pending,    \* logger.pending
  attempt,    \* of the batch being sent
  flow,       \* where the handler is
  closing,    \* the flush is the deferred one
  canceled,   \* the handler's context has ended
  late,       \* batches sent and given up, still on their way
  log,        \* lines the API has, in its order
  ids         \* batch ids the API has seen

logVars == <<kind, written, buffer, pending, attempt, flow, closing, canceled, late, log, ids>>

Lines == 1..MaxLines
Batches == Seq(Lines) \ {<<>>}

Flows == {"working", "sending", "backoff", "ended"}

LogTypeOK ==
  /\ kind \in {"deploy", "rule"}
  /\ written \in 0..MaxLines
  /\ buffer \in Seq(Lines)
  /\ pending \in Seq(Batches)
  /\ attempt \in 1..Attempts
  /\ flow \in Flows
  /\ closing \in BOOLEAN /\ canceled \in BOOLEAN
  /\ late \subseteq Batches
  /\ log \in Seq(Lines)
  /\ ids \subseteq Lines

LogInit ==
  /\ kind \in {"deploy", "rule"}
  /\ written = 0 /\ buffer = <<>> /\ pending = <<>>
  /\ attempt = 1 /\ flow = "working" /\ closing = FALSE /\ canceled = FALSE
  /\ late = {} /\ log = <<>> /\ ids = {}

Resting == IF closing' THEN "ended" ELSE "working"

-----------------------------------------------------------------------------
(* The handler: Logf, AppendLines, Flush.                                  *)

\* Flush with these lines in the buffer.  The deploy logger puts them behind
\* what is pending, the rule logger keeps them until they have been sent.
Flush(lines) ==
  LET queue == IF lines = <<>> \/ kind = "rule" THEN pending ELSE Append(pending, lines)
      work == IF kind = "rule" THEN lines # <<>> ELSE queue # <<>>
  IN /\ pending' = queue
     /\ buffer' = IF kind = "rule" THEN lines ELSE <<>>
     /\ attempt' = 1
     /\ flow' = IF work THEN "sending" ELSE Resting

Full(lines) == Len(lines) >= MaxBatch

\* A line is written; the one that fills the buffer flushes it.
Logf ==
  /\ flow = "working" /\ written < MaxLines
  /\ written' = written + 1
  /\ UNCHANGED <<kind, closing, canceled, late, log, ids>>
  /\ LET lines == Append(buffer, written + 1) IN
     IF Full(lines) THEN Flush(lines)
     ELSE buffer' = lines /\ UNCHANGED <<pending, attempt, flow>>

\* The handler flushes on its way, or, deferred, when it ends.
FlushNow ==
  /\ flow = "working"
  /\ closing' \in BOOLEAN
  /\ Flush(buffer)
  /\ UNCHANGED <<kind, written, canceled, late, log, ids>>

Cancel ==
  /\ ~canceled /\ flow # "ended"
  /\ canceled' = TRUE
  /\ UNCHANGED <<kind, written, buffer, pending, attempt, flow, closing, late, log, ids>>

-----------------------------------------------------------------------------
(* The batch being sent and what becomes of it.                            *)

Batch == IF kind = "rule" THEN buffer ELSE Head(pending)

\* Seeded: every attempt goes under an id of its own.
NewIdPerTry(batch, try) == MaxLines * try + batch[1]

\* The id a batch goes under, the same for each attempt; line numbers stand
\* for the random ids, as no line is in two batches.
BatchId(batch, try) == batch[1]

\* The API's side, external: a deploy batch it has seen is not appended.
Arrives(batch, id) ==
  IF kind = "deploy" /\ id \in ids THEN UNCHANGED <<log, ids>>
  ELSE log' = log \o batch /\ ids' = ids \union {id}

Sent ==
  /\ flow = "sending"
  /\ UNCHANGED <<kind, written, closing, canceled>>

\* The request succeeded: the rule's buffer or the first batch is done with.
Delivered ==
  /\ Sent
  /\ Arrives(Batch, BatchId(Batch, attempt))
  /\ buffer' = <<>>
  /\ pending' = IF kind = "rule" THEN pending ELSE Tail(pending)
  /\ attempt' = 1
  /\ flow' = IF pending' = <<>> THEN Resting ELSE "sending"
  /\ UNCHANGED late

\* Seeded: one attempt too many; the batch given up is dropped; no second attempt.
FailedOffByOne ==
  /\ Sent
  /\ buffer' = <<>>
  /\ flow' = IF kind = "deploy" /\ attempt <= Attempts THEN "backoff" ELSE Resting
  /\ UNCHANGED <<pending, attempt>>
FailedDrops ==
  /\ Sent
  /\ buffer' = <<>> /\ attempt' = 1
  /\ flow' = Resting
  /\ pending' = IF kind = "deploy" THEN Tail(pending) ELSE pending
FailedOnce ==
  /\ Sent
  /\ buffer' = <<>> /\ attempt' = 1
  /\ flow' = Resting
  /\ UNCHANGED pending

\* It failed: the rule logger forgets the lines, the deploy logger waits and
\* tries again or, after the last attempt, leaves the batches pending.
Failed ==
  /\ Sent
  /\ buffer' = <<>>
  /\ IF kind = "deploy" /\ attempt < Attempts
       THEN flow' = "backoff" /\ UNCHANGED attempt
       ELSE flow' = Resting /\ attempt' = 1
  /\ UNCHANGED pending

FailedUnseen == Failed /\ UNCHANGED <<late, log, ids>>

FailedAfterArrival == Failed /\ Arrives(Batch, BatchId(Batch, attempt)) /\ UNCHANGED late

FailedDelayed == Failed /\ late' = late \union {Batch} /\ UNCHANGED <<log, ids>>

\* Flush's select between attempts: when the context ends as the wait is
\* over, either case may be taken.
Retry ==
  /\ flow = "backoff"
  /\ flow' = "sending" /\ attempt' = attempt + 1
  /\ UNCHANGED <<kind, written, buffer, pending, closing, canceled, late, log, ids>>

StopWaiting ==
  /\ flow = "backoff" /\ canceled
  /\ UNCHANGED <<kind, written, buffer, pending, closing, canceled, late, log, ids>>
  /\ flow' = Resting /\ attempt' = 1

\* A request given up reaches the API after all, or never.
ArrivesLate ==
  \E batch \in late :
    /\ late' = late \ {batch}
    /\ Arrives(batch, BatchId(batch, 1)) \/ UNCHANGED <<log, ids>>
    /\ UNCHANGED <<kind, written, buffer, pending, attempt, flow, closing, canceled>>
=============================================================================
