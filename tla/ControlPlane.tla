---------------------------- MODULE ControlPlane ----------------------------
(***************************************************************************)
(* Two goroutines of a worker talk to the API with one token: a handler's  *)
(* logger (DeployLog) and the loop that sends heartbeats (Run), both       *)
(* through DoJSONRequest (WorkerToken).  A step of a request is a step of  *)
(* the token's module together with what it means to the one who made it.  *)
(***************************************************************************)
EXTENDS WorkerToken, DeployLog

CONSTANTS Logger, Main

ASSUME ClientsAssumption == Clients = {Logger, Main} /\ Logger # Main

vars == <<tokenVars, logVars>>

TypeOK == TokenTypeOK /\ LogTypeOK

Init == TokenInit /\ LogInit

-----------------------------------------------------------------------------
(* The logger's requests.                                                  *)

\* A request of the logger's that changes neither its log nor the API's.
LogRequest ==
  /\ \/ flow = "sending" /\ (GetCached(Logger) \/ Exchange(Logger))
     \/ Exchanged(Logger) \/ Refuse(Logger) \/ Forbid(Logger)
  /\ UNCHANGED logVars

LogServed == Served(Logger) /\ Delivered

LogRefused ==
  /\ \/ Invalidate(Logger) \/ ExchangeFails(Logger)
     \/ flow = "sending" /\ GetNothing(Logger)
  /\ FailedUnseen

\* Lost on the way there, on the way back, or timed out and still coming.
LogLost ==
  /\ Lost(Logger)
  /\ \/ FailedUnseen
     \/ Accepted(req[Logger].token) /\ (FailedAfterArrival \/ FailedDelayed)

\* The handler's context ends every request under way, and those made after.
LogAborted ==
  /\ canceled
  /\ \/ Abort(Logger)
     \/ flow = "sending" /\ req[Logger] = NoRequest /\ lock = NoClient /\ UNCHANGED tokenVars
  /\ FailedUnseen

LogAbortedAfterArrival ==
  /\ canceled /\ Abort(Logger)
  /\ req[Logger].phase = "sent" /\ Accepted(req[Logger].token)
  /\ FailedAfterArrival \/ FailedDelayed

Handler == (Logf \/ FlushNow \/ Retry \/ StopWaiting) /\ UNCHANGED tokenVars

HandlerCanceled == Cancel /\ UNCHANGED tokenVars

LateBatch == ArrivesLate /\ UNCHANGED tokenVars

-----------------------------------------------------------------------------
(* The heartbeats: Run sends one after the other and logs what fails.      *)

BeatBegins == (GetCached(Main) \/ Exchange(Main)) /\ UNCHANGED logVars

BeatRequest == (Exchanged(Main) \/ Refuse(Main) \/ Forbid(Main)) /\ UNCHANGED logVars

BeatServed == Served(Main) /\ UNCHANGED logVars

BeatFails == (Invalidate(Main) \/ ExchangeFails(Main) \/ Lost(Main)) /\ UNCHANGED logVars

Environment == (Revoke \/ Tick) /\ UNCHANGED logVars

Next ==
  \/ LogRequest \/ LogServed \/ LogRefused \/ LogLost \/ LogAborted \/ LogAbortedAfterArrival
  \/ Handler \/ HandlerCanceled \/ LateBatch
  \/ BeatBegins \/ BeatRequest \/ BeatServed \/ BeatFails
  \/ Environment

Spec == Init /\ [][Next]_vars

\* The ticker brings the next heartbeat, and a request that can be answered
\* is, unless it is lost.  The loop's fairness is strong because it asks for
\* the mutex: a sync.Mutex in starvation mode goes to the one who waits,
\* however often the handler flushes.
BeatGoesOn ==
  \/ BeatBegins \/ BeatServed
  \/ (Exchanged(Main) \/ Refuse(Main) \/ Invalidate(Main)) /\ UNCHANGED logVars

LoggerAnswered ==
  \/ (Exchanged(Logger) \/ Refuse(Logger)) /\ UNCHANGED logVars
  \/ Invalidate(Logger) /\ FailedUnseen
  \/ LogServed

Fairness == SF_vars(BeatGoesOn) /\ WF_vars(LoggerAnswered)

FairSpec == Spec /\ Fairness

-----------------------------------------------------------------------------
(* What must hold.                                                         *)

\* A worker that can renew its token never makes a request that reaches the
\* API with an expired one: the skew covers the time an exchange and a request
\* take, whoever fetched the token (TokenManager.Get).
ExpiryNeverRefuses ==
  bootstrap => \A c \in Clients : req[c].phase = "sent" => req[c].token.left # 0

\* The API's log of a deploy is at every moment the beginning of what its
\* handler wrote, and only grows: whatever was retried, given up, broken off or
\* came late, no line is missing in between, out of order or there twice
\* (DeployLogger.Flush).
Ordered == INSTANCE OrderedLog
  WITH MaxLines <- MaxLines,
       written  <- IF kind = "deploy" THEN written ELSE 0,
       log      <- IF kind = "deploy" THEN log ELSE <<>>
OrderedLogSpec == Ordered!Spec

\* No line is ever in the API's log twice, of a rule deploy either, whose
\* logger has no ids for its batches and therefore never sends one again
\* (RuleDeployLogger.Flush).
NoLineTwice == \A i, j \in DOMAIN log : log[i] = log[j] => i = j

\* Until its context ends, it takes as many faults, of the network or of the
\* token, as a batch has attempts (three in the code) to lose a line of a
\* deploy: a token withdrawn from under both goroutines costs the logger one
\* attempt, not more.
CompleteBelowAttempts ==
  kind = "deploy" /\ bootstrap /\ ~canceled /\ flow = "ended" /\ faults < Attempts
    => Len(log) = written

\* A registered worker's heartbeats get through again and again, however the
\* two goroutines drop and renew each other's token.
HeartbeatsGetThrough == bootstrap => []<><<BeatServed>>_vars
=============================================================================
