------------------------- MODULE ControlPlaneProofs -------------------------
(***************************************************************************)
(* Proofs about the requests of a worker: no expired token is used, the    *)
(* API's log of a deploy is an ordered log, no line is logged twice, and   *)
(* none is lost with fewer faults than a batch has attempts, for any       *)
(* lifetimes, skews and timeouts that fit together, any number of          *)
(* attempts, lines and faults, and batches of any size.                    *)
(***************************************************************************)
EXTENDS ControlPlane, TLAPS

\* What a step is to the token and to the log, whichever request it belongs to.
TokenStep ==
  \/ \E c \in Clients :
       GetCached(c) \/ Exchange(c) \/ Exchanged(c) \/ ExchangeFails(c) \/ Served(c)
       \/ Refuse(c) \/ Forbid(c) \/ Invalidate(c) \/ Lost(c) \/ Abort(c)
  \/ Revoke \/ Tick \/ UNCHANGED tokenVars

LogStep ==
  \/ Logf \/ FlushNow \/ Cancel \/ Delivered \/ FailedUnseen \/ FailedAfterArrival
  \/ FailedDelayed \/ Retry \/ StopWaiting \/ ArrivesLate \/ UNCHANGED logVars

LEMMA StepIsTokenStep == ASSUME [Next]_vars PROVE TokenStep
<1>1. Logger \in Clients /\ Main \in Clients
  BY ClientsAssumption
<1>2. CASE \/ LogRequest \/ LogServed \/ LogRefused \/ LogLost \/ LogAborted
           \/ LogAbortedAfterArrival
  BY <1>1, <1>2 DEF LogRequest, LogServed, LogRefused, LogLost, LogAborted,
     LogAbortedAfterArrival, GetNothing, TokenStep
<1>3. CASE BeatBegins \/ BeatRequest \/ BeatServed \/ BeatFails
  BY <1>1, <1>3 DEF BeatBegins, BeatRequest, BeatServed, BeatFails, TokenStep
<1>4. CASE Handler \/ HandlerCanceled \/ LateBatch \/ Environment \/ UNCHANGED vars
  BY <1>4 DEF Handler, HandlerCanceled, LateBatch, Environment, vars, TokenStep
<1>5. QED
  BY <1>2, <1>3, <1>4 DEF Next

LEMMA StepIsLogStep == ASSUME [Next]_vars PROVE LogStep
<1>1. CASE \/ LogRequest \/ LogServed \/ LogRefused \/ LogLost \/ LogAborted
           \/ LogAbortedAfterArrival
  BY <1>1 DEF LogRequest, LogServed, LogRefused, LogLost, LogAborted,
     LogAbortedAfterArrival, LogStep
<1>2. CASE BeatBegins \/ BeatRequest \/ BeatServed \/ BeatFails
  BY <1>2 DEF BeatBegins, BeatRequest, BeatServed, BeatFails, LogStep
<1>3. CASE Handler \/ HandlerCanceled \/ LateBatch \/ Environment \/ UNCHANGED vars
  BY <1>3 DEF Handler, HandlerCanceled, LateBatch, Environment, vars, LogStep
<1>4. QED
  BY <1>1, <1>2, <1>3 DEF Next

-----------------------------------------------------------------------------
(* The token.                                                              *)

USE DEF Forever

LEMMA Times ==
  /\ Lifetime \in Nat /\ Skew \in Nat /\ Timeout \in Nat /\ MaxFaults \in Nat
  /\ Timeout > 0 /\ Skew >= 2 * Timeout /\ Lifetime > Skew
  /\ NoToken \notin Tokens
  BY TokenAssumption

LEMMA LessTime ==
  ASSUME NEW time \in {Forever} \union 0..Lifetime
  PROVE  Less(time) \in {Forever} \union 0..Lifetime
<1>1. CASE time = Forever
  BY <1>1 DEF Less
<1>2. CASE time \in 0..Lifetime
  BY <1>2, Times DEF Less
<1>3. QED
  BY <1>1, <1>2

LEMMA TokenChanges ==
  ASSUME NEW token \in Tokens
  PROVE  /\ Revoked(token) \in Tokens /\ Revoked(token).left = token.left
         /\ Aged(token) \in Tokens /\ Aged(token).left = Less(token.left)
<1>1. token # NoToken /\ Less(token.left) \in {Forever} \union 0..Lifetime
  BY Times, LessTime DEF Tokens
<1>2. Revoked(token) \in Tokens /\ Revoked(token).left = token.left
  BY <1>1 DEF Revoked, Tokens
<1>3. Aged(token) \in Tokens /\ Aged(token).left = Less(token.left)
  BY <1>1 DEF Aged, Tokens
<1>4. QED
  BY <1>2, <1>3

LEMMA TokenTypes == ASSUME TokenTypeOK, TokenStep PROVE TokenTypeOK'
<1>0. /\ bootstrap \in BOOLEAN /\ access \in Tokens \union {NoToken}
      /\ belief \in {Forever} \union 0..Lifetime
      /\ lock \in Clients \union {NoClient} /\ req \in [Clients -> Requests]
      /\ faults \in 0..MaxFaults
  BY DEF TokenTypeOK
<1>1. /\ 0 \in 0..Timeout /\ Lifetime \in {Forever} \union 0..Lifetime
      /\ \A left \in {Lifetime, Forever} : [left |-> left, good |-> TRUE] \in Tokens
      /\ NoRequest \in Requests
  BY Times DEF Tokens, Requests, NoRequest
<1>2. Fault => faults' \in 0..MaxFaults
  BY <1>0, Times DEF Fault
<1>3. ASSUME NEW c \in Clients, req'  = [req EXCEPT ![c] = NoRequest]
      PROVE  req' \in [Clients -> Requests]
  BY <1>0, <1>1, <1>3
<1>4. ASSUME NEW c \in Clients, NEW phase \in {"out", "exchange", "sent", "refused"},
             NEW token \in Tokens \union {NoToken},
             req' = [req EXCEPT ![c] = [phase |-> phase, token |-> token, age |-> 0]]
      PROVE  req' \in [Clients -> Requests]
  BY <1>0, <1>1, <1>4 DEF Requests
<1>5. ASSUME NEW c \in Clients, NEW phase \in {"sent", "refused"},
             \/ req' = [req EXCEPT ![c].phase = phase]
             \/ req' = [req EXCEPT ![c].phase = phase, ![c].age = 0]
      PROVE  req' \in [Clients -> Requests]
  BY <1>0, <1>1, <1>5 DEF Requests
<1>6. CASE \E c \in Clients : GetCached(c) \/ Exchange(c)
  <2>1. PICK c \in Clients : GetCached(c) \/ Exchange(c)
    BY <1>6
  <2>2. req' \in [Clients -> Requests]
    BY <1>0, <1>1, <1>4, <2>1 DEF GetCached, Exchange
  <2>3. QED
    BY <1>0, <2>1, <2>2 DEF GetCached, Exchange, TokenTypeOK
<1>7. CASE \E c \in Clients : Exchanged(c)
  <2>1. PICK c \in Clients : Exchanged(c)
    BY <1>7
  <2>2. req' \in [Clients -> Requests] /\ req[c].token \in Tokens \union {NoToken}
    BY <1>0, <1>5, <2>1 DEF Exchanged, Requests
  <2>3. belief' \in {Forever} \union 0..Lifetime
    BY <1>0, <1>1, <2>1 DEF Exchanged, Believed
  <2>4. QED
    BY <1>0, <2>1, <2>2, <2>3 DEF Exchanged, TokenTypeOK
<1>8. CASE \E c \in Clients : ExchangeFails(c) \/ Served(c) \/ Lost(c) \/ Invalidate(c) \/ Abort(c)
  <2>1. PICK c \in Clients : ExchangeFails(c) \/ Served(c) \/ Lost(c) \/ Invalidate(c) \/ Abort(c)
    BY <1>8
  <2>2. req' \in [Clients -> Requests]
    BY <1>3, <2>1 DEF ExchangeFails, Served, Lost, Invalidate, Abort
  <2>3. QED
    BY <1>0, <1>2, <2>1, <2>2 DEF ExchangeFails, Served, Lost, Invalidate, Abort, TokenTypeOK
<1>9. CASE \E c \in Clients : Refuse(c) \/ Forbid(c)
  <2>1. PICK c \in Clients : Refuse(c) \/ Forbid(c)
    BY <1>9
  <2>2. req' \in [Clients -> Requests]
    BY <1>5, <2>1 DEF Refuse, Forbid
  <2>3. QED
    BY <1>0, <1>2, <2>1, <2>2 DEF Refuse, Forbid, TokenTypeOK
<1>10. ASSUME NEW token \in Tokens \union {NoToken}
       PROVE  Revoked(token) \in Tokens \union {NoToken} /\ Aged(token) \in Tokens \union {NoToken}
  BY TokenChanges DEF Revoked, Aged
<1>11. CASE Revoke
  <2>1. req' \in [Clients -> Requests]
    BY <1>0, <1>10, <1>11 DEF Revoke, Requests
  <2>2. QED
    BY <1>0, <1>2, <1>10, <1>11, <2>1 DEF Revoke, TokenTypeOK
<1>12. CASE Tick
  <2>1. ASSUME NEW c \in Clients PROVE req'[c] \in Requests
    <3>1. req[c] \in Requests /\ req[c].token \in Tokens \union {NoToken} /\ req[c].age \in 0..Timeout
      BY <1>0 DEF Requests
    <3>2. (IF Waiting(c) THEN req[c].age + 1 ELSE req[c].age) \in 0..Timeout
      <4>1. Waiting(c) => req[c].age < Timeout
        BY <1>12 DEF Tick
      <4>2. req[c].age < Timeout => req[c].age + 1 \in 0..Timeout
        BY <3>1, Times
      <4>3. QED
        BY <3>1, <4>1, <4>2
    <3>3. QED
      BY <1>0, <1>10, <1>12, <3>1, <3>2 DEF Tick, Requests
  <2>2. req' \in [Clients -> Requests]
    BY <1>12, <2>1 DEF Tick
  <2>3. belief' \in {Forever} \union 0..Lifetime
    BY <1>0, <1>12, LessTime DEF Tick
  <2>4. QED
    BY <1>0, <1>10, <1>12, <2>2, <2>3 DEF Tick, TokenTypeOK
<1>13. CASE UNCHANGED tokenVars
  BY <1>13 DEF tokenVars, TokenTypeOK
<1>14. QED
  BY <1>6, <1>7, <1>8, <1>9, <1>11, <1>12, <1>13 DEF TokenStep

\* While a worker can renew its token: what the manager believes runs ahead of
\* the truth by at most the time an exchange takes, a token being exchanged has
\* aged as long as the exchange, and one on its way outlives its request.
Ahead ==
  access # NoToken /\ access.left # Forever =>
    belief # Forever /\ belief <= access.left + Timeout

Exchanging(c) ==
  req[c].phase = "exchange" =>
    /\ req[c].token # NoToken
    /\ req[c].token.left # Forever => req[c].token.left = Lifetime - req[c].age

Outlives(c) ==
  req[c].phase = "sent" =>
    /\ req[c].token # NoToken
    /\ req[c].token.left # Forever => req[c].token.left > Timeout - req[c].age

TokenInv == bootstrap => Ahead /\ \A c \in Clients : Exchanging(c) /\ Outlives(c)

LEMMA LessTick ==
  ASSUME NEW time \in {Forever} \union 0..Lifetime
  PROVE  /\ time = Forever <=> Less(time) = Forever
         /\ time # Forever => Less(time) = IF time = 0 THEN 0 ELSE time - 1
  BY Times DEF Less

LEMMA TokenInvStep ==
  ASSUME TokenTypeOK, TokenInv, TokenStep, bootstrap'
  PROVE  TokenInv'
<1>0. /\ bootstrap /\ Ahead /\ \A c \in Clients : Exchanging(c) /\ Outlives(c)
      /\ access \in Tokens \union {NoToken} /\ belief \in {Forever} \union 0..Lifetime
      /\ req \in [Clients -> Requests]
  BY DEF TokenInv, TokenTypeOK, TokenStep, GetCached, Exchange, Exchanged, ExchangeFails,
     Served, Refuse, Forbid, Invalidate, Lost, Abort, Revoke, Tick, tokenVars
\* A step that leaves the manager alone and gives the client no new token.
<1>1. ASSUME NEW c \in Clients, UNCHANGED <<bootstrap, access, belief>>,
             \A d \in Clients \ {c} : req'[d] = req[d],
             req'[c].phase \notin {"exchange", "sent"}
      PROVE  TokenInv'
  BY <1>0, <1>1 DEF TokenInv, Ahead, Exchanging, Outlives
<1>2. CASE \E c \in Clients : GetCached(c)
  <2>1. PICK c \in Clients : GetCached(c)
    BY <1>2
  <2>2. access # NoToken /\ (belief = Forever \/ belief > Skew)
    BY <1>0, <2>1 DEF GetCached, Fresh
  <2>3. access.left # Forever => access.left > Timeout
    <3>1. access \in Tokens /\ access.left \in {Forever} \union 0..Lifetime
      BY <1>0, <2>2 DEF Tokens
    <3>2. QED
      BY <1>0, <2>2, <3>1, Times DEF Ahead
  <2>4. req'[c] = [phase |-> "sent", token |-> access, age |-> 0]
    BY <1>0, <2>1 DEF GetCached
  <2>5. Exchanging(c)' /\ Outlives(c)'
    BY <2>2, <2>3, <2>4, Times DEF Exchanging, Outlives
  <2>6. \A d \in Clients \ {c} : req'[d] = req[d]
    BY <1>0, <2>1 DEF GetCached
  <2>7. QED
    BY <1>0, <2>1, <2>5, <2>6 DEF GetCached, TokenInv, Ahead, Exchanging, Outlives
<1>3. CASE \E c \in Clients : Exchange(c)
  <2>1. PICK c \in Clients : Exchange(c)
    BY <1>3
  <2>2. PICK token \in Tokens : /\ token.left \in {Lifetime, Forever}
                                /\ req'[c] = [phase |-> "exchange", age |-> 0, token |-> token]
    <3>1. PICK left \in {Lifetime, Forever} :
            req'[c] = [phase |-> "exchange", age |-> 0, token |-> [left |-> left, good |-> TRUE]]
      BY <1>0, <2>1 DEF Exchange
    <3>2. [left |-> left, good |-> TRUE] \in Tokens /\ [left |-> left, good |-> TRUE].left = left
      BY Times DEF Tokens
    <3>3. QED
      BY <3>1, <3>2
  <2>3. Exchanging(c)' /\ Outlives(c)'
    <3>1. token # NoToken
      BY Times
    <3>2. QED
      BY <2>2, <3>1, Times DEF Exchanging, Outlives
  <2>4. \A d \in Clients \ {c} : req'[d] = req[d]
    BY <1>0, <2>1 DEF Exchange
  <2>5. QED
    BY <1>0, <2>1, <2>3, <2>4 DEF Exchange, TokenInv, Ahead, Exchanging, Outlives
<1>4. CASE \E c \in Clients : Exchanged(c)
  <2>1. PICK c \in Clients : Exchanged(c)
    BY <1>4
  <2>2. /\ req[c].token \in Tokens /\ req[c].token.left \in {Forever} \union 0..Lifetime
        /\ req[c].token.left # Forever => req[c].token.left = Lifetime - req[c].age
        /\ req[c].age \in 0..Timeout
    BY <1>0, <2>1 DEF Exchanged, Exchanging, Requests, Tokens
  <2>3. Ahead'
    <3>1. access' = req[c].token /\ belief' = Believed(req[c].token)
      BY <2>1 DEF Exchanged
    <3>2. access'.left # Forever => belief' = Lifetime
      BY <3>1 DEF Believed
    <3>3. QED
      BY <2>2, <3>1, <3>2, Times DEF Ahead
  <2>4. /\ req'[c].phase = "sent" /\ req'[c].age = 0 /\ req'[c].token = req[c].token
        /\ \A d \in Clients \ {c} : req'[d] = req[d]
    BY <1>0, <2>1 DEF Exchanged, Requests
  <2>5. Exchanging(c)' /\ Outlives(c)'
    BY <2>2, <2>4, Times DEF Exchanging, Outlives
  <2>6. QED
    BY <1>0, <2>1, <2>3, <2>4, <2>5 DEF TokenInv, Exchanging, Outlives
<1>5. CASE \E c \in Clients : ExchangeFails(c) \/ Served(c) \/ Refuse(c) \/ Forbid(c) \/ Lost(c) \/ Abort(c)
  <2>1. PICK c \in Clients :
             ExchangeFails(c) \/ Served(c) \/ Refuse(c) \/ Forbid(c) \/ Lost(c) \/ Abort(c)
    BY <1>5
  <2>2. CASE ExchangeFails(c) \/ Served(c) \/ Lost(c) \/ Abort(c)
    BY <1>0, <1>1, <2>2 DEF ExchangeFails, Served, Lost, Abort, NoRequest
  <2>3. CASE Refuse(c) \/ Forbid(c)
    BY <1>0, <1>1, <2>3 DEF Refuse, Forbid, Requests
  <2>4. QED
    BY <2>1, <2>2, <2>3
<1>6. CASE \E c \in Clients : Invalidate(c)
  <2>1. PICK c \in Clients : Invalidate(c)
    BY <1>6
  <2>2. /\ req'[c].phase = "out" /\ access' = NoToken
        /\ \A d \in Clients \ {c} : req'[d] = req[d]
    BY <1>0, <2>1 DEF Invalidate, NoRequest
  <2>3. QED
    BY <1>0, <2>2 DEF TokenInv, Ahead, Exchanging, Outlives
<1>7. CASE Revoke
  <2>1. ASSUME NEW token \in Tokens \union {NoToken}
        PROVE  /\ Revoked(token) = NoToken <=> token = NoToken
               /\ token # NoToken => Revoked(token).left = token.left
    BY <2>1, TokenChanges, Times DEF Revoked
  <2>2. Ahead'
    BY <1>0, <1>7, <2>1 DEF Revoke, Ahead
  <2>3. ASSUME NEW c \in Clients PROVE Exchanging(c)' /\ Outlives(c)'
    <3>1. req[c].token \in Tokens \union {NoToken} /\ req[c] \in Requests
      BY <1>0 DEF Requests
    <3>2. /\ req'[c].phase = req[c].phase /\ req'[c].age = req[c].age
          /\ req'[c].token = Revoked(req[c].token)
      BY <1>0, <1>7, <3>1 DEF Revoke, Requests
    <3>3. QED
      BY <1>0, <2>1, <3>1, <3>2 DEF Exchanging, Outlives
  <2>4. QED
    BY <2>2, <2>3 DEF TokenInv
<1>8. CASE Tick
  <2>1. ASSUME NEW token \in Tokens \union {NoToken}
        PROVE  /\ Aged(token) = NoToken <=> token = NoToken
               /\ token # NoToken => Aged(token).left = Less(token.left)
    BY <2>1, TokenChanges, Times DEF Aged
  <2>2. access' = Aged(access) /\ belief' = Less(belief)
    BY <1>8 DEF Tick
  <2>3. Ahead'
    <3>1. SUFFICES ASSUME access' # NoToken, access'.left # Forever
                   PROVE  belief' # Forever /\ belief' <= access'.left + Timeout
      BY DEF Ahead
    <3>2. /\ access \in Tokens /\ access.left \in {Forever} \union 0..Lifetime
          /\ access'.left = Less(access.left)
      BY <1>0, <2>1, <2>2, <3>1 DEF Tokens
    <3>3. /\ access.left # Forever
          /\ Less(access.left) = IF access.left = 0 THEN 0 ELSE access.left - 1
      BY <3>1, <3>2, LessTick
    <3>4. belief # Forever /\ belief <= access.left + Timeout
      BY <1>0, <3>2, <3>3, Times DEF Ahead
    <3>5. belief' # Forever /\ belief' = IF belief = 0 THEN 0 ELSE belief - 1
      BY <1>0, <2>2, <3>4, LessTick
    <3>6. QED
      BY <1>0, <3>2, <3>3, <3>4, <3>5, Times
  <2>4. ASSUME NEW c \in Clients PROVE Exchanging(c)' /\ Outlives(c)'
    <3>1. req[c].token \in Tokens \union {NoToken} /\ req[c] \in Requests /\ req[c].age \in 0..Timeout
      BY <1>0 DEF Requests
    <3>2. /\ req'[c].phase = req[c].phase /\ req'[c].token = Aged(req[c].token)
          /\ req'[c].age = IF Waiting(c) THEN req[c].age + 1 ELSE req[c].age
      BY <1>0, <1>8, <3>1 DEF Tick, Requests
    <3>3. Waiting(c) => req[c].age < Timeout
      BY <1>8 DEF Tick
    <3>4. CASE Waiting(c) /\ req[c].token # NoToken
      <4>1. req'[c].token # NoToken /\ req'[c].token.left = Less(req[c].token.left)
        BY <2>1, <3>1, <3>2, <3>4
      <4>2. req[c].token.left \in {Forever} \union 0..Lifetime
        BY <3>1, <3>4 DEF Tokens
      <4>3. /\ req'[c].token.left = Forever <=> req[c].token.left = Forever
            /\ req[c].token.left # Forever =>
                 req'[c].token.left = IF req[c].token.left = 0 THEN 0 ELSE req[c].token.left - 1
        BY <4>1, <4>2, LessTick
      <4>4. req'[c].age = req[c].age + 1 /\ req[c].age < Timeout
        BY <3>2, <3>3, <3>4
      <4>5. Exchanging(c) /\ Outlives(c)
        BY <1>0
      <4>6. QED
        BY <3>1, <3>2, <4>1, <4>2, <4>3, <4>4, <4>5, Times DEF Exchanging, Outlives
    <3>5. CASE ~Waiting(c) \/ req[c].token = NoToken
      BY <1>0, <3>2, <3>5 DEF Waiting, Exchanging, Outlives
    <3>6. QED
      BY <3>4, <3>5
  <2>5. QED
    BY <2>3, <2>4 DEF TokenInv
<1>9. CASE UNCHANGED tokenVars
  BY <1>0, <1>9 DEF tokenVars, TokenInv, Ahead, Exchanging, Outlives
<1>10. QED
  BY <1>2, <1>3, <1>4, <1>5, <1>6, <1>7, <1>8, <1>9 DEF TokenStep

LEMMA TokenInits == ASSUME TokenInit PROVE TokenTypeOK /\ TokenInv
<1>1. NoRequest \in Requests /\ [left |-> Forever, good |-> TRUE] \in Tokens
  BY Times DEF NoRequest, Requests, Tokens
<1>2. access \in Tokens \union {NoToken}
  BY <1>1 DEF TokenInit
<1>3. TokenTypeOK
  BY <1>1, <1>2, Times DEF TokenInit, TokenTypeOK
<1>4. TokenInv
  BY DEF TokenInit, TokenInv, Ahead, Exchanging, Outlives, NoRequest
<1>5. QED
  BY <1>3, <1>4

\* A worker that can renew its token makes no request that is still under way
\* when its token expires, for all lifetimes, skews of at least two timeouts, and
\* any number of goroutines that fetch, drop and use it (TokenManager.Get).
THEOREM ExpiryRefusesNobody == Spec => []ExpiryNeverRefuses
<1>1. Init => TokenTypeOK /\ TokenInv
  BY TokenInits DEF Init
<1>2. TokenTypeOK /\ TokenInv /\ [Next]_vars => TokenTypeOK' /\ TokenInv'
  <2>1. SUFFICES ASSUME TokenTypeOK, TokenInv, [Next]_vars PROVE TokenTypeOK' /\ TokenInv'
    OBVIOUS
  <2>2. TokenStep
    BY <2>1, StepIsTokenStep
  <2>3. bootstrap' => TokenInv'
    BY <2>1, <2>2, TokenInvStep
  <2>4. QED
    BY <2>1, <2>2, <2>3, TokenTypes DEF TokenInv
<1>3. TokenTypeOK /\ TokenInv => ExpiryNeverRefuses
  <2>1. SUFFICES ASSUME TokenTypeOK, TokenInv, bootstrap, NEW c \in Clients,
                        req[c].phase = "sent"
                 PROVE  req[c].token.left # 0
    BY DEF ExpiryNeverRefuses
  <2>2. Outlives(c) /\ req[c].age \in 0..Timeout
    BY <2>1 DEF TokenInv, TokenTypeOK, Requests
  <2>3. QED
    BY <2>1, <2>2, Times DEF Outlives
<1>4. QED
  BY <1>1, <1>2, <1>3, PTL DEF Spec

-----------------------------------------------------------------------------
(* Types of the log.                                                       *)

LEMMA Bounds == MaxLines \in Nat /\ Attempts \in Nat \ {0}
  BY LogAssumption

\* Who sends has something to send, who waits has an attempt left, and a rule's
\* logger has nothing pending.
HasBatch ==
  /\ flow \in {"sending", "backoff"} =>
       IF kind = "rule" THEN buffer # <<>> /\ flow = "sending" ELSE pending # <<>> /\ buffer = <<>>
  /\ flow = "backoff" => attempt < Attempts
  /\ kind = "rule" => pending = <<>>

LogOK == LogTypeOK /\ HasBatch

LEMMA BatchTypes ==
  ASSUME LogTypeOK, HasBatch, flow = "sending"
  PROVE  Batch \in Batches /\ Batch[1] \in Lines
<1>1. Batch \in Batches
  BY DEF LogTypeOK, HasBatch, Batch, Batches
<1>2. QED
  BY <1>1 DEF Batches

LEMMA ArrivalTypes ==
  ASSUME LogTypeOK, NEW batch \in Batches, NEW try, Arrives(batch, BatchId(batch, try))
  PROVE  log' \in Seq(Lines) /\ ids' \subseteq Lines
<1>1. batch[1] \in Lines /\ batch \in Seq(Lines)
  BY DEF Batches
<1>2. CASE UNCHANGED <<log, ids>>
  BY <1>2 DEF LogTypeOK
<1>3. CASE log' = log \o batch /\ ids' = ids \union {batch[1]}
  BY <1>1, <1>3 DEF LogTypeOK
<1>4. QED
  BY <1>2, <1>3 DEF Arrives, BatchId

LEMMA FlushTypes ==
  ASSUME LogTypeOK, HasBatch, NEW lines \in Seq(Lines), Flush(lines), closing' \in BOOLEAN,
         UNCHANGED kind
  PROVE  /\ pending' \in Seq(Batches) /\ buffer' \in Seq(Lines)
         /\ attempt' \in 1..Attempts /\ flow' \in Flows
         /\ HasBatch'
<1> DEFINE queue == IF lines = <<>> \/ kind = "rule" THEN pending ELSE Append(pending, lines)
           work == IF kind = "rule" THEN lines # <<>> ELSE queue # <<>>
<1>1. /\ pending' = queue /\ buffer' = IF kind = "rule" THEN lines ELSE <<>>
      /\ attempt' = 1 /\ flow' = IF work THEN "sending" ELSE Resting
  BY DEF Flush
<1>2. queue \in Seq(Batches)
  BY DEF LogTypeOK, Batches
<1>3. Resting \in Flows /\ Resting \notin {"sending", "backoff"}
  BY DEF Resting, Flows
<1>4. flow' \in Flows /\ HasBatch'
  BY <1>1, <1>3 DEF Flows, HasBatch, LogTypeOK
<1>5. QED
  BY <1>1, <1>2, <1>4, Bounds DEF LogTypeOK

LEMMA FailedTypes ==
  ASSUME LogTypeOK, HasBatch, Failed
  PROVE  /\ buffer' \in Seq(Lines) /\ pending' \in Seq(Batches) /\ attempt' \in 1..Attempts
         /\ flow' \in Flows /\ HasBatch'
         /\ UNCHANGED <<kind, written, closing, canceled>>
<1>1. Resting \in Flows /\ Resting \notin {"sending", "backoff"}
  BY DEF Resting, Flows
<1>2. QED
  BY <1>1, Bounds DEF Failed, Sent, LogTypeOK, HasBatch, Flows

LEMMA LogTypes == ASSUME LogOK, LogStep PROVE LogOK'
<1>0. LogTypeOK /\ HasBatch
  BY DEF LogOK
<1>1. CASE Logf
  <2>1. Append(buffer, written + 1) \in Seq(Lines) /\ written' \in 0..MaxLines
    BY <1>0, <1>1, Bounds DEF Logf, LogTypeOK, Lines
  <2>2. CASE Full(Append(buffer, written + 1))
    BY <1>0, <1>1, <2>1, <2>2, FlushTypes DEF Logf, LogTypeOK, LogOK
  <2>3. CASE ~Full(Append(buffer, written + 1))
    BY <1>0, <1>1, <2>1, <2>3 DEF Logf, LogTypeOK, HasBatch, LogOK
  <2>4. QED
    BY <2>2, <2>3
<1>2. CASE FlushNow
  BY <1>0, <1>2, FlushTypes DEF FlushNow, LogTypeOK, LogOK
<1>3. CASE Cancel
  BY <1>0, <1>3 DEF Cancel, LogTypeOK, HasBatch, LogOK
<1>4. CASE Delivered
  <2>1. /\ flow = "sending" /\ Arrives(Batch, BatchId(Batch, attempt)) /\ buffer' = <<>>
        /\ pending' = (IF kind = "rule" THEN pending ELSE Tail(pending))
        /\ attempt' = 1 /\ flow' = (IF pending' = <<>> THEN Resting ELSE "sending")
        /\ UNCHANGED <<kind, written, closing, canceled, late>>
    BY <1>4 DEF Delivered, Sent
  <2>2. log' \in Seq(Lines) /\ ids' \subseteq Lines
    BY <1>0, <2>1, BatchTypes, ArrivalTypes
  <2>3. pending' \in Seq(Batches)
    BY <1>0, <2>1 DEF LogTypeOK, HasBatch
  <2>4. Resting \in Flows /\ Resting \notin {"sending", "backoff"}
    BY DEF Resting, Flows
  <2>5. QED
    BY <1>0, <2>1, <2>2, <2>3, <2>4, Bounds DEF LogTypeOK, HasBatch, Flows, LogOK
<1>5. CASE FailedUnseen
  BY <1>0, <1>5, FailedTypes DEF FailedUnseen, LogTypeOK, LogOK
<1>6. CASE FailedAfterArrival
  <2>1. log' \in Seq(Lines) /\ ids' \subseteq Lines
    BY <1>0, <1>6, BatchTypes, ArrivalTypes DEF FailedAfterArrival, Failed, Sent
  <2>2. QED
    BY <1>0, <1>6, <2>1, FailedTypes DEF FailedAfterArrival, LogTypeOK, LogOK
<1>7. CASE FailedDelayed
  <2>1. Batch \in Batches
    BY <1>0, <1>7, BatchTypes DEF FailedDelayed, Failed, Sent
  <2>2. QED
    BY <1>0, <1>7, <2>1, FailedTypes DEF FailedDelayed, LogTypeOK, LogOK
<1>8. CASE Retry
  <2>1. attempt' \in 1..Attempts
    BY <1>0, <1>8, Bounds DEF Retry, LogTypeOK, HasBatch
  <2>2. QED
    BY <1>0, <1>8, <2>1 DEF Retry, LogTypeOK, HasBatch, Flows, LogOK
<1>9. CASE StopWaiting
  BY <1>0, <1>9, Bounds DEF StopWaiting, Resting, LogTypeOK, HasBatch, Flows, LogOK
<1>10. CASE ArrivesLate
  <2>1. PICK batch \in late :
          /\ late' = late \ {batch}
          /\ Arrives(batch, BatchId(batch, 1)) \/ UNCHANGED <<log, ids>>
          /\ UNCHANGED <<kind, written, buffer, pending, attempt, flow, closing, canceled>>
    BY <1>10 DEF ArrivesLate
  <2>2. log' \in Seq(Lines) /\ ids' \subseteq Lines
    BY <1>0, <2>1, ArrivalTypes DEF LogTypeOK
  <2>3. QED
    BY <1>0, <2>1, <2>2 DEF LogTypeOK, HasBatch, LogOK
<1>11. CASE UNCHANGED logVars
  BY <1>0, <1>11 DEF logVars, LogTypeOK, HasBatch, LogOK
<1>12. QED
  BY <1>1, <1>2, <1>3, <1>4, <1>5, <1>6, <1>7, <1>8, <1>9, <1>10, <1>11 DEF LogStep

LEMMA LogInits == ASSUME LogInit PROVE LogOK
<1>1. <<>> \in Seq(Lines) /\ <<>> \in Seq(Batches)
  OBVIOUS
<1>2. /\ written \in 0..MaxLines /\ attempt \in 1..Attempts /\ flow \in Flows
      /\ kind \in {"deploy", "rule"} /\ late \subseteq Batches /\ ids \subseteq Lines
  BY Bounds DEF LogInit, Flows
<1>3. LogTypeOK
  BY <1>1, <1>2 DEF LogInit, LogTypeOK
<1>4. HasBatch
  BY DEF LogInit, HasBatch
<1>5. QED
  BY <1>3, <1>4 DEF LogOK

\* Every variable of the requests keeps its type: tokens and what is believed of
\* them, requests under way, batches collected, pending, given up and received.
THEOREM TypeCorrectness == Spec => []TypeOK
<1>1. Init => TokenTypeOK /\ LogOK
  BY TokenInits, LogInits DEF Init
<1>2. TokenTypeOK /\ LogOK /\ [Next]_vars => TokenTypeOK' /\ LogOK'
  BY StepIsTokenStep, StepIsLogStep, TokenTypes, LogTypes
<1>3. TokenTypeOK /\ LogOK => TypeOK
  BY DEF LogOK, TypeOK
<1>4. QED
  BY <1>1, <1>2, <1>3, PTL DEF Spec

-----------------------------------------------------------------------------
(* The order of a deploy's log.                                            *)

\* A batch holds consecutive lines.
Run(batch) == batch \in Batches /\ \A i \in 1..Len(batch) : batch[i] = batch[1] + i - 1
Final(batch) == batch[1] + Len(batch) - 1

\* The API has the first lines; the batches pending follow each other, and the
\* buffer follows them, up to the last line written.
Prefix == Len(log) <= written /\ \A i \in 1..Len(log) : log[i] = i
Chain ==
  /\ \A i \in 1..Len(pending) : Run(pending[i]) /\ Final(pending[i]) <= written
  /\ \A i \in 1..(Len(pending) - 1) : pending[i + 1][1] = Final(pending[i]) + 1
Rest ==
  /\ buffer # <<>> => Run(buffer) /\ Final(buffer) = written
  /\ written - Len(buffer) = IF pending = <<>> THEN Len(log) ELSE Final(pending[Len(pending)])

\* The batch at the front is what the API lacks, or what it had last; it has
\* seen no id of a line it lacks; what may still arrive it has seen, or it is
\* the batch at the front.
Front ==
  pending # <<>> =>
    \/ pending[1][1] = Len(log) + 1
    \/ pending[1][1] \in ids /\ Final(pending[1]) = Len(log)
Known == \A id \in ids : id <= Len(log)
Late == \A batch \in late :
          Run(batch) /\ (batch[1] \in ids \/ (pending # <<>> /\ batch = pending[1]))

InOrder == Prefix /\ Chain /\ Rest /\ Front /\ Known /\ Late
OrderInv == kind = "deploy" => InOrder

\* A batch at the front that arrives continues the log, or changes nothing.
LEMMA FrontArrives ==
  ASSUME LogTypeOK, kind = "deploy", InOrder, pending # <<>>, NEW try,
         Arrives(pending[1], BatchId(pending[1], try)), UNCHANGED written
  PROVE  /\ Prefix' /\ Known' /\ ids \subseteq ids' /\ pending[1][1] \in ids'
         /\ Len(log') = Final(pending[1])
         /\ \/ UNCHANGED log
            \/ Len(log') > Len(log)
<1> DEFINE batch == pending[1]
<1>1. /\ pending \in Seq(Batches) /\ log \in Seq(Lines) /\ written \in Nat
      /\ Len(pending) \in Nat /\ Len(pending) > 0 /\ Len(log) \in Nat
  BY Bounds DEF LogTypeOK
<1>2. Run(batch) /\ Final(batch) <= written
  BY <1>1 DEF InOrder, Chain
<1>3. batch \in Seq(Lines) /\ Len(batch) \in Nat /\ Len(batch) > 0 /\ batch[1] \in Nat
  BY <1>2, Bounds DEF Run, Batches, Lines
<1>4. CASE batch[1] \in ids
  <2>1. UNCHANGED <<log, ids>>
    BY <1>4 DEF Arrives, BatchId
  <2>2. batch[1] <= Len(log)
    BY <1>4 DEF InOrder, Known
  <2>3. Final(batch) = Len(log)
    BY <1>1, <1>3, <2>2 DEF InOrder, Front
  <2>4. QED
    BY <1>4, <2>1, <2>3 DEF InOrder, Prefix, Known
<1>5. CASE batch[1] \notin ids
  <2>1. log' = log \o batch /\ ids' = ids \union {batch[1]}
    BY <1>5 DEF Arrives, BatchId
  <2>2. batch[1] = Len(log) + 1
    BY <1>5 DEF InOrder, Front
  <2>3. Len(log') = Len(log) + Len(batch) /\ Len(log') = Final(batch)
    <3>1. log \in Seq(Nat) /\ batch \in Seq(Nat)
      BY <1>1, <1>3, Bounds DEF Lines
    <3>2. Len(log \o batch) = Len(log) + Len(batch)
      BY <3>1
    <3>3. Len(log') = Len(log \o batch)
      BY <2>1
    <3>4. \A m, n \in Nat : (m + 1) + n - 1 = m + n
      OBVIOUS
    <3>5. Final(batch) = Len(log) + Len(batch)
      BY <1>1, <1>3, <2>2, <3>4 DEF Final
    <3>6. QED
      BY <3>2, <3>3, <3>5
  <2>4. ASSUME NEW i \in 1..Len(log') PROVE log'[i] = i
    <3>1. CASE i <= Len(log)
      BY <1>1, <1>3, <2>1, <2>3, <3>1 DEF InOrder, Prefix
    <3>2. CASE i > Len(log)
      <4>1. log'[i] = batch[i - Len(log)] /\ i - Len(log) \in 1..Len(batch)
        BY <1>1, <1>3, <2>1, <2>3, <3>2
      <4>2. QED
        BY <1>1, <1>2, <2>2, <4>1 DEF Run
    <3>3. QED
      BY <1>1, <2>3, <1>3, <3>1, <3>2
  <2>5. Known'
    <3>1. SUFFICES ASSUME NEW id \in ids' PROVE id <= Len(log')
      BY DEF Known
    <3>2. CASE id \in ids
      BY <1>1, <1>3, <2>3, <3>2, Bounds DEF InOrder, Known, LogTypeOK, Lines
    <3>3. CASE id = batch[1]
      BY <1>1, <1>3, <2>2, <2>3, <3>3
    <3>4. QED
      BY <2>1, <3>2, <3>3
  <2>6. QED
    BY <1>1, <1>2, <1>3, <2>1, <2>3, <2>4, <2>5 DEF Prefix
<1>6. QED
  BY <1>4, <1>5

\* One more line in the buffer.
LEMMA LineWritten ==
  ASSUME LogTypeOK, kind = "deploy", InOrder, written < MaxLines,
         NEW lines, lines = Append(buffer, written + 1)
  PROVE  /\ lines # <<>> /\ Len(lines) = Len(buffer) + 1
         /\ Run(lines) /\ Final(lines) = written + 1
<1>1. buffer \in Seq(Lines) /\ written + 1 \in Lines /\ Len(buffer) \in Nat /\ written \in Nat
  BY Bounds DEF LogTypeOK, Lines
<1>2. lines \in Seq(Lines) /\ lines # <<>> /\ Len(lines) = Len(buffer) + 1
  BY <1>1
<1>3. lines \in Batches
  BY <1>2 DEF Batches
<1>4. lines[Len(buffer) + 1] = written + 1 /\ \A i \in 1..Len(buffer) : lines[i] = buffer[i]
  BY <1>1
<1>5. CASE buffer = <<>>
  <2>1. Len(buffer) = 0 /\ lines[1] = written + 1 /\ Len(lines) = 1
    BY <1>2, <1>4, <1>5
  <2>2. QED
    BY <1>1, <1>2, <1>3, <2>1 DEF Run, Final
<1>6. CASE buffer # <<>>
  <2>1. /\ \A i \in 1..Len(buffer) : buffer[i] = buffer[1] + i - 1
        /\ buffer[1] + Len(buffer) - 1 = written
    BY <1>6 DEF InOrder, Rest, Run, Final
  <2>2. Len(buffer) > 0 /\ buffer[1] \in Nat
    BY <1>1, <1>6, Bounds DEF Lines
  <2>3. lines[1] = buffer[1]
    BY <1>1, <1>4, <2>2
  <2>4. \A i \in 1..Len(lines) : lines[i] = lines[1] + i - 1
    <3>1. SUFFICES ASSUME NEW i \in 1..Len(lines) PROVE lines[i] = lines[1] + i - 1
      OBVIOUS
    <3>2. CASE i <= Len(buffer)
      BY <1>1, <1>2, <1>4, <2>1, <2>3, <3>2
    <3>3. CASE i = Len(buffer) + 1
      BY <1>1, <1>2, <1>4, <2>1, <2>2, <2>3, <3>3
    <3>4. QED
      BY <1>1, <1>2, <3>2, <3>3
  <2>5. Final(lines) = written + 1
    BY <1>1, <1>2, <2>1, <2>2, <2>3 DEF Final
  <2>6. QED
    BY <1>2, <1>3, <2>4, <2>5 DEF Run
<1>7. QED
  BY <1>5, <1>6

\* Flushing lines that follow what was written before them.
LEMMA FlushKeepsOrder ==
  ASSUME LogTypeOK, kind = "deploy", Prefix, Chain, Front, Known, Late,
         NEW lines \in Seq(Lines), Flush(lines), UNCHANGED <<kind, late, log, ids>>,
         written' \in Nat, written <= written',
         lines # <<>> => Run(lines) /\ Final(lines) = written',
         written' - Len(lines) = IF pending = <<>> THEN Len(log) ELSE Final(pending[Len(pending)])
  PROVE  InOrder'
<1>1. /\ pending \in Seq(Batches) /\ Len(pending) \in Nat /\ log \in Seq(Lines)
      /\ Len(log) \in Nat /\ written \in Nat /\ Len(lines) \in Nat
  BY Bounds DEF LogTypeOK
<1>2. buffer' = <<>> /\ Len(buffer') = 0
  BY DEF Flush
<1>3. Prefix' /\ Known'
  BY <1>1 DEF Prefix, Known
<1>4. CASE lines = <<>>
  <2>1. pending' = pending /\ Len(lines) = 0
    BY <1>4 DEF Flush
  <2>2. Chain'
    <3>1. \A i \in 1..Len(pending) : Final(pending[i]) \in Int
      <4>1. \A i \in 1..Len(pending) : pending[i] \in Seq(Lines) /\ pending[i] # <<>>
        BY <1>1 DEF Batches
      <4>2. QED
        BY <4>1, Bounds DEF Final, Lines
    <3>2. QED
      BY <1>1, <2>1, <3>1 DEF Chain
  <2>3. Front' /\ Late' /\ Rest'
    BY <1>1, <1>2, <2>1 DEF Front, Late, Rest
  <2>4. QED
    BY <1>3, <2>2, <2>3 DEF InOrder
<1>5. CASE lines # <<>>
  <2>1. pending' = Append(pending, lines) /\ lines \in Batches
    BY <1>5 DEF Flush, Batches
  <2>2. /\ Len(pending') = Len(pending) + 1 /\ pending'[Len(pending) + 1] = lines
        /\ \A i \in 1..Len(pending) : pending'[i] = pending[i]
    BY <1>1, <2>1
  <2>3. Len(lines) > 0 /\ lines[1] \in Nat /\ Final(lines) = lines[1] + Len(lines) - 1
    BY <1>1, <1>5, Bounds DEF Lines, Final
  <2>4. Run(lines) /\ Final(lines) = written'
    BY <1>5
  <2>5. \A i \in 1..Len(pending) : Final(pending[i]) \in Int
    <3>1. \A i \in 1..Len(pending) : pending[i] \in Seq(Lines) /\ pending[i] # <<>>
      BY <1>1 DEF Batches
    <3>2. QED
      BY <3>1, Bounds DEF Final, Lines
  <2>6. Chain'
    <3>1. ASSUME NEW i \in 1..Len(pending') PROVE Run(pending'[i]) /\ Final(pending'[i]) <= written'
      <4>1. CASE i \in 1..Len(pending)
        BY <1>1, <2>2, <2>5, <4>1 DEF Chain
      <4>2. CASE i = Len(pending) + 1
        BY <2>2, <2>4, <4>2
      <4>3. QED
        BY <1>1, <2>2, <4>1, <4>2
    <3>2. ASSUME NEW i \in 1..(Len(pending') - 1) PROVE pending'[i + 1][1] = Final(pending'[i]) + 1
      <4>1. CASE i \in 1..(Len(pending) - 1)
        <5>1. i \in 1..Len(pending) /\ i + 1 \in 1..Len(pending)
          BY <1>1, <4>1
        <5>2. pending'[i] = pending[i] /\ pending'[i + 1] = pending[i + 1]
          BY <2>2, <5>1
        <5>3. QED
          BY <4>1, <5>2 DEF Chain
      <4>2. CASE i = Len(pending)
        <5>1. pending # <<>> /\ pending'[i] = pending[Len(pending)] /\ pending'[i + 1] = lines
          BY <1>1, <2>2, <4>2
        <5>2. written' - Len(lines) = Final(pending[Len(pending)])
          BY <5>1
        <5>3. lines[1] = written' - Len(lines) + 1
          BY <1>1, <2>3, <2>4
        <5>4. QED
          BY <5>1, <5>2, <5>3
      <4>3. QED
        BY <1>1, <2>2, <4>1, <4>2
    <3>3. QED
      BY <3>1, <3>2 DEF Chain
  <2>7. pending' # <<>> /\ Rest'
    BY <1>1, <1>2, <2>2, <2>4 DEF Rest
  <2>8. CASE pending = <<>>
    <3>1. pending'[1] = lines
      BY <2>2, <2>8
    <3>2. lines[1] = Len(log) + 1
      BY <1>1, <2>3, <2>4, <2>8
    <3>3. Front' /\ Late'
      BY <2>8, <3>1, <3>2 DEF Front, Late
    <3>4. QED
      BY <1>3, <2>6, <2>7, <3>3 DEF InOrder
  <2>9. CASE pending # <<>>
    <3>1. pending'[1] = pending[1]
      BY <1>1, <2>2, <2>9
    <3>2. Front' /\ Late'
      BY <2>9, <2>7, <3>1 DEF Front, Late
    <3>3. QED
      BY <1>3, <2>6, <2>7, <3>2 DEF InOrder
  <2>10. QED
    BY <2>8, <2>9
<1>6. QED
  BY <1>4, <1>5

\* What a step is to an ordered log: a line is written, or some arrive.
Grows ==
  \/ written < MaxLines /\ written' = written + 1 /\ UNCHANGED log
  \/ UNCHANGED <<written, log>>
  \/ UNCHANGED written /\ Len(log') > Len(log)

LEMMA OrderStep ==
  ASSUME LogOK, LogStep, kind = "deploy", InOrder
  PROVE  InOrder' /\ Grows
<1>0. /\ LogTypeOK /\ HasBatch
      /\ pending \in Seq(Batches) /\ Len(pending) \in Nat /\ Len(log) \in Nat
      /\ written \in Nat /\ buffer \in Seq(Lines) /\ Len(buffer) \in Nat
      /\ Prefix /\ Chain /\ Rest /\ Front /\ Known /\ Late
  BY Bounds DEF LogOK, LogTypeOK, InOrder
<1>1. CASE Logf
  <2>1. PICK lines : lines = Append(buffer, written + 1)
    OBVIOUS
  <2>2. /\ written < MaxLines /\ written' = written + 1 /\ UNCHANGED <<kind, late, log, ids>>
        /\ IF Full(lines) THEN Flush(lines)
           ELSE buffer' = lines /\ UNCHANGED <<pending, attempt, flow>>
    BY <1>1, <2>1 DEF Logf
  <2>3. /\ lines # <<>> /\ Len(lines) = Len(buffer) + 1
        /\ Run(lines) /\ Final(lines) = written + 1
    BY <1>0, <2>1, <2>2, LineWritten
  <2>4. lines \in Seq(Lines)
    BY <2>3 DEF Run, Batches
  <2>5. written' \in Nat /\ written <= written' /\ written' - Len(lines) = written - Len(buffer)
    BY <1>0, <2>2, <2>3
  <2>6. written' - Len(lines) = IF pending = <<>> THEN Len(log) ELSE Final(pending[Len(pending)])
    BY <1>0, <2>5 DEF Rest
  <2>7. CASE Full(lines)
    BY <1>0, <2>2, <2>3, <2>4, <2>5, <2>6, <2>7, FlushKeepsOrder DEF Grows
  <2>8. CASE ~Full(lines)
    <3>1. buffer' = lines /\ UNCHANGED <<pending, log, late, ids>>
      BY <2>2, <2>8
    <3>2. Rest'
      BY <2>2, <2>3, <2>6, <3>1 DEF Rest
    <3>3. \A i \in 1..Len(pending) : Final(pending[i]) \in Int
      <4>1. \A i \in 1..Len(pending) : pending[i] \in Seq(Lines) /\ pending[i] # <<>>
        BY <1>0 DEF Batches
      <4>2. QED
        BY <4>1, Bounds DEF Final, Lines
    <3>4. Chain'
      BY <1>0, <2>5, <3>1, <3>3 DEF Chain
    <3>5. Prefix' /\ Front' /\ Known' /\ Late'
      BY <1>0, <2>5, <3>1 DEF Prefix, Front, Known, Late
    <3>6. QED
      BY <2>2, <3>2, <3>4, <3>5 DEF InOrder, Grows
  <2>9. QED
    BY <2>7, <2>8
<1>2. CASE FlushNow
  <2>1. Flush(buffer) /\ UNCHANGED <<kind, written, late, log, ids>>
    BY <1>2 DEF FlushNow
  <2>2. /\ buffer # <<>> => Run(buffer) /\ Final(buffer) = written'
        /\ written' - Len(buffer) = IF pending = <<>> THEN Len(log) ELSE Final(pending[Len(pending)])
        /\ written' \in Nat /\ written <= written'
    BY <1>0, <2>1 DEF Rest
  <2>3. QED
    BY <1>0, <2>1, <2>2, FlushKeepsOrder DEF Grows
\* The batch at the front is being sent.
<1>3. CASE flow = "sending" /\ buffer' = <<>> /\ UNCHANGED <<kind, written>>
           /\ Arrives(Batch, BatchId(Batch, attempt)) /\ UNCHANGED <<pending, late>>
  <2>1. pending # <<>> /\ Batch = pending[1] /\ buffer = <<>>
    BY <1>0, <1>3 DEF HasBatch, Batch
  <2>2. /\ Prefix' /\ Known' /\ ids \subseteq ids' /\ pending[1][1] \in ids'
        /\ Len(log') = Final(pending[1]) /\ (UNCHANGED log \/ Len(log') > Len(log))
    BY <1>0, <1>3, <2>1, FrontArrives
  <2>3. Chain' /\ Rest' /\ Front' /\ Late'
    BY <1>0, <1>3, <2>1, <2>2 DEF Chain, Rest, Front, Late
  <2>4. QED
    BY <1>3, <2>2, <2>3 DEF InOrder, Grows
<1>4. CASE Delivered
  <2>1. /\ flow = "sending" /\ Arrives(Batch, BatchId(Batch, attempt)) /\ buffer' = <<>>
        /\ pending' = Tail(pending) /\ UNCHANGED <<written, late>>
    BY <1>4 DEF Delivered, Sent
  <2>2. pending # <<>> /\ Batch = pending[1] /\ buffer = <<>>
    BY <1>0, <2>1 DEF HasBatch, Batch
  <2>3. /\ Prefix' /\ Known' /\ ids \subseteq ids' /\ pending[1][1] \in ids'
        /\ Len(log') = Final(pending[1]) /\ (UNCHANGED log \/ Len(log') > Len(log))
    BY <1>0, <2>1, <2>2, FrontArrives
  <2>4. Len(pending') = Len(pending) - 1 /\ \A i \in 1..Len(pending') : pending'[i] = pending[i + 1]
    BY <1>0, <2>1, <2>2
  <2>5. Chain'
    <3>1. ASSUME NEW i \in 1..Len(pending') PROVE Run(pending'[i]) /\ Final(pending'[i]) <= written'
      BY <1>0, <2>1, <2>4 DEF Chain
    <3>2. ASSUME NEW i \in 1..(Len(pending') - 1) PROVE pending'[i + 1][1] = Final(pending'[i]) + 1
      <4>1. i + 1 \in 1..(Len(pending) - 1) /\ i \in 1..Len(pending') /\ i + 1 \in 1..Len(pending')
        BY <1>0, <2>4
      <4>2. pending'[i] = pending[i + 1] /\ pending'[i + 1] = pending[i + 1 + 1]
        BY <2>4, <4>1
      <4>3. QED
        BY <1>0, <4>1, <4>2 DEF Chain
    <3>3. QED
      BY <3>1, <3>2 DEF Chain
  <2>6. CASE pending' = <<>>
    <3>1. Len(pending) = 1
      BY <1>0, <2>4, <2>6
    <3>2. written = Final(pending[1])
      BY <1>0, <2>2, <3>1 DEF Rest
    <3>3. Rest'
      BY <1>0, <2>1, <2>3, <2>6, <3>2 DEF Rest
    <3>4. Front' /\ Late'
      BY <1>0, <2>1, <2>2, <2>3, <2>6 DEF Front, Late
    <3>5. QED
      BY <2>1, <2>3, <2>5, <3>3, <3>4 DEF InOrder, Grows
  <2>7. CASE pending' # <<>>
    <3>1. Len(pending') > 0 /\ Len(pending) > 1
      BY <1>0, <2>1, <2>2, <2>4, <2>7
    <3>2. pending'[1] = pending[2] /\ pending[2][1] = Final(pending[1]) + 1
      BY <1>0, <2>4, <3>1 DEF Chain
    <3>3. pending'[Len(pending')] = pending[Len(pending)]
      BY <1>0, <2>4, <3>1
    <3>4. written = Final(pending[Len(pending)])
      BY <1>0, <2>2 DEF Rest
    <3>5. Rest'
      BY <1>0, <2>1, <2>7, <3>3, <3>4 DEF Rest
    <3>6. Front' /\ Late'
      BY <1>0, <2>1, <2>2, <2>3, <3>2 DEF Front, Late
    <3>7. QED
      BY <2>1, <2>3, <2>5, <3>5, <3>6 DEF InOrder, Grows
  <2>8. QED
    BY <2>6, <2>7
<1>5. CASE FailedAfterArrival
  BY <1>3, <1>5 DEF FailedAfterArrival, Failed, Sent
<1>6. CASE FailedUnseen \/ FailedDelayed
  <2>1. /\ flow = "sending" /\ buffer' = <<>> /\ UNCHANGED <<kind, written, pending, log, ids>>
        /\ late' \subseteq late \union {Batch}
    BY <1>6 DEF FailedUnseen, FailedDelayed, Failed, Sent
  <2>2. pending # <<>> /\ Batch = pending[1] /\ buffer = <<>>
    BY <1>0, <2>1 DEF HasBatch, Batch
  <2>3. Late'
    <3>1. Run(pending[1])
      BY <1>0, <2>2 DEF Chain
    <3>2. QED
      BY <1>0, <2>1, <2>2, <3>1 DEF Late
  <2>4. Prefix' /\ Chain' /\ Rest' /\ Front' /\ Known'
    BY <1>0, <2>1, <2>2 DEF Prefix, Chain, Rest, Front, Known
  <2>5. QED
    BY <2>1, <2>3, <2>4 DEF InOrder, Grows
<1>7. CASE Retry \/ StopWaiting \/ Cancel \/ UNCHANGED logVars
  <2>1. UNCHANGED <<written, buffer, pending, late, log, ids>>
    BY <1>7 DEF Retry, StopWaiting, Cancel, logVars
  <2>2. QED
    BY <1>0, <2>1 DEF InOrder, Prefix, Chain, Rest, Front, Known, Late, Grows
<1>8. CASE ArrivesLate
  <2>1. PICK batch \in late :
          /\ late' = late \ {batch}
          /\ Arrives(batch, BatchId(batch, 1)) \/ UNCHANGED <<log, ids>>
          /\ UNCHANGED <<kind, written, buffer, pending>>
    BY <1>8 DEF ArrivesLate
  <2>2. CASE UNCHANGED <<log, ids>>
    <3>1. Late'
      BY <1>0, <2>1, <2>2 DEF Late
    <3>2. Prefix' /\ Chain' /\ Rest' /\ Front' /\ Known'
      BY <1>0, <2>1, <2>2 DEF Prefix, Chain, Rest, Front, Known
    <3>3. QED
      BY <2>1, <2>2, <3>1, <3>2 DEF InOrder, Grows
  <2>3. CASE batch[1] \in ids /\ Arrives(batch, BatchId(batch, 1))
    BY <2>2, <2>3 DEF Arrives, BatchId
  <2>4. CASE pending # <<>> /\ batch = pending[1] /\ Arrives(batch, BatchId(batch, 1))
    <3>1. /\ Prefix' /\ Known' /\ ids \subseteq ids' /\ pending[1][1] \in ids'
          /\ Len(log') = Final(pending[1]) /\ (UNCHANGED log \/ Len(log') > Len(log))
      BY <1>0, <2>1, <2>4, FrontArrives
    <3>2. Chain' /\ Rest' /\ Front' /\ Late'
      BY <1>0, <2>1, <2>4, <3>1 DEF Chain, Rest, Front, Late
    <3>3. QED
      BY <2>1, <3>1, <3>2 DEF InOrder, Grows
  <2>5. QED
    BY <1>0, <2>1, <2>2, <2>3, <2>4 DEF Late
<1>9. QED
  BY <1>1, <1>2, <1>4, <1>5, <1>6, <1>7, <1>8 DEF LogStep

LEMMA OrderInit == ASSUME LogInit PROVE OrderInv
<1>1. written = 0 /\ buffer = <<>> /\ pending = <<>> /\ late = {} /\ log = <<>> /\ ids = {}
  BY DEF LogInit
<1>2. InOrder
  <2>1. Len(log) = 0 /\ Len(buffer) = 0 /\ Len(pending) = 0
    BY <1>1
  <2>2. Prefix /\ Chain
    <3>1. 1..0 = {} /\ 1..(0 - 1) = {}
      OBVIOUS
    <3>2. Prefix
      BY <1>1, <2>1, <3>1 DEF Prefix
    <3>3. Chain
      BY <2>1, <3>1 DEF Chain
    <3>4. QED
      BY <3>2, <3>3
  <2>3. Rest
    <3>1. written = 0 /\ 0 - 0 = 0
      BY <1>1
    <3>2. written - Len(buffer) = Len(log)
      BY <2>1, <3>1
    <3>3. QED
      BY <1>1, <3>2 DEF Rest
  <2>4. Front /\ Known /\ Late
    BY <1>1 DEF Front, Known, Late
  <2>5. QED
    BY <2>2, <2>3, <2>4 DEF InOrder
<1>3. QED
  BY <1>2 DEF OrderInv

LEMMA KindKept == ASSUME LogStep PROVE UNCHANGED kind
  BY DEF LogStep, Logf, FlushNow, Cancel, Delivered, FailedUnseen, FailedAfterArrival,
     FailedDelayed, Failed, Sent, Retry, StopWaiting, ArrivesLate, logVars

\* A deploy's log is an ordered log, for batches of any size, any number of
\* attempts and lines, and every way in which requests are lost, come late or
\* are broken off (DeployLogger.Flush).
THEOREM DeploysLogInOrder == Spec => OrderedLogSpec
<1>1. Init => TokenTypeOK /\ LogOK /\ OrderInv /\ Ordered!Init
  <2>1. SUFFICES ASSUME Init PROVE TokenTypeOK /\ LogOK /\ OrderInv /\ Ordered!Init
    OBVIOUS
  <2>2. Ordered!Init
    BY <2>1 DEF Init, LogInit, Ordered!Init
  <2>3. QED
    BY <2>1, <2>2, TokenInits, LogInits, OrderInit DEF Init
<1>2. LogOK /\ OrderInv /\ [Next]_vars => LogOK' /\ OrderInv' /\ [Ordered!Next]_Ordered!vars
  <2>1. SUFFICES ASSUME LogOK, OrderInv, [Next]_vars
                 PROVE  LogOK' /\ OrderInv' /\ [Ordered!Next]_Ordered!vars
    OBVIOUS
  <2>2. LogStep /\ LogOK'
    BY <2>1, StepIsLogStep, LogTypes
  <2>3. UNCHANGED kind
    BY <2>2, KindKept
  <2>4. CASE kind # "deploy"
    BY <2>2, <2>3, <2>4 DEF OrderInv, Ordered!vars
  <2>5. CASE kind = "deploy"
    <3>1. InOrder' /\ Grows
      BY <2>1, <2>2, <2>5, OrderStep DEF OrderInv
    <3>2. Len(log') \in 0..written' /\ log' = Ordered!Lines(Len(log'))
      <4>1. log' \in Seq(Lines) /\ Prefix' /\ written' \in Nat
        BY <2>2, <3>1, Bounds DEF LogOK, LogTypeOK, InOrder
      <4>2. QED
        BY <4>1 DEF Prefix, Ordered!Lines
    <3>3. CASE written < MaxLines /\ written' = written + 1 /\ UNCHANGED log
      <4>1. Ordered!Write
        BY <2>3, <2>5, <3>3 DEF Ordered!Write
      <4>2. QED
        BY <2>2, <2>3, <3>1, <4>1 DEF Ordered!Next, OrderInv
    <3>4. CASE UNCHANGED <<written, log>>
      BY <2>2, <2>3, <2>5, <3>1, <3>4 DEF Ordered!vars, OrderInv
    <3>5. CASE UNCHANGED written /\ Len(log') > Len(log)
      <4>1. Len(log') \in 1..written
        BY <2>1, <3>2, <3>5 DEF LogOK, LogTypeOK
      <4>2. Ordered!Receive
        BY <2>3, <2>5, <3>2, <3>5, <4>1 DEF Ordered!Receive
      <4>3. QED
        BY <2>2, <2>3, <3>1, <4>2 DEF Ordered!Next, OrderInv
    <3>6. QED
      BY <3>1, <3>3, <3>4, <3>5 DEF Grows
  <2>6. QED
    BY <2>4, <2>5
<1>3. QED
  BY <1>1, <1>2, PTL DEF Spec, OrderedLogSpec, Ordered!Spec

-----------------------------------------------------------------------------
(* No line twice: a deploy's log is in order, a rule's batches share no     *)
(* line and each of them arrives at most once.                             *)

Distinct(lines) == \A i, j \in 1..Len(lines) : lines[i] = lines[j] => i = j
Apart(lines, others) == \A i \in 1..Len(lines), j \in 1..Len(others) : lines[i] # others[j]
UpTo(lines, n) == \A i \in 1..Len(lines) : lines[i] <= n

\* What arrived, what may still arrive and what is in the buffer have no line in
\* common, and none of them the next line.
Separate ==
  /\ Distinct(log) /\ Distinct(buffer) /\ Apart(log, buffer)
  /\ UpTo(log, written) /\ UpTo(buffer, written)
Delayed ==
  /\ \A batch \in late :
       /\ Distinct(batch) /\ UpTo(batch, written)
       /\ Apart(log, batch) /\ Apart(buffer, batch)
  /\ \A batch, other \in late : batch = other \/ Apart(batch, other)

RuleInv == kind = "rule" => Separate /\ Delayed

LEMMA Joined ==
  ASSUME NEW s \in Seq(Lines), NEW t \in Seq(Lines), Distinct(s), Distinct(t), Apart(s, t)
  PROVE  /\ Distinct(s \o t)
         /\ \A n \in Nat : UpTo(s, n) /\ UpTo(t, n) => UpTo(s \o t, n)
         /\ \A r \in Seq(Lines) : Apart(s, r) /\ Apart(t, r) => Apart(s \o t, r)
<1>1. Len(s) \in Nat /\ Len(t) \in Nat /\ Len(s \o t) = Len(s) + Len(t)
  OBVIOUS
<1>2. ASSUME NEW i \in 1..Len(s \o t)
      PROVE  \/ i \in 1..Len(s) /\ (s \o t)[i] = s[i]
             \/ i - Len(s) \in 1..Len(t) /\ (s \o t)[i] = t[i - Len(s)]
  BY <1>1
<1>3. Distinct(s \o t)
  <2>1. SUFFICES ASSUME NEW i \in 1..Len(s \o t), NEW j \in 1..Len(s \o t),
                        (s \o t)[i] = (s \o t)[j]
                 PROVE  i = j
    BY DEF Distinct
  <2>2. CASE i \in 1..Len(s) /\ (s \o t)[i] = s[i]
    BY <1>2, <2>1, <2>2 DEF Distinct, Apart
  <2>3. CASE i - Len(s) \in 1..Len(t) /\ (s \o t)[i] = t[i - Len(s)]
    <3>1. CASE j \in 1..Len(s) /\ (s \o t)[j] = s[j]
      BY <2>1, <2>3, <3>1 DEF Apart
    <3>2. CASE j - Len(s) \in 1..Len(t) /\ (s \o t)[j] = t[j - Len(s)]
      <4>1. i - Len(s) = j - Len(s)
        BY <2>1, <2>3, <3>2 DEF Distinct
      <4>2. QED
        BY <1>1, <4>1
    <3>3. QED
      BY <1>2, <3>1, <3>2
  <2>4. QED
    BY <1>2, <2>2, <2>3
<1>4. \A n \in Nat : UpTo(s, n) /\ UpTo(t, n) => UpTo(s \o t, n)
  BY <1>2 DEF UpTo
<1>5. \A r \in Seq(Lines) : Apart(s, r) /\ Apart(t, r) => Apart(s \o t, r)
  BY <1>2 DEF Apart
<1>6. QED
  BY <1>3, <1>4, <1>5

LEMMA RuleStep ==
  ASSUME LogOK, LogStep, kind = "rule", Separate, Delayed
  PROVE  Separate' /\ Delayed'
<1>0. /\ LogTypeOK /\ written \in Nat /\ log \in Seq(Lines) /\ buffer \in Seq(Lines)
      /\ Len(log) \in Nat /\ Len(buffer) \in Nat
      /\ \A batch \in late : batch \in Seq(Lines) /\ Len(batch) \in Nat
  BY Bounds DEF LogOK, LogTypeOK, Batches
<1>1. ASSUME UNCHANGED <<log, buffer, late, written>> PROVE Separate' /\ Delayed'
  BY <1>1 DEF Separate, Delayed
\* The buffer is forgotten.
<1>2. ASSUME buffer' = <<>>, UNCHANGED <<log, written>>, late' \subseteq late \union {buffer}
      PROVE  Separate' /\ Delayed'
  <2>1. Separate'
    BY <1>2 DEF Separate, Distinct, Apart, UpTo
  <2>2. Delayed'
    BY <1>2 DEF Separate, Delayed, Apart
  <2>3. QED
    BY <2>1, <2>2
\* The buffer arrives.
<1>3. ASSUME buffer' = <<>>, log' = log \o buffer, UNCHANGED <<written, late>>
      PROVE  Separate' /\ Delayed'
  <2>1. /\ Distinct(log') /\ UpTo(log', written)
        /\ \A batch \in late : Apart(log', batch)
    BY <1>0, <1>3, Joined DEF Separate, Delayed
  <2>2. Len(buffer') = 0 /\ 1..0 = {}
    BY <1>3
  <2>3. Separate'
    BY <1>3, <2>1, <2>2 DEF Separate, Distinct, Apart, UpTo
  <2>4. Delayed'
    BY <1>3, <2>1, <2>2 DEF Delayed, Apart
  <2>5. QED
    BY <2>3, <2>4
<1>4. CASE Logf
  <2>1. PICK lines : lines = Append(buffer, written + 1)
    OBVIOUS
  <2>2. written + 1 \in Lines /\ written' = written + 1 /\ UNCHANGED <<log, late>> /\ buffer' = lines
    <3>1. /\ written < MaxLines /\ written' = written + 1 /\ UNCHANGED <<kind, log, late>>
          /\ IF Full(lines) THEN Flush(lines) ELSE buffer' = lines
      BY <1>4, <2>1 DEF Logf
    <3>2. buffer' = lines
      BY <3>1 DEF Flush
    <3>3. written + 1 \in Lines
      BY <1>0, <3>1, Bounds DEF Lines
    <3>4. QED
      BY <3>1, <3>2, <3>3
  <2>3. /\ Len(lines) = Len(buffer) + 1 /\ lines[Len(buffer) + 1] = written + 1
        /\ \A i \in 1..Len(buffer) : lines[i] = buffer[i]
    BY <1>0, <2>1, <2>2
  <2>4. \A i \in 1..Len(lines) : i = Len(buffer) + 1 \/ i \in 1..Len(buffer)
    BY <1>0, <2>3
  <2>5. ASSUME NEW s \in Seq(Lines), UpTo(s, written)
        PROVE  UpTo(s, written + 1) /\ \A i \in 1..Len(s) : s[i] # written + 1
    BY <1>0, <2>5, Bounds DEF UpTo, Lines
  <2>6. Distinct(lines) /\ UpTo(lines, written + 1)
    <3>1. UpTo(buffer, written + 1) /\ \A i \in 1..Len(buffer) : buffer[i] # written + 1
      BY <1>0, <2>5 DEF Separate
    <3>2. Distinct(lines)
      BY <2>3, <2>4, <3>1 DEF Separate, Distinct
    <3>3. written + 1 <= written + 1
      BY <1>0
    <3>4. UpTo(lines, written + 1)
      BY <2>3, <2>4, <3>1, <3>3 DEF UpTo
    <3>5. QED
      BY <3>2, <3>4
  <2>7. ASSUME NEW s \in Seq(Lines), UpTo(s, written)
        PROVE  (Apart(s, buffer) => Apart(s, lines)) /\ (Apart(buffer, s) => Apart(lines, s))
    BY <2>3, <2>4, <2>5, <2>7 DEF Apart
  <2>8. Separate'
    BY <1>0, <2>2, <2>5, <2>6, <2>7 DEF Separate
  <2>9. Delayed'
    BY <1>0, <2>2, <2>5, <2>7 DEF Delayed
  <2>10. QED
    BY <2>8, <2>9
<1>5. CASE FlushNow
  BY <1>1, <1>5 DEF FlushNow, Flush
<1>6. CASE Delivered \/ FailedAfterArrival
  BY <1>3, <1>6 DEF Delivered, FailedAfterArrival, Failed, Sent, Arrives, Batch
<1>7. CASE FailedUnseen \/ FailedDelayed
  BY <1>2, <1>7 DEF FailedUnseen, FailedDelayed, Failed, Sent, Batch
<1>8. CASE Retry \/ StopWaiting \/ Cancel \/ UNCHANGED logVars
  BY <1>1, <1>8 DEF Retry, StopWaiting, Cancel, logVars
<1>9. CASE ArrivesLate
  <2>1. PICK batch \in late :
          /\ late' = late \ {batch} /\ UNCHANGED <<buffer, written>>
          /\ log' = log \o batch \/ UNCHANGED log
    BY <1>9 DEF ArrivesLate, Arrives
  <2>2. CASE UNCHANGED log
    BY <2>1, <2>2 DEF Separate, Delayed
  <2>3. CASE log' = log \o batch
    <3>1. Distinct(batch) /\ UpTo(batch, written) /\ Apart(log, batch) /\ Apart(buffer, batch)
      BY <2>1 DEF Delayed
    <3>2. Apart(batch, buffer)
      BY <3>1 DEF Apart
    <3>3. /\ Distinct(log') /\ UpTo(log', written) /\ Apart(log', buffer)
          /\ \A r \in Seq(Lines) : Apart(log, r) /\ Apart(batch, r) => Apart(log', r)
      BY <1>0, <2>1, <2>3, <3>1, <3>2, Joined DEF Separate
    <3>4. \A other \in late \ {batch} : Apart(log', other)
      BY <1>0, <3>3 DEF Delayed
    <3>5. QED
      BY <2>1, <3>3, <3>4 DEF Separate, Delayed
  <2>4. QED
    BY <2>1, <2>2, <2>3
<1>10. QED
  BY <1>4, <1>5, <1>6, <1>7, <1>8, <1>9 DEF LogStep

\* No line is ever in the API's log twice, of a deploy because its log is in
\* order, of a rule because its logger sends nothing again (RuleDeployLogger.Flush).
THEOREM NothingLoggedTwice == Spec => []NoLineTwice
<1>1. Init => LogOK /\ OrderInv /\ RuleInv
  <2>1. SUFFICES ASSUME Init PROVE LogOK /\ OrderInv /\ RuleInv
    OBVIOUS
  <2>2. written = 0 /\ buffer = <<>> /\ late = {} /\ log = <<>>
    BY <2>1 DEF Init, LogInit
  <2>3. Len(log) = 0 /\ Len(buffer) = 0 /\ 1..0 = {}
    BY <2>2
  <2>4. RuleInv
    BY <2>2, <2>3 DEF RuleInv, Separate, Delayed, Distinct, Apart, UpTo
  <2>5. QED
    BY <2>1, <2>4, LogInits, OrderInit DEF Init
<1>2. LogOK /\ OrderInv /\ RuleInv /\ [Next]_vars => LogOK' /\ OrderInv' /\ RuleInv'
  <2>1. SUFFICES ASSUME LogOK, OrderInv, RuleInv, [Next]_vars PROVE LogOK' /\ OrderInv' /\ RuleInv'
    OBVIOUS
  <2>2. LogStep /\ LogOK' /\ UNCHANGED kind
    BY <2>1, StepIsLogStep, LogTypes, KindKept
  <2>3. OrderInv'
    BY <2>1, <2>2, OrderStep DEF OrderInv
  <2>4. RuleInv'
    BY <2>1, <2>2, RuleStep DEF RuleInv
  <2>5. QED
    BY <2>2, <2>3, <2>4
<1>3. LogOK /\ OrderInv /\ RuleInv => NoLineTwice
  <2>1. SUFFICES ASSUME LogOK, OrderInv, RuleInv PROVE NoLineTwice
    OBVIOUS
  <2>2. log \in Seq(Lines) /\ DOMAIN log = 1..Len(log) /\ kind \in {"deploy", "rule"}
    BY <2>1 DEF LogOK, LogTypeOK
  <2>3. CASE kind = "deploy"
    BY <2>1, <2>2, <2>3 DEF OrderInv, InOrder, Prefix, NoLineTwice
  <2>4. CASE kind = "rule"
    BY <2>1, <2>2, <2>4 DEF RuleInv, Separate, Distinct, NoLineTwice
  <2>5. QED
    BY <2>2, <2>3, <2>4
<1>4. QED
  BY <1>1, <1>2, <1>3, PTL DEF Spec
-----------------------------------------------------------------------------
(* What a line of a deploy costs to lose.                                  *)

\* A token the API has withdrawn, seen from the worker.
Withdrawn(token) == token # NoToken /\ ~token.good

\* The fault of a failure to come has already happened: the logger's request is
\* refused, or what it uses, will use, or somebody is about to fetch is withdrawn.
Owing ==
  \/ req[Logger].phase = "refused"
  \/ req[Logger].phase = "sent" /\ Withdrawn(req[Logger].token)
  \/ Withdrawn(access)
  \/ \E c \in Clients : req[c].phase = "exchange" /\ Withdrawn(req[c].token)

\* Attempts of the batch at the front that have failed.
Spent ==
  IF flow = "sending" THEN attempt - 1 ELSE IF flow = "backoff" THEN attempt ELSE 0

\* Each failed attempt had a fault of its own, and a failure to come has another.
Paid == Spent <= faults /\ (Owing => Spent < faults)

\* Nothing waits in the buffer while batches are sent or when the handler is
\* over, and no batch is left pending by a flush that ran out of attempts.
Flushed == flow # "working" => buffer = <<>>
NoneLeft == flow \in {"working", "ended"} /\ pending # <<>> => Attempts <= faults

CostInv == kind = "deploy" /\ bootstrap /\ ~canceled => Paid /\ Flushed /\ NoneLeft

\* Who waits for an exchange holds the mutex.
Locked == \A c \in Clients : req[c].phase = "exchange" => lock = c

LEMMA LoggerIsClient == Logger \in Clients /\ Main \in Clients /\ NoClient \notin Clients
  BY ClientsAssumption, TokenAssumption

LEMMA LockedStep == ASSUME TokenTypeOK, Locked, TokenStep PROVE Locked'
<1>0. req \in [Clients -> Requests] /\ NoClient \notin Clients
  BY LoggerIsClient DEF TokenTypeOK
\* One request begins or ends, by one that has the mutex or does not need it.
<1>1. ASSUME NEW c \in Clients, \A d \in Clients \ {c} : req'[d].phase = req[d].phase,
             lock' = lock \/ lock = NoClient \/ req[c].phase = "exchange",
             req'[c].phase = "exchange" => lock' = c
      PROVE  Locked'
  BY <1>0, <1>1 DEF Locked
<1>2. CASE \E c \in Clients : GetCached(c) \/ Served(c) \/ Invalidate(c) \/ Lost(c)
                               \/ ExchangeFails(c) \/ Abort(c)
  <2>1. PICK c \in Clients : GetCached(c) \/ Served(c) \/ Invalidate(c) \/ Lost(c)
                               \/ ExchangeFails(c) \/ Abort(c)
    BY <1>2
  <2>2. req'[c].phase # "exchange" /\ \A d \in Clients \ {c} : req'[d].phase = req[d].phase
    BY <1>0, <2>1 DEF GetCached, Served, Invalidate, Lost, ExchangeFails, Abort, NoRequest
  <2>3. lock' = lock \/ lock = NoClient \/ req[c].phase = "exchange"
    BY <2>1 DEF GetCached, Served, Invalidate, Lost, ExchangeFails, Abort
  <2>4. QED
    BY <1>1, <2>2, <2>3
<1>3. CASE \E c \in Clients : Refuse(c) \/ Forbid(c) \/ Exchanged(c)
  <2>1. PICK c \in Clients : Refuse(c) \/ Forbid(c) \/ Exchanged(c)
    BY <1>3
  <2>2. req'[c].phase # "exchange" /\ \A d \in Clients \ {c} : req'[d].phase = req[d].phase
    BY <1>0, <2>1 DEF Refuse, Forbid, Exchanged, Requests
  <2>3. lock' = lock \/ lock = NoClient \/ req[c].phase = "exchange"
    BY <2>1 DEF Refuse, Forbid, Exchanged
  <2>4. QED
    BY <1>1, <2>2, <2>3
<1>4. CASE \E c \in Clients : Exchange(c)
  <2>1. PICK c \in Clients : Exchange(c)
    BY <1>4
  <2>2. lock = NoClient /\ lock' = c /\ \A d \in Clients \ {c} : req'[d].phase = req[d].phase
    BY <1>0, <2>1 DEF Exchange
  <2>3. QED
    BY <1>1, <2>2
<1>5. CASE Revoke \/ Tick
  <2>1. ASSUME NEW c \in Clients PROVE req'[c].phase = req[c].phase
    <3>1. req[c] \in Requests
      BY <1>0
    <3>2. CASE Revoke
      BY <1>0, <3>1, <3>2 DEF Revoke, Requests
    <3>3. CASE Tick
      BY <1>0, <3>1, <3>3 DEF Tick, Requests
    <3>4. QED
      BY <1>5, <3>2, <3>3
  <2>2. lock' = lock
    <3>1. CASE Revoke
      BY <3>1 DEF Revoke
    <3>2. CASE Tick
      BY <3>2 DEF Tick
    <3>3. QED
      BY <1>5, <3>1, <3>2
  <2>3. QED
    BY <2>1, <2>2 DEF Locked
<1>6. CASE UNCHANGED tokenVars
  BY <1>6 DEF tokenVars, Locked
<1>7. QED
  BY <1>2, <1>3, <1>4, <1>5, <1>6 DEF TokenStep

\* Growing older does not withdraw a token.
LEMMA AgedWithdrawn ==
  ASSUME NEW token \in Tokens \union {NoToken}
  PROVE  Withdrawn(Aged(token)) <=> Withdrawn(token)
<1>1. CASE token = NoToken
  BY <1>1 DEF Aged
<1>2. CASE token \in Tokens
  BY <1>2, TokenChanges, Times DEF Aged, Withdrawn, Tokens
<1>3. QED
  BY <1>1, <1>2

\* What comes to be owed comes with a fault: a step without one, by whomever,
\* brings the logger no nearer to a failure.
LEMMA OwingStep ==
  ASSUME TokenTypeOK, TokenInv, TokenStep, bootstrap
  PROVE  /\ faults' = faults \/ faults' = faults + 1
         /\ faults' = faults /\ Owing' => Owing
<1>0. /\ req \in [Clients -> Requests] /\ faults \in Nat /\ Logger \in Clients
      /\ access \in Tokens \union {NoToken}
      /\ \A c \in Clients : req[c].token \in Tokens \union {NoToken}
  BY LoggerIsClient, Times DEF TokenTypeOK, Requests
<1>1. CASE \E c \in Clients : Forbid(c) \/ Lost(c) \/ ExchangeFails(c)
  <2>1. faults' = faults + 1
    BY <1>1 DEF Forbid, Lost, ExchangeFails, Fault
  <2>2. QED
    BY <1>0, <2>1
<1>2. CASE Revoke
  <2>1. faults' = faults + 1
    BY <1>2 DEF Revoke, Fault
  <2>2. QED
    BY <1>0, <2>1
<1>3. CASE \E c \in Clients : GetCached(c)
  <2>1. PICK c \in Clients : GetCached(c)
    BY <1>3
  <2>2. /\ UNCHANGED <<access, faults>> /\ \A d \in Clients \ {c} : req'[d] = req[d]
        /\ req'[c] = [phase |-> "sent", token |-> access, age |-> 0]
    BY <1>0, <2>1 DEF GetCached
  <2>3. QED
    BY <1>0, <2>2 DEF Owing
<1>4. CASE \E c \in Clients : Exchange(c)
  <2>1. PICK c \in Clients : Exchange(c)
    BY <1>4
  <2>2. PICK token \in Tokens : /\ token.good
                                /\ req'[c] = [phase |-> "exchange", age |-> 0, token |-> token]
    <3>1. PICK left \in {Lifetime, Forever} :
            req'[c] = [phase |-> "exchange", age |-> 0, token |-> [left |-> left, good |-> TRUE]]
      BY <1>0, <2>1 DEF Exchange
    <3>2. [left |-> left, good |-> TRUE] \in Tokens /\ [left |-> left, good |-> TRUE].good
      BY Times DEF Tokens
    <3>3. QED
      BY <3>1, <3>2
  <2>3. UNCHANGED <<access, faults>> /\ \A d \in Clients \ {c} : req'[d] = req[d]
    BY <1>0, <2>1 DEF Exchange
  <2>4. ~Withdrawn(req'[c].token) /\ req'[c].phase = "exchange"
    BY <2>2 DEF Withdrawn
  <2>5. QED
    BY <1>0, <2>3, <2>4 DEF Owing
<1>5. CASE \E c \in Clients : Exchanged(c)
  <2>1. PICK c \in Clients : Exchanged(c)
    BY <1>5
  <2>2. /\ req[c].phase = "exchange" /\ access' = req[c].token /\ UNCHANGED faults
        /\ req'[c].phase = "sent" /\ req'[c].token = req[c].token
        /\ \A d \in Clients \ {c} : req'[d] = req[d]
    BY <1>0, <2>1 DEF Exchanged, Requests
  <2>3. QED
    BY <1>0, <2>2 DEF Owing
<1>6. CASE \E c \in Clients : Served(c) \/ Abort(c) \/ Invalidate(c)
  <2>1. PICK c \in Clients : Served(c) \/ Abort(c) \/ Invalidate(c)
    BY <1>6
  <2>2. /\ access' = access \/ access' = NoToken
        /\ UNCHANGED faults /\ req'[c].phase = "out"
        /\ \A d \in Clients \ {c} : req'[d] = req[d]
    <3>1. CASE Served(c)
      BY <1>0, <3>1 DEF Served, NoRequest
    <3>2. CASE Abort(c)
      BY <1>0, <3>2 DEF Abort, NoRequest
    <3>3. CASE Invalidate(c)
      BY <1>0, <3>3 DEF Invalidate, NoRequest
    <3>4. QED
      BY <2>1, <3>1, <3>2, <3>3
  <2>3. Withdrawn(access') => Withdrawn(access)
    BY <2>2 DEF Withdrawn
  <2>4. QED
    BY <1>0, <2>2, <2>3 DEF Owing
<1>7. CASE \E c \in Clients : Refuse(c)
  <2>1. PICK c \in Clients : Refuse(c)
    BY <1>7
  <2>2. /\ req[c].phase = "sent" /\ ~Accepted(req[c].token) /\ UNCHANGED <<access, faults>>
        /\ req'[c].phase = "refused" /\ \A d \in Clients \ {c} : req'[d] = req[d]
    BY <1>0, <2>1 DEF Refuse, Requests
  <2>3. req[c].token # NoToken /\ req[c].token.left # 0
    <3>1. Outlives(c) /\ req[c].age \in 0..Timeout
      BY <1>0 DEF TokenInv, Requests
    <3>2. QED
      BY <2>2, <3>1, Times DEF Outlives
  <2>4. Withdrawn(req[c].token)
    BY <2>2, <2>3 DEF Accepted, Withdrawn
  <2>5. QED
    BY <1>0, <2>2, <2>4 DEF Owing
<1>8. CASE Tick
  <2>1. access' = Aged(access) /\ faults' = faults
    BY <1>8 DEF Tick
  <2>2. ASSUME NEW c \in Clients
        PROVE  req'[c].phase = req[c].phase /\ req'[c].token = Aged(req[c].token)
    <3>1. req[c] \in Requests
      BY <1>0
    <3>2. QED
      BY <1>0, <1>8, <3>1 DEF Tick, Requests
  <2>3. \A c \in Clients : Withdrawn(req'[c].token) <=> Withdrawn(req[c].token)
    BY <1>0, <2>2, AgedWithdrawn
  <2>4. Withdrawn(access') <=> Withdrawn(access)
    BY <1>0, <2>1, AgedWithdrawn
  <2>5. QED
    BY <1>0, <2>1, <2>2, <2>3, <2>4 DEF Owing
<1>9. CASE UNCHANGED tokenVars
  BY <1>9 DEF tokenVars, Owing
<1>10. QED
  BY <1>1, <1>2, <1>3, <1>4, <1>5, <1>6, <1>7, <1>8, <1>9 DEF TokenStep

\* How a request of the logger's fails while its context lives.
RequestFails == Invalidate(Logger) \/ ExchangeFails(Logger) \/ Lost(Logger)

\* A failure of the logger's has a fault of its own, now or before: who drops the
\* token drops every withdrawn one, as no exchange is under way.
LEMMA FailurePays ==
  ASSUME TokenTypeOK, Locked, RequestFails
  PROVE  \/ faults' = faults + 1 /\ (Owing' => Owing)
         \/ faults' = faults /\ Owing /\ ~Owing'
<1>0. /\ req \in [Clients -> Requests] /\ faults \in Nat /\ Logger \in Clients
      /\ NoClient \notin Clients
  BY LoggerIsClient, Times DEF TokenTypeOK
<1>1. CASE Invalidate(Logger)
  <2>1. /\ req[Logger].phase = "refused" /\ lock = NoClient /\ access' = NoToken
        /\ UNCHANGED faults /\ req'[Logger].phase = "out"
        /\ \A d \in Clients \ {Logger} : req'[d] = req[d]
    BY <1>0, <1>1 DEF Invalidate, NoRequest
  <2>2. Owing
    BY <2>1 DEF Owing
  <2>3. \A c \in Clients : req'[c].phase # "exchange"
    BY <1>0, <2>1 DEF Locked
  <2>4. ~Owing'
    BY <2>1, <2>3 DEF Owing, Withdrawn
  <2>5. QED
    BY <2>1, <2>2, <2>4
<1>2. CASE ExchangeFails(Logger) \/ Lost(Logger)
  <2>1. /\ faults' = faults + 1 /\ UNCHANGED access /\ req'[Logger].phase = "out"
        /\ \A d \in Clients \ {Logger} : req'[d] = req[d]
    BY <1>0, <1>2 DEF ExchangeFails, Lost, Fault, NoRequest
  <2>2. Owing' => Owing
    BY <1>0, <2>1 DEF Owing
  <2>3. QED
    BY <2>1, <2>2
<1>3. QED
  BY <1>1, <1>2 DEF RequestFails

\* Steps of the log that are no failure.
CalmStep ==
  \/ Logf \/ FlushNow \/ Cancel \/ Delivered \/ Retry \/ StopWaiting \/ ArrivesLate
  \/ UNCHANGED logVars

LEMMA StepFailsOrNot ==
  ASSUME [Next]_vars, bootstrap, ~canceled
  PROVE  CalmStep \/ (RequestFails /\ Failed)
<1>1. CASE LogRefused \/ LogLost
  BY <1>1 DEF LogRefused, LogLost, GetNothing, RequestFails, FailedUnseen,
     FailedAfterArrival, FailedDelayed
<1>2. CASE LogRequest \/ LogServed \/ LogAborted \/ LogAbortedAfterArrival
  BY <1>2 DEF LogRequest, LogServed, LogAborted, LogAbortedAfterArrival, CalmStep
<1>3. CASE BeatBegins \/ BeatRequest \/ BeatServed \/ BeatFails
  BY <1>3 DEF BeatBegins, BeatRequest, BeatServed, BeatFails, CalmStep
<1>4. CASE Handler \/ HandlerCanceled \/ LateBatch \/ Environment \/ UNCHANGED vars
  BY <1>4 DEF Handler, HandlerCanceled, LateBatch, Environment, vars, CalmStep
<1>5. QED
  BY <1>1, <1>2, <1>3, <1>4 DEF Next

\* Flush starts over with what there is, or rests with nothing pending.
LEMMA FlushCosts ==
  ASSUME kind = "deploy", kind' = "deploy", NEW lines, Flush(lines)
  PROVE  Spent' = 0 /\ Flushed' /\ NoneLeft'
<1>1. /\ buffer' = <<>> /\ attempt' = 1
      /\ flow' = IF pending' # <<>> THEN "sending" ELSE Resting
  BY DEF Flush
<1>2. Resting \in {"working", "ended"}
  BY DEF Resting
<1>3. QED
  BY <1>1, <1>2 DEF Spent, Flushed, NoneLeft

LEMMA BootstrapKept == ASSUME TokenStep PROVE bootstrap' = bootstrap
<1>1. CASE \E c \in Clients : GetCached(c) \/ Exchange(c) \/ Exchanged(c) \/ Served(c) \/ Refuse(c)
  BY <1>1 DEF GetCached, Exchange, Exchanged, Served, Refuse
<1>2. CASE \E c \in Clients : ExchangeFails(c) \/ Forbid(c) \/ Invalidate(c) \/ Lost(c) \/ Abort(c)
  BY <1>2 DEF ExchangeFails, Forbid, Invalidate, Lost, Abort
<1>3. CASE Revoke
  BY <1>3 DEF Revoke
<1>4. CASE Tick
  BY <1>4 DEF Tick
<1>5. QED
  BY <1>1, <1>2, <1>3, <1>4 DEF TokenStep, tokenVars

LEMMA CostStep ==
  ASSUME TokenTypeOK, TokenInv, Locked, LogOK, CostInv, [Next]_vars
  PROVE  CostInv'
<1>0. SUFFICES ASSUME kind' = "deploy", bootstrap', ~canceled'
               PROVE  Paid' /\ Flushed' /\ NoneLeft'
  BY DEF CostInv
<1>1. TokenStep /\ LogStep
  BY StepIsTokenStep, StepIsLogStep
<1>2. kind = "deploy" /\ bootstrap /\ ~canceled
  <2>1. bootstrap' = bootstrap
    BY <1>1, BootstrapKept
  <2>2. kind' = kind /\ (canceled => canceled')
    BY <1>1 DEF LogStep, Logf, FlushNow, Cancel, Delivered, Sent, FailedUnseen, Failed,
       FailedAfterArrival, FailedDelayed, Retry, StopWaiting, ArrivesLate, logVars
  <2>3. QED
    BY <1>0, <2>1, <2>2
<1>3. /\ Paid /\ Flushed /\ NoneLeft
      /\ attempt \in 1..Attempts /\ Attempts \in Nat \ {0} /\ faults \in Nat /\ faults' \in Nat
      /\ flow \in Flows /\ Spent \in Nat /\ HasBatch
  <2>1. faults' \in Nat
    BY <1>1, TokenTypes, Times DEF TokenTypeOK
  <2>2. /\ attempt \in 1..Attempts /\ Attempts \in Nat \ {0} /\ flow \in Flows /\ HasBatch
        /\ faults \in Nat
    BY Bounds, Times DEF LogOK, LogTypeOK, TokenTypeOK
  <2>3. Spent \in Nat
    BY <2>2 DEF Spent
  <2>4. Paid /\ Flushed /\ NoneLeft
    BY <1>2 DEF CostInv
  <2>5. QED
    BY <2>1, <2>2, <2>3, <2>4
<1>4. /\ faults' = faults \/ faults' = faults + 1
      /\ faults' = faults /\ Owing' => Owing
  BY <1>1, <1>2, OwingStep
\* No attempt fails: what has been paid stays paid.
<1>5. ASSUME NEW n \in Nat, Spent' = n, n = 0 \/ n = Spent PROVE Paid'
  <2>1. n <= faults /\ (Owing => n < faults)
    <3>1. Spent <= faults /\ (Owing => Spent < faults)
      BY <1>3 DEF Paid
    <3>2. QED
      BY <1>3, <1>5, <3>1
  <2>2. n <= faults' /\ (Owing' => n < faults')
    BY <1>3, <1>4, <2>1
  <2>3. QED
    BY <1>5, <2>2 DEF Paid
<1>6. ASSUME UNCHANGED <<buffer, pending, attempt, flow>> PROVE Paid' /\ Flushed' /\ NoneLeft'
  <2>1. Spent' = Spent
    BY <1>6 DEF Spent
  <2>2. Flushed' /\ NoneLeft'
    BY <1>3, <1>4, <1>6 DEF Flushed, NoneLeft
  <2>3. QED
    BY <1>3, <1>5, <2>1, <2>2
<1>7. CASE RequestFails /\ Failed
  <2>1. \/ faults' = faults + 1 /\ (Owing' => Owing)
        \/ faults' = faults /\ Owing /\ ~Owing'
    BY <1>7, FailurePays
  <2>2. flow = "sending" /\ buffer' = <<>> /\ UNCHANGED pending
    BY <1>7 DEF Failed, Sent
  <2>3. attempt - 1 <= faults /\ (Owing => attempt - 1 < faults)
    <3>1. Spent = attempt - 1
      BY <2>2 DEF Spent
    <3>2. QED
      BY <1>3, <3>1 DEF Paid
  <2>4. CASE attempt < Attempts
    <3>1. flow' = "backoff" /\ attempt' = attempt
      BY <1>2, <1>7, <2>4 DEF Failed
    <3>2. Spent' = attempt
      BY <3>1 DEF Spent
    <3>3. attempt <= faults' /\ (Owing' => attempt < faults')
      <4>1. attempt \in Nat
        BY <1>3
      <4>2. QED
        BY <1>3, <2>1, <2>3, <4>1
    <3>4. QED
      BY <2>2, <3>1, <3>2, <3>3 DEF Paid, Flushed, NoneLeft
  <2>5. CASE attempt = Attempts
    <3>1. flow' = Resting
      BY <1>3, <1>7, <2>5 DEF Failed
    <3>2. flow' \in {"working", "ended"}
      BY <3>1 DEF Resting
    <3>3. Spent' = 0
      BY <3>2 DEF Spent
    <3>4. Attempts <= faults'
      BY <1>3, <2>1, <2>3, <2>5
    <3>5. Paid'
      BY <1>3, <1>5, <3>3
    <3>6. QED
      BY <2>2, <3>4, <3>5 DEF Flushed, NoneLeft
  <2>6. QED
    BY <1>3, <2>4, <2>5
<1>8. CASE Logf
  <2>1. PICK lines : lines = Append(buffer, written + 1)
    OBVIOUS
  <2>2. CASE Full(lines)
    <3>1. Spent' = 0 /\ Flushed' /\ NoneLeft'
      BY <1>0, <1>2, <1>8, <2>1, <2>2, FlushCosts DEF Logf
    <3>2. QED
      BY <1>3, <1>5, <3>1
  <2>3. CASE ~Full(lines)
    <3>1. flow = "working" /\ UNCHANGED <<pending, attempt, flow>>
      BY <1>8, <2>1, <2>3 DEF Logf
    <3>2. Spent' = Spent
      BY <3>1 DEF Spent
    <3>3. QED
      BY <1>3, <1>4, <1>5, <3>1, <3>2 DEF Flushed, NoneLeft
  <2>4. QED
    BY <2>2, <2>3
<1>9. CASE FlushNow
  <2>1. Spent' = 0 /\ Flushed' /\ NoneLeft'
    BY <1>0, <1>2, <1>9, FlushCosts DEF FlushNow
  <2>2. QED
    BY <1>3, <1>5, <2>1
<1>10. CASE Delivered
  <2>1. /\ buffer' = <<>> /\ attempt' = 1
        /\ flow' = IF pending' = <<>> THEN Resting ELSE "sending"
    BY <1>10 DEF Delivered
  <2>2. Resting \in {"working", "ended"}
    BY DEF Resting
  <2>3. Spent' = 0 /\ Flushed' /\ NoneLeft'
    BY <2>1, <2>2 DEF Spent, Flushed, NoneLeft
  <2>4. QED
    BY <1>3, <1>5, <2>3
<1>11. CASE Retry
  <2>1. flow = "backoff" /\ flow' = "sending" /\ attempt' = attempt + 1 /\ buffer' = buffer
    BY <1>11 DEF Retry
  <2>2. Spent' = Spent
    BY <1>3, <2>1 DEF Spent
  <2>3. QED
    BY <1>3, <1>5, <2>1, <2>2 DEF Flushed, NoneLeft
<1>12. CASE Cancel \/ StopWaiting
  BY <1>0, <1>2, <1>12 DEF Cancel, StopWaiting
<1>13. CASE ArrivesLate \/ UNCHANGED logVars
  BY <1>6, <1>13 DEF ArrivesLate, logVars
<1>14. QED
  BY <1>2, <1>7, <1>8, <1>9, <1>10, <1>11, <1>12, <1>13, StepFailsOrNot DEF CalmStep

LEMMA CostInits == ASSUME Init PROVE CostInv /\ Locked
<1>1. TokenInit /\ LogInit
  BY DEF Init
<1>2. ASSUME NEW c \in Clients PROVE req[c] = NoRequest
  <2>1. req = [d \in Clients |-> NoRequest]
    BY <1>1 DEF TokenInit
  <2>2. QED
    BY <2>1
<1>3. Locked
  BY <1>2 DEF Locked, NoRequest
<1>4. bootstrap => ~Owing
  BY <1>1, <1>2, LoggerIsClient DEF TokenInit, Owing, Withdrawn, NoRequest
<1>5. bootstrap => Paid
  BY <1>1, <1>4 DEF Paid, Spent, TokenInit, LogInit
<1>6. Flushed /\ NoneLeft
  BY <1>1 DEF LogInit, Flushed, NoneLeft
<1>7. QED
  BY <1>3, <1>5, <1>6 DEF CostInv

\* A worker that can renew its token loses no line of a deploy whose handler's
\* context lives, unless as many faults happen as a batch has attempts, for any
\* number of lines, attempts and faults: a fault costs the logger at most one
\* attempt, also a withdrawal of the token under both goroutines
\* (DeployLogger.Flush, TokenManager.Invalidate).
THEOREM DeployLogIsComplete == Spec => []CompleteBelowAttempts
<1> DEFINE Inv == TokenTypeOK /\ TokenInv /\ Locked /\ LogOK /\ OrderInv /\ CostInv
<1>1. Init => Inv
  BY TokenInits, LogInits, OrderInit, CostInits DEF Init
<1>2. Inv /\ [Next]_vars => Inv'
  <2>1. SUFFICES ASSUME Inv, [Next]_vars PROVE Inv'
    OBVIOUS
  <2>2. TokenStep /\ LogStep
    BY <2>1, StepIsTokenStep, StepIsLogStep
  <2>3. TokenTypeOK' /\ Locked' /\ LogOK'
    BY <2>1, <2>2, TokenTypes, LockedStep, LogTypes
  <2>4. TokenInv'
    <3>1. bootstrap' => TokenInv'
      BY <2>1, <2>2, TokenInvStep
    <3>2. QED
      BY <3>1 DEF TokenInv
  <2>5. OrderInv'
    <3>1. UNCHANGED kind
      BY <2>2, KindKept
    <3>2. QED
      BY <2>1, <2>2, <3>1, OrderStep DEF OrderInv
  <2>6. CostInv'
    BY <2>1, CostStep
  <2>7. QED
    BY <2>3, <2>4, <2>5, <2>6
<1>3. Inv => CompleteBelowAttempts
  <2>1. SUFFICES ASSUME Inv, kind = "deploy", bootstrap, ~canceled, flow = "ended",
                        faults < Attempts
                 PROVE  Len(log) = written
    BY DEF CompleteBelowAttempts
  <2>2. Flushed /\ NoneLeft /\ Rest
    BY <2>1 DEF CostInv, OrderInv, InOrder
  <2>3. faults \in Nat /\ Attempts \in Nat /\ written \in Nat /\ Len(log) \in Nat
    BY <2>1, Bounds, Times DEF TokenTypeOK, LogOK, LogTypeOK
  <2>4. buffer = <<>> /\ pending = <<>>
    BY <2>1, <2>2, <2>3 DEF Flushed, NoneLeft
  <2>5. Len(buffer) = 0
    BY <2>4
  <2>6. written - Len(buffer) = Len(log)
    BY <2>2, <2>4 DEF Rest
  <2>7. QED
    BY <2>3, <2>5, <2>6
<1>4. QED
  <2> HIDE DEF Inv
  <2>1. QED
    BY <1>1, <1>2, <1>3, PTL DEF Spec
=============================================================================
