---------------------------- MODULE WorkerToken ----------------------------
(***************************************************************************)
(* The worker's access token (internal/platform/auth/tokens.go), shared by *)
(* every goroutine that talks to the API, and the requests made with it    *)
(* (operations.DoJSONRequest).  A registration token is exchanged for an   *)
(* access token that expires; any other token is used as it is.  Get and   *)
(* Invalidate hold the manager's mutex, Get also while it waits for the    *)
(* exchange.                                                               *)
(*                                                                         *)
(* Time is relative: a token knows how long it still lives, the manager    *)
(* how long it thinks the token lives.  A request knows how long it takes. *)
(***************************************************************************)
EXTENDS Integers

CONSTANTS
  Clients,    \* goroutines that make requests, each one at a time
  NoClient,
  NoToken,    \* the empty string
  Lifetime,   \* what a token lives, in ticks
  Skew,       \* TokenRefreshSkew
  Timeout,    \* of one HTTP exchange, http.Client.Timeout
  MaxFaults   \* bound: lost requests, revocations, failed exchanges

Forever == -1

Tokens == [left : {Forever} \union 0..Lifetime, good : BOOLEAN]

\* The skew covers an exchange and a request that take their full time: 120 s
\* by default, with timeouts of 10 to 20 s.
ASSUME TokenAssumption ==
  /\ NoClient \notin Clients /\ NoToken \notin Tokens
  /\ {Lifetime, Skew, Timeout, MaxFaults} \subseteq Nat
  /\ Timeout > 0 /\ Skew >= 2 * Timeout /\ Lifetime > Skew

\* "out": none in flight; "exchange": bootstrap token sent, mutex held;
\* "sent": request on its way; "refused": 401 or 403 on its way back.
Requests == [phase : {"out", "exchange", "sent", "refused"},
             token : Tokens \union {NoToken}, age : 0..Timeout]

VARIABLES
  bootstrap,  \* a registration token was configured
  access,     \* tm.accessToken
  belief,     \* tm.expiresAt as the time left, Forever for the zero time
  lock,       \* holder of tm.mu across an exchange
  req,        \* the request each client has in flight
  faults

tokenVars == <<bootstrap, access, belief, lock, req, faults>>

TokenTypeOK ==
  /\ bootstrap \in BOOLEAN
  /\ access \in Tokens \union {NoToken}
  /\ belief \in {Forever} \union 0..Lifetime
  /\ lock \in Clients \union {NoClient}
  /\ req \in [Clients -> Requests]
  /\ faults \in 0..MaxFaults

NoRequest == [phase |-> "out", token |-> NoToken, age |-> 0]

\* NewTokenManager: with a registration token, an access token, or nothing.
TokenInit ==
  /\ bootstrap \in BOOLEAN
  /\ access \in IF bootstrap THEN {NoToken}
                ELSE {NoToken, [left |-> Forever, good |-> TRUE]}
  /\ belief = Forever
  /\ lock = NoClient
  /\ req = [c \in Clients |-> NoRequest]
  /\ faults = 0

Fault == faults < MaxFaults /\ faults' = faults + 1

-----------------------------------------------------------------------------
(* TokenManager.Get.                                                       *)

\* Seeded: a token is used to its last moment.
FreshUntilExpiry == access # NoToken /\ belief # 0

\* The cached token is good for longer than the skew, or without expiry.
Fresh == access # NoToken /\ (belief = Forever \/ belief > Skew)

\* Get answers from the cache; without a bootstrap token it has to.
GetCached(c) ==
  /\ req[c].phase = "out" /\ lock = NoClient
  /\ access # NoToken /\ (Fresh \/ ~bootstrap)
  /\ req' = [req EXCEPT ![c] = [phase |-> "sent", token |-> access, age |-> 0]]
  /\ UNCHANGED <<bootstrap, access, belief, lock, faults>>

\* "RELEASEA_WORKER_TOKEN not set": the request ends before it is made.
GetNothing(c) ==
  /\ req[c].phase = "out" /\ lock = NoClient
  /\ access = NoToken /\ ~bootstrap
  /\ UNCHANGED tokenVars

\* exchangeWorkerToken, under the mutex; the API issues a token.
Exchange(c) ==
  /\ req[c].phase = "out" /\ lock = NoClient
  /\ bootstrap /\ ~Fresh
  /\ lock' = c
  /\ \E left \in {Lifetime, Forever} :
       req' = [req EXCEPT ![c] = [phase |-> "exchange", age |-> 0,
                                  token |-> [left |-> left, good |-> TRUE]]]
  /\ UNCHANGED <<bootstrap, access, belief, faults>>

\* What the manager believes of a new token: its full life from now on, or,
\* when the API names none, whatever it believed of the one before.
Believed(token) == IF token.left = Forever THEN belief ELSE Lifetime

Exchanged(c) ==
  /\ req[c].phase = "exchange"
  /\ access' = req[c].token
  /\ belief' = Believed(req[c].token)
  /\ lock' = NoClient
  /\ req' = [req EXCEPT ![c].phase = "sent", ![c].age = 0]
  /\ UNCHANGED <<bootstrap, faults>>

\* The request ends with the error; a token about to expire is kept.
ExchangeFails(c) ==
  /\ req[c].phase = "exchange"
  /\ Fault
  /\ lock' = NoClient
  /\ req' = [req EXCEPT ![c] = NoRequest]
  /\ UNCHANGED <<bootstrap, access, belief>>

-----------------------------------------------------------------------------
(* The request itself: DoJSONRequest and its likes.                        *)

Accepted(token) == token.left # 0 /\ token.good

\* The API serves the request and the answer comes back.
Served(c) ==
  /\ req[c].phase = "sent" /\ Accepted(req[c].token)
  /\ req' = [req EXCEPT ![c] = NoRequest]
  /\ UNCHANGED <<bootstrap, access, belief, lock, faults>>

Refuse(c) ==
  /\ req[c].phase = "sent" /\ ~Accepted(req[c].token)
  /\ req' = [req EXCEPT ![c].phase = "refused"]
  /\ UNCHANGED <<bootstrap, access, belief, lock, faults>>

\* A 403 that has nothing to do with the token.
Forbid(c) ==
  /\ req[c].phase = "sent" /\ Fault
  /\ req' = [req EXCEPT ![c].phase = "refused"]
  /\ UNCHANGED <<bootstrap, access, belief, lock>>

\* Seeded: only what is known of the expiry is dropped.
InvalidateExpiry(c) ==
  /\ req[c].phase = "refused" /\ lock = NoClient
  /\ belief' = Forever
  /\ req' = [req EXCEPT ![c] = NoRequest]
  /\ UNCHANGED <<bootstrap, access, lock, faults>>

\* Invalidate drops the token of the moment, whichever was refused.
Invalidate(c) ==
  /\ req[c].phase = "refused" /\ lock = NoClient
  /\ access' = NoToken /\ belief' = Forever
  /\ req' = [req EXCEPT ![c] = NoRequest]
  /\ UNCHANGED <<bootstrap, lock, faults>>

\* The request or its answer is lost, or times out.
Lost(c) ==
  /\ req[c].phase = "sent" /\ Fault
  /\ req' = [req EXCEPT ![c] = NoRequest]
  /\ UNCHANGED <<bootstrap, access, belief, lock>>

\* The caller's context ends: the HTTP exchange under way is broken off.
Abort(c) ==
  /\ req[c].phase \in {"exchange", "sent"}
  /\ lock' = IF req[c].phase = "exchange" THEN NoClient ELSE lock
  /\ req' = [req EXCEPT ![c] = NoRequest]
  /\ UNCHANGED <<bootstrap, access, belief, faults>>

-----------------------------------------------------------------------------
(* The API and the clock.                                                  *)

Revoked(token) == IF token = NoToken THEN NoToken ELSE [token EXCEPT !.good = FALSE]

\* The API withdraws every token it has issued to this worker.
Revoke ==
  /\ Fault
  /\ access' = Revoked(access)
  /\ req' = [c \in Clients |-> [req[c] EXCEPT !.token = Revoked(@)]]
  /\ UNCHANGED <<bootstrap, belief, lock>>

Less(time) == IF time > 0 THEN time - 1 ELSE time

Aged(token) == IF token = NoToken THEN NoToken ELSE [token EXCEPT !.left = Less(@)]

Waiting(c) == req[c].phase \in {"exchange", "sent"}

Tick ==
  /\ \A c \in Clients : Waiting(c) => req[c].age < Timeout
  /\ access' = Aged(access)
  /\ belief' = Less(belief)
  /\ req' = [c \in Clients |->
               [req[c] EXCEPT !.token = Aged(@), !.age = IF Waiting(c) THEN @ + 1 ELSE @]]
  /\ UNCHANGED <<bootstrap, lock, faults>>
=============================================================================
