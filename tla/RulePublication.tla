-------------------------- MODULE RulePublication --------------------------
(***************************************************************************)
(* How ONE rule of a service becomes resources of the mesh, and who says   *)
(* that it has.                                                            *)
(*                                                                         *)
(* rule.deploy and rule.publish fetch the rule and then put, one request   *)
(* at a time, every resource the rule may have into the state the rule     *)
(* asks for: applied if it is wanted, deleted if not (HandleRuleDeploy,    *)
(* reconcileJWTAccessResources, reconcileEdgeResources).  rule.delete      *)
(* deletes (HandleRuleDelete).  Any execution may stop between two         *)
(* requests, be attempted again, or be recovered while it still runs, so   *)
(* that two of them write at once.  Meanwhile the rule is edited, and the  *)
(* curator settles rule.deploy operations by looking which resources exist *)
(* (curateRuleDeploys).                                                    *)
(*                                                                         *)
(* What the API makes of an operation's status is OperationContract; who   *)
(* holds its claim is the subject of OperationLifecycle and left out here. *)
(* Abstracted: the content of a resource is the version of the rule it was *)
(* built from; the service and the traffic split are in ServiceRollout.    *)
(***************************************************************************)
EXTENDS Naturals, Sequences, FiniteSets

CONSTANTS
  Ops,          \* operations on the rule
  Deploys,      \* those of type rule.deploy and rule.publish; the others delete
  Curated,      \* those of type rule.deploy
  Executors,    \* goroutines that execute operations
  Versions,     \* versions of the rule
  Rule,         \* Rule[v]: the rule as version v has it
  Names,        \* names of deny policies
  Denial,       \* Denial[v]: the deny policy named after the name v gives the rule
  NoOp,         \* "none"
  Absent,       \* no such resource
  MaxAttempts,  \* WORKER_DEPLOY_RETRY_MAX_ATTEMPTS
  MaxFaults,    \* bound: failures in one behaviour
  MaxEdits      \* bound: edits of the rule in one behaviour

\* The fields of a rule that decide which resources it has.
RuleType ==
  [action : {"allow", "deny"}, auth : {"public", "jwt", "apikey", "mtls"},
   tcp : BOOLEAN,         \* Protocol
   gateways : BOOLEAN,    \* a gateway other than "mesh" is named
   issuer : BOOLEAN,      \* JWTIssuer and JWKSURI are set
   keys : BOOLEAN,        \* APIKeys is not empty
   ip : {"none", "allowlist", "blocklist"}, cidrs : BOOLEAN,
   scopes : BOOLEAN, limits : BOOLEAN, breaker : BOOLEAN, lock : BOOLEAN]

Kinds == {"route", "authn", "authz", "gwPolicy", "gwAuthn", "gwFilter", "filter",
          "destination", "peer", "network"}

ASSUME ConstantsAssumption ==
  /\ Curated \subseteq Deploys /\ Deploys \subseteq Ops
  /\ NoOp \notin Ops /\ Absent \notin Versions
  /\ Rule \in [Versions -> RuleType] /\ Denial \in [Versions -> Names]
  /\ Names \cap Kinds = {}
  /\ MaxAttempts \in Nat \ {0} /\ MaxFaults \in Nat /\ MaxEdits \in Nat

Resources == Kinds \cup Names

VARIABLES
  policy,    \* the rule as the API has it
  status,    \* status[o]: the API's record of operation o
  built,     \* built[r]: version of the rule that resource r was built from, or Absent
  doing,     \* doing[x]: the operation x executes, or NoOp
  using,     \* using[x]: the version of the rule x has fetched, or Absent
  todo,      \* todo[x]: resources x has still to put into place, in order
  attempt,   \* attempt[x]: attempt number in executeWithRetry
  verdict,   \* verdict[x]: what x is about to publish, or "none"
  check,     \* the curator: the operation it looks at, the version of the rule
             \* it fetched for it, and what it looks for next
  alone,     \* alone[x]: nobody else has executed anything since x began (history)
  intact,    \* what is in the cluster, one uninterrupted execution left (history)
  calm,      \* since the curator took its operation, only deploys of the version it
             \* fetched have run, one at a time (history)
  faults, edits

api     == <<policy, status>>
exec    == <<doing, using, todo, attempt, verdict>>
history == <<alone, intact, calm>>
vars    == <<policy, status, built, doing, using, todo, attempt, verdict, check,
             alone, intact, calm, faults, edits>>

-----------------------------------------------------------------------------
(* What a version of the rule asks for.                                    *)

\* Published to somebody: only then is anything applied at all.
Allows(p) == Rule[p].action = "allow" /\ Rule[p].gateways
Denies(p) == Rule[p].action = "deny" /\ Rule[p].gateways
Tokens(p) == Allows(p) /\ Rule[p].auth = "jwt"
Mutual(p) == Allows(p) /\ Rule[p].auth = "mtls"

\* buildGatewayDenyRules: is there anything to deny at the gateway?
GatewayDenies(p) ==
  \/ Denies(p) \/ Tokens(p)
  \/ Allows(p) /\ Rule[p].ip # "none" /\ Rule[p].cidrs
  \/ Allows(p) /\ Rule[p].auth = "apikey" /\ Rule[p].keys

\* RequiresGatewayAuth: the curator's view of the same.
RequiresGatewayAuth(p) ==
  \/ Rule[p].action = "deny" \/ Rule[p].auth \in {"jwt", "apikey"}
  \/ Rule[p].ip # "none" \/ Rule[p].scopes

\* Rate and body limits (buildRouteEdgeFilter), a circuit breaker or TLS towards
\* the service (buildEdgeDestinationRule), a closed network (buildEdgeNetworkPolicy).
Filters(p)      == Allows(p) /\ Rule[p].limits
Destination(p)  == (Allows(p) /\ Rule[p].breaker) \/ Mutual(p)
LocksNetwork(p) == Allows(p) /\ Rule[p].lock

Wanted(p) ==
       {r \in {"route"} : Allows(p)} \cup {n \in {Denial[p]} : Denies(p)}
  \cup {r \in {"authn", "authz", "gwAuthn"} : Tokens(p)}
  \cup {r \in {"gwPolicy"} : GatewayDenies(p)}
  \cup {r \in {"gwFilter", "filter"} : Filters(p)}
  \cup {r \in {"destination"} : Destination(p)}
  \cup {r \in {"peer"} : Mutual(p)} \cup {r \in {"network"} : LocksNetwork(p)}

\* What an execution of o puts in the place of resource r.
Goal(o, p, r) == IF o \in Deploys /\ r \in Wanted(p) THEN p ELSE Absent

\* reconcileEdgeResources; the filter that every gateway shares is applied when
\* a rule needs it and never deleted.
ReconcileEdge(p) ==
  IF Filters(p)
  THEN <<"gwPolicy", "gwAuthn", "gwFilter", "filter", "destination", "peer", "network">>
  ELSE <<"gwPolicy", "gwAuthn", "filter", "destination", "peer", "network">>
CleanupEdge == <<"gwPolicy", "gwAuthn", "filter", "destination", "peer", "network">>
CleanupJWT  == <<"authn", "authz">>

\* HandleRuleDeploy: the order of its requests.
DeployOrder(p) ==
  CASE Denies(p) -> CleanupJWT \o <<Denial[p], "route">> \o ReconcileEdge(p)
    [] Allows(p) -> <<"route", Denial[p]>> \o CleanupJWT \o ReconcileEdge(p)
    [] Rule[p].action = "deny"  /\ ~Rule[p].gateways ->
         CleanupJWT \o <<Denial[p], "route">> \o CleanupJWT \o CleanupEdge
    [] Rule[p].action = "allow" /\ ~Rule[p].gateways ->
         <<"route">> \o CleanupJWT \o CleanupEdge

\* HandleRuleDelete: the action and the name are those of the payload.
DeleteOrder(p) ==
  <<IF Rule[p].action = "deny" THEN Denial[p] ELSE "route">> \o CleanupJWT \o CleanupEdge

\* Seeded: a deny rule keeps what was built for tokens; the route of a rule that
\* lost its gateways is deleted last.
OrderKeepingTokens(o, p) ==
  IF o \in Deploys /\ Denies(p) THEN <<Denial[p], "route">> \o ReconcileEdge(p)
  ELSE IF o \in Deploys THEN DeployOrder(p) ELSE DeleteOrder(p)
RouteLastOrder(o, p) ==
  IF o \in Deploys /\ ~Rule[p].gateways THEN CleanupJWT \o CleanupEdge \o <<"route">>
  ELSE IF o \in Deploys THEN DeployOrder(p) ELSE DeleteOrder(p)

Order(o, p) == IF o \in Deploys THEN DeployOrder(p) ELSE DeleteOrder(p)

-----------------------------------------------------------------------------
Verdict == {"succeeded", "failed"}
Status  == {"queued", "in-progress"} \cup Verdict
Idle    == [op |-> NoOp, version |-> Absent, next |-> "first"]

TypeOK ==
  /\ policy \in Versions
  /\ status \in [Ops -> Status]
  /\ built \in [Resources -> Versions \cup {Absent}]
  /\ doing \in [Executors -> Ops \cup {NoOp}]
  /\ using \in [Executors -> Versions \cup {Absent}]
  /\ todo \in [Executors -> Seq(Resources)]
  /\ attempt \in [Executors -> 1..MaxAttempts]
  /\ verdict \in [Executors -> Verdict \cup {"none"}]
  /\ check \in [op : Ops \cup {NoOp}, version : Versions \cup {Absent},
                next : {"first", "gateway", "authn", "authz"}]
  /\ alone \in [Executors -> BOOLEAN] /\ intact \in BOOLEAN /\ calm \in BOOLEAN
  /\ faults \in 0..MaxFaults /\ edits \in 0..MaxEdits

Init ==
  /\ policy \in Versions
  /\ status = [o \in Ops |-> "queued"]
  /\ built = [r \in Resources |-> Absent]
  /\ doing = [x \in Executors |-> NoOp]
  /\ using = [x \in Executors |-> Absent]
  /\ todo = [x \in Executors |-> <<>>]
  /\ attempt = [x \in Executors |-> 1]
  /\ verdict = [x \in Executors |-> "none"]
  /\ check = Idle
  /\ alone = [x \in Executors |-> FALSE] /\ intact = TRUE /\ calm = TRUE
  /\ faults = 0 /\ edits = 0

-----------------------------------------------------------------------------
(* An execution.                                                           *)

Fault == faults < MaxFaults /\ faults' = faults + 1

Running(x) == doing[x] # NoOp /\ verdict[x] = "none"
Others(x)  == {y \in Executors \ {x} : doing[y] # NoOp}

\* The error returns of the handlers: deny rules over TCP before any request,
\* token rules without an issuer after the route has been applied.
Refused(x) ==
  /\ doing[x] \in Deploys
  /\ \/ Rule[using[x]].action = "deny" /\ Rule[using[x]].tcp
     \/ Tokens(using[x]) /\ ~Rule[using[x]].issuer /\ todo[x] # <<>> /\ Head(todo[x]) = "authn"

\* x reads the rule, or in the payload of a deletion what the rule was when that
\* was asked for, and starts on its requests.
Fetch(x, o) ==
  /\ \E p \in IF o \in Deploys THEN {policy} ELSE Versions :
       /\ using' = [using EXCEPT ![x] = p]
       /\ todo' = [todo EXCEPT ![x] = Order(o, p)]
  /\ calm' = (calm /\ (check # Idle =>
               o \in Deploys /\ check.version = policy /\ Others(x) = {}))

Begin(x, o) ==
  /\ doing[x] = NoOp /\ status[o] = "queued"
  /\ status' = [status EXCEPT ![o] = "in-progress"]
  /\ doing' = [doing EXCEPT ![x] = o]
  /\ Fetch(x, o)
  /\ attempt' = [attempt EXCEPT ![x] = 1]
  /\ verdict' = [verdict EXCEPT ![x] = "none"]
  /\ alone' = [y \in Executors |-> y = x /\ Others(x) = {}]
  /\ intact' = (intact /\ Others(x) = {})
  /\ UNCHANGED <<policy, built, check, faults, edits>>

\* One request: ApplyResource or DeleteResource.
Write(x) ==
  /\ Running(x) /\ todo[x] # <<>> /\ ~Refused(x)
  /\ LET r == Head(todo[x])
     IN  built' = [built EXCEPT ![r] = Goal(doing[x], using[x], r)]
  /\ todo' = [todo EXCEPT ![x] = Tail(todo[x])]
  /\ UNCHANGED <<api, doing, using, attempt, verdict, check, history, faults, edits>>

\* Seeded: whatever the error and however often.
RetryForEver(x) ==
  /\ Running(x) /\ doing[x] \in Deploys
  /\ attempt' = [attempt EXCEPT ![x] = @ + 1]
  /\ Fetch(x, doing[x])
  /\ intact' = FALSE
  /\ UNCHANGED <<api, built, doing, verdict, check, alone, faults, edits>>

\* A transient error: executeWithRetry runs the handler again, which fetches the
\* rule again.
Retry(x) ==
  /\ Fault
  /\ Running(x) /\ doing[x] \in Deploys
  /\ attempt[x] < MaxAttempts
  /\ attempt' = [attempt EXCEPT ![x] = @ + 1]
  /\ Fetch(x, doing[x])
  /\ intact' = FALSE
  /\ UNCHANGED <<api, built, doing, verdict, check, alone, edits>>

\* The handler returns: with an error, or at the end of its requests.
Fails(x) ==
  /\ Running(x)
  /\ IF Refused(x) THEN UNCHANGED faults ELSE Fault
  /\ verdict' = [verdict EXCEPT ![x] = "failed"]
  /\ intact' = FALSE
  /\ UNCHANGED <<policy, status, built, doing, using, todo, attempt, check, alone, calm, edits>>

Succeeds(x) ==
  /\ Running(x) /\ todo[x] = <<>> /\ ~Refused(x)
  /\ verdict' = [verdict EXCEPT ![x] = "succeeded"]
  /\ intact' = (alone[x] /\ (doing[x] \in Deploys \/ built["route"] = Absent))
  /\ UNCHANGED <<policy, status, built, doing, using, todo, attempt, check, alone, calm,
                 faults, edits>>

\* x is done with its operation.
Leave(x) ==
  /\ doing' = [doing EXCEPT ![x] = NoOp] /\ using' = [using EXCEPT ![x] = Absent]
  /\ todo' = [todo EXCEPT ![x] = <<>>] /\ attempt' = [attempt EXCEPT ![x] = 1]
  /\ verdict' = [verdict EXCEPT ![x] = "none"] /\ alone' = [alone EXCEPT ![x] = FALSE]

Publish(x) ==
  /\ verdict[x] # "none" /\ doing[x] # NoOp
  /\ status[doing[x]] = "in-progress"
  /\ status' = [status EXCEPT ![doing[x]] = verdict[x]]
  /\ Leave(x)
  /\ UNCHANGED <<policy, built, check, intact, calm, faults, edits>>

\* x stops where it is and publishes nothing: its claim is gone (the operation
\* was settled or recovered), its process dies, or its verdict cannot be sent.
Abandon(x) ==
  /\ doing[x] # NoOp
  /\ IF status[doing[x]] = "in-progress" THEN Fault ELSE UNCHANGED faults
  /\ Leave(x)
  /\ intact' = (intact /\ verdict[x] = "succeeded")
  /\ UNCHANGED <<api, built, check, calm, edits>>

-----------------------------------------------------------------------------
(* The curator: curateRuleDeploys.                                         *)

Settle(v) ==
  /\ IF status[check.op] = "in-progress"
       THEN status' = [status EXCEPT ![check.op] = v] ELSE UNCHANGED status
  /\ check' = Idle /\ calm' = TRUE

Quiet == UNCHANGED <<policy, built, exec, alone, intact, faults, edits>>

CurateTake(o) ==
  /\ check = Idle /\ o \in Curated /\ status[o] = "in-progress"
  /\ check' = [op |-> o, version |-> policy, next |-> "first"]
  /\ calm' = \A x \in Executors :
               doing[x] # NoOp => doing[x] \in Deploys /\ alone[x] /\ using[x] = policy
  /\ UNCHANGED status /\ Quiet

\* What the curator asks for next: the route or the deny policy, the policy at
\* the gateway, the two resources that demand tokens.
Looked(c) ==
  CASE c.next = "first" -> IF Rule[c.version].action = "deny" THEN Denial[c.version] ELSE "route"
    [] c.next = "gateway" -> "gwPolicy"
    [] OTHER -> c.next

\* Seeded: the curator does not look for what demands tokens.
LookPastTokens(c) ==
  IF c.next = "first" /\ RequiresGatewayAuth(c.version) THEN "gateway" ELSE "settle"

\* What is left to look for when that exists.
LookNext(c) ==
  CASE c.next = "first" /\ RequiresGatewayAuth(c.version) -> "gateway"
    [] c.next = "gateway" /\ Rule[c.version].action = "allow" /\ Rule[c.version].auth = "jwt" -> "authn"
    [] c.next = "authn" -> "authz"
    [] OTHER -> "settle"

CurateFound ==
  /\ check # Idle /\ built[Looked(check)] # Absent
  /\ IF LookNext(check) = "settle" THEN Settle("succeeded")
     ELSE check' = [check EXCEPT !.next = LookNext(check)] /\ UNCHANGED <<status, calm>>
  /\ Quiet

\* Something is missing, or a request fails: an operation that is too old is
\* failed, the others are left for the next sweep.
CurateMissing ==
  /\ check # Idle
  /\ Settle("failed") \/ (check' = Idle /\ calm' = TRUE /\ UNCHANGED status)
  /\ Quiet

Curate == (\E o \in Curated : CurateTake(o)) \/ CurateFound \/ CurateMissing

-----------------------------------------------------------------------------
(* The API and its users (external).                                       *)

\* A claim that is not renewed, or renewed late, is taken back.
Recover(o) ==
  /\ status[o] = "in-progress"
  /\ IF \E x \in Executors : doing[x] = o THEN Fault ELSE UNCHANGED faults
  /\ status' = [status EXCEPT ![o] = "queued"]
  /\ UNCHANGED <<policy, built, exec, check, history, edits>>

Edit(p) ==
  /\ edits < MaxEdits /\ p # policy
  /\ policy' = p /\ edits' = edits + 1
  /\ UNCHANGED <<status, built, exec, check, history, faults>>

Execute(x) ==
  \/ \E o \in Ops : Begin(x, o)
  \/ Write(x) \/ Retry(x) \/ Fails(x) \/ Succeeds(x) \/ Publish(x) \/ Abandon(x)

Next ==
  \/ \E x \in Executors : Execute(x)
  \/ Curate
  \/ \E o \in Ops : Recover(o)
  \/ \E p \in Versions : Edit(p)

Spec == Init /\ [][Next]_vars

-----------------------------------------------------------------------------
(* Properties.                                                             *)

\* The resources are those that version p asks for, each built from p.  An
\* allow rule that names no gateway leaves the deny policy of an earlier version
\* alone, as every rule does with deny policies it had under another name.
InPlace(p) ==
  /\ \A r \in Kinds \ {"gwFilter"} : built[r] = IF r \in Wanted(p) THEN p ELSE Absent
  /\ Filters(p) => built["gwFilter"] # Absent
  /\ Allows(p) \/ Rule[p].action = "deny" =>
       built[Denial[p]] = IF Denial[p] \in Wanted(p) THEN p ELSE Absent

\* A deletion removes all but what only the other action has.
Removed(p) ==
  /\ \A r \in Kinds \ {"route", "gwFilter"} : built[r] = Absent
  /\ built[IF Rule[p].action = "deny" THEN Denial[p] ELSE "route"] = Absent

\* Whatever earlier executions of other versions left behind, cut off anywhere,
\* attempted again or crossing each other: an execution that nobody else
\* crosses, and that ends well, leaves the rule's resources exactly as the
\* version it fetched asks for (HandleRuleDeploy, HandleRuleDelete).
LoneRunIsExact ==
  \A x \in Executors :
    doing[x] # NoOp /\ verdict[x] = "succeeded" /\ alone[x] =>
      IF doing[x] \in Deploys THEN InPlace(using[x]) ELSE Removed(using[x])

\* A rule that demands tokens is not recorded as deployed, by its execution or
\* by the curator, while its route is up and something that demands the tokens
\* is missing, unless another version of it is being worked on: the curator
\* looks for everything it has to, one request after the other.
TokensDemanded == \A r \in {"authn", "authz", "gwPolicy"} : built[r] # Absent
DeployedMeansGuarded ==
  [][\A o \in Deploys :
       /\ status[o] = "in-progress" /\ status'[o] = "succeeded"
       /\ built["route"] = policy /\ Tokens(policy)
       /\ \/ \E x \in Executors : doing[x] = o /\ doing'[x] = NoOp /\ alone[x]
          \/ check.op = o /\ check' = Idle /\ check.version = policy /\ calm
       => TokensDemanded]_vars

\* The route of a rule that demands tokens is up and nothing, neither at the
\* workload nor at the gateway, turns away a request without one.
Open ==
  /\ built["route"] # Absent /\ Tokens(built["route"])
  /\ built["authz"] = Absent /\ \A n \in Names : built[n] = Absent
  /\ built["gwPolicy"] # Absent =>
       ~Denies(built["gwPolicy"]) /\ ~Tokens(built["gwPolicy"])

\* From what an uninterrupted execution left, no deploy of another version passes
\* through a state in which the old route is open: a route may be ahead of its
\* guards only while its own version is being published.
OldRoutesStayClosed ==
  [][/\ intact /\ \A x \in Executors : doing[x] # NoOp => doing[x] \in Deploys
     /\ ~Open /\ Open'
     => \E x \in Executors : doing[x] # NoOp /\ using[x] = built'["route"]]_vars
=============================================================================
