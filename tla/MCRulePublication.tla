------------------------- MODULE MCRulePublication -------------------------
(* An instance of RulePublication for TLC. *)
EXTENDS RulePublication, TLC

CONSTANTS jwt, deny, hidden, bare, d1, d2, e1, x1, x2, name

\* A rule that demands tokens, and what it is edited into: a deny rule, a rule
\* without gateways, and one that cannot be deployed.
Jwt ==
  [action |-> "allow", auth |-> "jwt", tcp |-> FALSE, gateways |-> TRUE, issuer |-> TRUE,
   keys |-> TRUE, ip |-> "none", cidrs |-> TRUE, scopes |-> FALSE, limits |-> TRUE,
   breaker |-> FALSE, lock |-> FALSE]
MCRule ==
  [v \in Versions |->
     CASE v = jwt    -> Jwt
       [] v = deny   -> [Jwt EXCEPT !.action = "deny"]
       [] v = hidden -> [Jwt EXCEPT !.gateways = FALSE]
       [] v = bare   -> [Jwt EXCEPT !.issuer = FALSE]]
MCDenial == [v \in Versions |-> name]

\* Bound: two executions are followed beside each other only if both deploy, and
\* the curator looks beside at most one, which deploys.
Busy == {x \in Executors : doing[x] # NoOp}
FewAtOnce ==
  /\ Cardinality(Busy) > 1 \/ check # Idle => \A x \in Busy : doing[x] \in Deploys
  /\ Cardinality(Busy) > 1 => check = Idle

MCSymmetry == Permutations(Executors) \cup Permutations(Deploys)
=============================================================================
