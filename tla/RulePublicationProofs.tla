----------------------- MODULE RulePublicationProofs -----------------------
(***************************************************************************)
(* Theorems about RulePublication, for every set of operations, executors, *)
(* rules and every bound: the types, that an execution that nobody crosses *)
(* leaves exactly what its version of the rule asks for (LoneInv), that a  *)
(* rule recorded as deployed demands its tokens (CalmInv), and that no     *)
(* deploy opens the route of another version (IntactInv).                  *)
(***************************************************************************)
EXTENDS RulePublication, TLAPS

Elems(s) == {s[i] : i \in 1..Len(s)}

LEMMA ElemsConcat ==
  ASSUME NEW S, NEW s \in Seq(S), NEW t \in Seq(S)
  PROVE  s \o t \in Seq(S) /\ Elems(s \o t) = Elems(s) \cup Elems(t)
<1>1. Len(s \o t) = Len(s) + Len(t) /\ Len(s) \in Nat /\ Len(t) \in Nat
  OBVIOUS
<1>2. \A i \in 1..Len(s) : (s \o t)[i] = s[i] /\ i \in 1..Len(s \o t)
  BY <1>1
<1>3. \A i \in 1..Len(t) :
        (s \o t)[Len(s) + i] = t[i] /\ Len(s) + i \in 1..Len(s \o t)
  BY <1>1
<1>4. \A i \in 1..Len(s \o t) : i \in 1..Len(s) \/ i - Len(s) \in 1..Len(t)
  BY <1>1
<1>5. \A i \in 1..Len(s \o t) : ~(i \in 1..Len(s)) => (s \o t)[i] = t[i - Len(s)]
  BY <1>1
<1>6. Elems(s) \subseteq Elems(s \o t)
  BY <1>2 DEF Elems
<1>7. Elems(t) \subseteq Elems(s \o t)
  BY <1>3 DEF Elems
<1>8. Elems(s \o t) \subseteq Elems(s) \cup Elems(t)
  BY <1>2, <1>4, <1>5 DEF Elems
<1> QED BY <1>6, <1>7, <1>8

LEMMA ElemsConcat3 ==
  ASSUME NEW S, NEW s \in Seq(S), NEW t \in Seq(S), NEW u \in Seq(S)
  PROVE  /\ s \o t \o u \in Seq(S)
         /\ Elems(s \o t \o u) = Elems(s) \cup Elems(t) \cup Elems(u)
<1> DEFINE w == s \o t
<1>1. w \in Seq(S) /\ Elems(w) = Elems(s) \cup Elems(t)
  BY ElemsConcat
<1> HIDE DEF w
<1>2. w \o u \in Seq(S) /\ Elems(w \o u) = Elems(w) \cup Elems(u)
  BY <1>1, ElemsConcat
<1> QED BY <1>1, <1>2 DEF w

LEMMA ElemsTail ==
  ASSUME NEW S, NEW s \in Seq(S), s # <<>>
  PROVE  Elems(s) \subseteq {Head(s)} \cup Elems(Tail(s))
<1>1. Len(s) \in Nat \ {0} /\ Len(Tail(s)) = Len(s) - 1 /\ Head(s) = s[1]
  OBVIOUS
<1>2. \A i \in 1..Len(s) : i # 1 => i - 1 \in 1..Len(Tail(s)) /\ Tail(s)[i - 1] = s[i]
  BY <1>1
<1>3. \A i \in 1..Len(s) : i # 1 => s[i] \in Elems(Tail(s))
  BY <1>2 DEF Elems
<1>4. \A i \in 1..Len(s) : s[i] \in {Head(s)} \cup Elems(Tail(s))
  BY <1>1, <1>3
<1> QED BY <1>4 DEF Elems

LEMMA PairElems ==
  ASSUME NEW S, NEW a \in S, NEW b \in S
  PROVE  /\ <<a>> \in Seq(S) /\ Elems(<<a>>) = {a}
         /\ <<a, b>> \in Seq(S) /\ Elems(<<a, b>>) = {a, b}
<1>1. Len(<<a>>) = 1 /\ 1..Len(<<a>>) = {1} /\ Len(<<a, b>>) = 2 /\ 1..Len(<<a, b>>) = {1, 2}
  OBVIOUS
<1>2. Elems(<<a>>) = {<<a>>[i] : i \in {1}} /\ Elems(<<a, b>>) = {<<a, b>>[i] : i \in {1, 2}}
  BY <1>1 DEF Elems
<1> QED BY <1>2

\* The parts that the handlers' orders are put together from.
LEMMA OrderParts ==
  ASSUME NEW p \in Versions
  PROVE  /\ CleanupJWT \in Seq(Resources) /\ Elems(CleanupJWT) = {"authn", "authz"}
         /\ CleanupEdge \in Seq(Resources)
         /\ Elems(CleanupEdge) =
              {"gwPolicy", "gwAuthn", "filter", "destination", "peer", "network"}
         /\ ReconcileEdge(p) \in Seq(Resources)
         /\ Elems(CleanupEdge) \subseteq Elems(ReconcileEdge(p))
         /\ Filters(p) => "gwFilter" \in Elems(ReconcileEdge(p))
<1>1. CleanupJWT \in Seq(Resources) /\ Elems(CleanupJWT) = {"authn", "authz"}
  <2>1. "authn" \in Resources /\ "authz" \in Resources
    BY DEF Resources, Kinds
  <2> QED BY <2>1, PairElems DEF CleanupJWT
<1>2. /\ CleanupEdge \in Seq(Resources)
      /\ Elems(CleanupEdge) =
           {"gwPolicy", "gwAuthn", "filter", "destination", "peer", "network"}
  <2>1. CleanupEdge \in Seq(Resources) /\ Len(CleanupEdge) = 6
    BY DEF CleanupEdge, Resources, Kinds
  <2>2. Elems(CleanupEdge) = {CleanupEdge[i] : i \in {1, 2, 3, 4, 5, 6}}
    <3>1. 1..Len(CleanupEdge) = {1, 2, 3, 4, 5, 6}
      BY <2>1
    <3> QED BY <3>1 DEF Elems
  <2> QED BY <2>1, <2>2 DEF CleanupEdge
<1>3. CASE Filters(p)
  <2> DEFINE s == <<"gwPolicy", "gwAuthn", "gwFilter", "filter", "destination", "peer", "network">>
  <2>1. s \in Seq(Resources) /\ Len(s) = 7
    BY DEF Resources, Kinds
  <2>2. Elems(s) = {s[i] : i \in {1, 2, 3, 4, 5, 6, 7}}
    <3>1. 1..Len(s) = {1, 2, 3, 4, 5, 6, 7}
      BY <2>1
    <3> QED BY <3>1 DEF Elems
  <2>3. Elems(s) = {"gwPolicy", "gwAuthn", "gwFilter", "filter", "destination", "peer", "network"}
    BY <2>2
  <2>4. ReconcileEdge(p) = s
    BY <1>3 DEF ReconcileEdge
  <2> HIDE DEF s
  <2> QED BY <1>1, <1>2, <2>1, <2>3, <2>4
<1>4. CASE ~Filters(p)
  <2>1. ReconcileEdge(p) = CleanupEdge
    BY <1>4 DEF ReconcileEdge, CleanupEdge
  <2> QED BY <1>1, <1>2, <1>4, <2>1
<1> QED BY <1>3, <1>4

\* Everything that a deploy of version p is answerable for is in its order.
Answerable(p) ==
       (Kinds \ {"gwFilter"}) \cup {r \in {"gwFilter"} : Filters(p)}
  \cup {n \in {Denial[p]} : Allows(p) \/ Rule[p].action = "deny"}

LEMMA RuleFacts ==
  ASSUME NEW p \in Versions
  PROVE  /\ Denial[p] \in Resources /\ Rule[p].action \in {"allow", "deny"}
         /\ Rule[p].gateways \in BOOLEAN
         /\ Allows(p) <=> Rule[p].action = "allow" /\ Rule[p].gateways
         /\ Denies(p) <=> Rule[p].action = "deny" /\ Rule[p].gateways
         /\ Filters(p) => Allows(p)
  BY ConstantsAssumption DEF RuleType, Resources, Allows, Denies, Filters

LEMMA DeployOrderComplete ==
  ASSUME NEW p \in Versions
  PROVE  DeployOrder(p) \in Seq(Resources) /\ Answerable(p) \subseteq Elems(DeployOrder(p))
<1> DEFINE J == CleanupJWT
           E == ReconcileEdge(p)
           C == CleanupEdge
           N == Denial[p]
           R == <<"route">>
           A == <<N, "route">>
           B == <<"route", N>>
<1>0. /\ J \in Seq(Resources) /\ E \in Seq(Resources) /\ C \in Seq(Resources)
      /\ Elems(J) = {"authn", "authz"}
      /\ Elems(C) = {"gwPolicy", "gwAuthn", "filter", "destination", "peer", "network"}
      /\ Elems(C) \subseteq Elems(E) /\ (Filters(p) => "gwFilter" \in Elems(E))
  BY OrderParts
<1>1. N \in Resources /\ "route" \in Resources
  BY RuleFacts DEF Resources, Kinds
<1>2. /\ R \in Seq(Resources) /\ Elems(R) = {"route"}
      /\ A \in Seq(Resources) /\ Elems(A) = {N, "route"}
      /\ B \in Seq(Resources) /\ Elems(B) = {"route", N}
  <2>1. R \in Seq(Resources) /\ Elems(R) = {"route"}
    BY <1>1, PairElems
  <2>2. A \in Seq(Resources) /\ Elems(A) = {N, "route"}
    BY <1>1, PairElems
  <2>3. B \in Seq(Resources) /\ Elems(B) = {"route", N}
    BY <1>1, PairElems
  <2> QED BY <2>1, <2>2, <2>3
<1> HIDE DEF J, E, C, N, R, A, B
<1>3. CASE Denies(p)
  <2>1. DeployOrder(p) = J \o A \o E
    BY <1>3 DEF DeployOrder, J, E, N, A, Allows, Denies
  <2>2. /\ J \o A \o E \in Seq(Resources)
        /\ Elems(J \o A \o E) = Elems(J) \cup Elems(A) \cup Elems(E)
    BY <1>0, <1>2, ElemsConcat3
  <2> QED BY <1>0, <1>2, <1>3, <2>1, <2>2 DEF Answerable, Kinds, N
<1>4. CASE Allows(p)
  <2>1. ~Denies(p)
    BY <1>4, RuleFacts
  <2>2. DeployOrder(p) = B \o J \o E
    BY <1>4, <2>1 DEF DeployOrder, J, E, N, B, Allows, Denies
  <2>3. /\ B \o J \o E \in Seq(Resources)
        /\ Elems(B \o J \o E) = Elems(B) \cup Elems(J) \cup Elems(E)
    BY <1>0, <1>2, ElemsConcat3
  <2> QED BY <1>0, <1>2, <2>2, <2>3 DEF Answerable, Kinds, N
<1>5. CASE Rule[p].action = "deny" /\ ~Rule[p].gateways
  <2>1. ~Denies(p) /\ ~Allows(p) /\ ~Filters(p)
    BY <1>5, RuleFacts
  <2>2. DeployOrder(p) = J \o A \o J \o C
    BY <1>5, <2>1 DEF DeployOrder, J, C, N, A
  <2> DEFINE w == J \o A
  <2>3. w \in Seq(Resources) /\ Elems(w) = Elems(J) \cup Elems(A)
    BY <1>0, <1>2, ElemsConcat
  <2>4. DeployOrder(p) = w \o J \o C
    BY <2>2
  <2> HIDE DEF w
  <2>5. /\ w \o J \o C \in Seq(Resources)
        /\ Elems(w \o J \o C) = Elems(w) \cup Elems(J) \cup Elems(C)
    BY <1>0, <2>3, ElemsConcat3
  <2> QED BY <1>0, <1>2, <2>1, <2>3, <2>4, <2>5 DEF Answerable, Kinds, N
<1>6. CASE Rule[p].action = "allow" /\ ~Rule[p].gateways
  <2>1. ~Denies(p) /\ ~Allows(p) /\ ~Filters(p) /\ Rule[p].action # "deny"
    BY <1>6, RuleFacts
  <2>2. DeployOrder(p) = R \o J \o C
    BY <1>6, <2>1 DEF DeployOrder, J, C, R
  <2>3. /\ R \o J \o C \in Seq(Resources)
        /\ Elems(R \o J \o C) = Elems(R) \cup Elems(J) \cup Elems(C)
    BY <1>0, <1>2, ElemsConcat3
  <2> QED BY <1>0, <1>2, <2>1, <2>2, <2>3 DEF Answerable, Kinds
<1> QED BY <1>3, <1>4, <1>5, <1>6, RuleFacts

\* What a deletion is answerable for.
Removable(p) ==
  (Kinds \ {"route", "gwFilter"}) \cup {IF Rule[p].action = "deny" THEN Denial[p] ELSE "route"}

LEMMA DeleteOrderComplete ==
  ASSUME NEW p \in Versions
  PROVE  DeleteOrder(p) \in Seq(Resources) /\ Removable(p) \subseteq Elems(DeleteOrder(p))
<1> DEFINE J == CleanupJWT
           C == CleanupEdge
           N == IF Rule[p].action = "deny" THEN Denial[p] ELSE "route"
           A == <<N>>
<1>1. /\ J \in Seq(Resources) /\ C \in Seq(Resources)
      /\ Elems(J) = {"authn", "authz"}
      /\ Elems(C) = {"gwPolicy", "gwAuthn", "filter", "destination", "peer", "network"}
  BY OrderParts
<1>2. N \in Resources
  BY RuleFacts DEF Resources, Kinds
<1>3. A \in Seq(Resources) /\ Elems(A) = {N}
  BY <1>2, PairElems
<1>4. DeleteOrder(p) = A \o J \o C
  BY DEF DeleteOrder
<1> HIDE DEF J, C, N, A
<1>5. /\ A \o J \o C \in Seq(Resources)
      /\ Elems(A \o J \o C) = Elems(A) \cup Elems(J) \cup Elems(C)
  BY <1>1, <1>3, ElemsConcat3
<1> QED BY <1>1, <1>3, <1>4, <1>5 DEF Removable, Kinds, N

LEMMA OrderIsSeq ==
  ASSUME NEW o \in Ops, NEW p \in Versions
  PROVE  Order(o, p) \in Seq(Resources)
  BY DeployOrderComplete, DeleteOrderComplete DEF Order

-----------------------------------------------------------------------------
\* The type invariant by parts: each action disturbs a few of them only.
ApiTypes == policy \in Versions /\ status \in [Ops -> Status]
ClusterTypes == built \in [Resources -> Versions \cup {Absent}]
ExecTypes ==
  /\ doing \in [Executors -> Ops \cup {NoOp}]
  /\ using \in [Executors -> Versions \cup {Absent}]
  /\ todo \in [Executors -> Seq(Resources)]
  /\ attempt \in [Executors -> 1..MaxAttempts]
  /\ verdict \in [Executors -> Verdict \cup {"none"}]
CheckTypes ==
  check \in [op : Ops \cup {NoOp}, version : Versions \cup {Absent},
             next : {"first", "gateway", "authn", "authz"}]
HistoryTypes == alone \in [Executors -> BOOLEAN] /\ intact \in BOOLEAN /\ calm \in BOOLEAN
BoundTypes == faults \in 0..MaxFaults /\ edits \in 0..MaxEdits

LEMMA TypeParts ==
  /\ TypeOK <=> ApiTypes /\ ClusterTypes /\ ExecTypes /\ CheckTypes /\ HistoryTypes /\ BoundTypes
  /\ TypeOK' <=>
       ApiTypes' /\ ClusterTypes' /\ ExecTypes' /\ CheckTypes' /\ HistoryTypes' /\ BoundTypes'
BY DEF TypeOK, ApiTypes, ClusterTypes, ExecTypes, CheckTypes, HistoryTypes, BoundTypes

\* A goroutine executes with a version of the rule in its hands.
Holding == \A x \in Executors : doing[x] # NoOp => using[x] \in Versions

LEMMA Constants ==
  /\ Curated \subseteq Ops /\ Deploys \subseteq Ops /\ NoOp \notin Ops /\ Absent \notin Versions
  /\ MaxAttempts \in Nat \ {0} /\ MaxFaults \in Nat /\ MaxEdits \in Nat
BY ConstantsAssumption

LEMMA InitTypes == Init => TypeOK /\ Holding
BY Constants DEF Init, TypeOK, Status, Holding, Idle

LEMMA FaultTypes ==
  ASSUME BoundTypes, Fault \/ UNCHANGED faults, UNCHANGED edits
  PROVE  BoundTypes'
BY Constants DEF BoundTypes, Fault

\* What a fetch leaves in the hands of its goroutine.
LEMMA FetchTypes ==
  ASSUME TypeOK, NEW x \in Executors, NEW o \in Ops, Fetch(x, o)
  PROVE  /\ using' \in [Executors -> Versions \cup {Absent}]
         /\ todo' \in [Executors -> Seq(Resources)]
         /\ calm' \in BOOLEAN
         /\ using'[x] \in Versions /\ todo'[x] = Order(o, using'[x])
         /\ \A y \in Executors \ {x} : using'[y] = using[y] /\ todo'[y] = todo[y]
<1>1. PICK p \in Versions :
        /\ using' = [using EXCEPT ![x] = p]
        /\ todo' = [todo EXCEPT ![x] = Order(o, p)]
  BY DEF Fetch, TypeOK
<1>2. Order(o, p) \in Seq(Resources)
  BY OrderIsSeq
<1>3. calm' \in BOOLEAN
  BY DEF Fetch, TypeOK
<1> QED BY <1>1, <1>2, <1>3 DEF TypeOK

LEMMA LeaveTypes ==
  ASSUME TypeOK, Holding, NEW x \in Executors, Leave(x)
  PROVE  ExecTypes' /\ Holding' /\ alone' \in [Executors -> BOOLEAN]
BY Constants DEF TypeOK, Leave, ExecTypes, Holding

LEMMA ExecuteTypes ==
  ASSUME TypeOK, Holding, NEW x \in Executors, Execute(x)
  PROVE  TypeOK' /\ Holding'
<1> USE TypeParts
<1>1. ASSUME NEW o \in Ops, Begin(x, o) PROVE TypeOK' /\ Holding'
  <2>1. ApiTypes' /\ ClusterTypes' /\ CheckTypes' /\ BoundTypes'
    BY <1>1 DEF Begin, ApiTypes, ClusterTypes, CheckTypes, BoundTypes, Status
  <2>2. Fetch(x, o)
    BY <1>1 DEF Begin
  <2>3. ExecTypes' /\ Holding'
    BY <1>1, <2>2, FetchTypes, Constants DEF Begin, ExecTypes, Holding
  <2>4. HistoryTypes'
    BY <1>1, <2>2, FetchTypes DEF Begin, HistoryTypes
  <2> QED BY <2>1, <2>3, <2>4
<1>2. ASSUME Write(x) PROVE TypeOK' /\ Holding'
  <2>1. todo[x] \in Seq(Resources) /\ todo[x] # <<>>
    BY <1>2 DEF Write, ExecTypes
  <2>2. Tail(todo[x]) \in Seq(Resources)
    BY <2>1
  <2>3. ExecTypes' /\ Holding'
    BY <1>2, <2>2 DEF Write, ExecTypes, Holding
  <2>4. Goal(doing[x], using[x], Head(todo[x])) \in Versions \cup {Absent}
    BY <1>2 DEF Write, Running, Holding, Goal
  <2>5. ClusterTypes'
    BY <1>2, <2>4 DEF Write, ClusterTypes
  <2> QED BY <1>2, <2>3, <2>5
    DEF Write, api, history, ApiTypes, CheckTypes, HistoryTypes, BoundTypes
<1>3. ASSUME Retry(x) PROVE TypeOK' /\ Holding'
  <2>1. doing[x] \in Ops /\ Fetch(x, doing[x])
    BY <1>3, Constants DEF Retry
  <2>2. attempt[x] + 1 \in 1..MaxAttempts
    BY <1>3, Constants DEF Retry, ExecTypes
  <2>3. ExecTypes' /\ Holding'
    BY <1>3, <2>1, <2>2, FetchTypes DEF Retry, ExecTypes, Holding
  <2>4. HistoryTypes'
    BY <1>3, <2>1, FetchTypes DEF Retry, HistoryTypes
  <2>5. BoundTypes'
    BY <1>3, FaultTypes DEF Retry
  <2> QED BY <1>3, <2>3, <2>4, <2>5 DEF Retry, api, ApiTypes, ClusterTypes, CheckTypes
<1>4. ASSUME Fails(x) \/ Succeeds(x) PROVE TypeOK' /\ Holding'
  <2>1. ExecTypes' /\ Holding'
    BY <1>4 DEF Fails, Succeeds, ExecTypes, Holding, Verdict
  <2>2. HistoryTypes'
    BY <1>4 DEF Fails, Succeeds, HistoryTypes
  <2>3. BoundTypes'
    BY <1>4, FaultTypes DEF Fails, Succeeds
  <2> QED BY <1>4, <2>1, <2>2, <2>3 DEF Fails, Succeeds, ApiTypes, ClusterTypes, CheckTypes
<1>5. ASSUME Publish(x) PROVE TypeOK' /\ Holding'
  <2>1. ExecTypes' /\ Holding' /\ HistoryTypes'
    BY <1>5, LeaveTypes DEF Publish, HistoryTypes
  <2>2. ApiTypes'
    BY <1>5 DEF Publish, ApiTypes, ExecTypes, Status
  <2> QED BY <1>5, <2>1, <2>2 DEF Publish, ClusterTypes, CheckTypes, BoundTypes
<1>6. ASSUME Abandon(x) PROVE TypeOK' /\ Holding'
  <2>1. ExecTypes' /\ Holding' /\ HistoryTypes'
    BY <1>6, LeaveTypes DEF Abandon, HistoryTypes
  <2>2. BoundTypes'
    BY <1>6, FaultTypes DEF Abandon
  <2> QED BY <1>6, <2>1, <2>2 DEF Abandon, api, ApiTypes, ClusterTypes, CheckTypes
<1> QED BY <1>1, <1>2, <1>3, <1>4, <1>5, <1>6 DEF Execute

LEMMA SettleTypes ==
  ASSUME TypeOK, check # Idle, NEW v \in Verdict, Settle(v), UNCHANGED policy
  PROVE  ApiTypes' /\ CheckTypes' /\ calm' \in BOOLEAN
<1>1. ApiTypes'
  <2>1. CASE status' = [status EXCEPT ![check.op] = v]
    BY <2>1 DEF TypeOK, ApiTypes, Status
  <2>2. CASE UNCHANGED status
    BY <2>2 DEF TypeOK, ApiTypes
  <2> QED BY <2>1, <2>2 DEF Settle
<1>2. CheckTypes' /\ calm' \in BOOLEAN
  BY DEF Settle, CheckTypes, Idle
<1> QED BY <1>1, <1>2

LEMMA CurateTypes ==
  ASSUME TypeOK, Holding, Curate
  PROVE  TypeOK' /\ Holding'
<1> USE TypeParts
<1>1. ASSUME Quiet PROVE ClusterTypes' /\ ExecTypes' /\ BoundTypes' /\ Holding'
  BY <1>1 DEF Quiet, exec, ClusterTypes, ExecTypes, BoundTypes, Holding
<1>2. ASSUME NEW o \in Curated, CurateTake(o) PROVE TypeOK' /\ Holding'
  <2>1. ApiTypes' /\ CheckTypes' /\ HistoryTypes'
    BY <1>2, Constants DEF CurateTake, Quiet, ApiTypes, CheckTypes, HistoryTypes
  <2> QED BY <1>1, <1>2, <2>1 DEF CurateTake
<1>3. ASSUME CurateFound PROVE TypeOK' /\ Holding'
  <2>1. LookNext(check) \in {"gateway", "authn", "authz", "settle"}
    BY DEF LookNext
  <2>2. CASE Settle("succeeded")
    <3>1. ApiTypes' /\ CheckTypes' /\ calm' \in BOOLEAN
      BY <1>3, <2>2, SettleTypes DEF CurateFound, Quiet, Verdict
    <3> QED BY <1>1, <1>3, <3>1 DEF CurateFound, Quiet, HistoryTypes
  <2>3. CASE /\ LookNext(check) # "settle"
             /\ check' = [check EXCEPT !.next = LookNext(check)] /\ UNCHANGED <<status, calm>>
    <3>1. ApiTypes' /\ CheckTypes' /\ HistoryTypes'
      BY <1>3, <2>1, <2>3 DEF CurateFound, Quiet, ApiTypes, CheckTypes, HistoryTypes
    <3> QED BY <1>1, <1>3, <3>1 DEF CurateFound
  <2> QED BY <1>3, <2>2, <2>3 DEF CurateFound
<1>4. ASSUME CurateMissing PROVE TypeOK' /\ Holding'
  <2>1. CASE Settle("failed")
    <3>1. ApiTypes' /\ CheckTypes' /\ calm' \in BOOLEAN
      BY <1>4, <2>1, SettleTypes DEF CurateMissing, Quiet, Verdict
    <3> QED BY <1>1, <1>4, <3>1 DEF CurateMissing, Quiet, HistoryTypes
  <2>2. CASE check' = Idle /\ calm' = TRUE /\ UNCHANGED status
    <3>1. ApiTypes' /\ CheckTypes' /\ HistoryTypes'
      BY <1>4, <2>2 DEF CurateMissing, Quiet, Idle, ApiTypes, CheckTypes, HistoryTypes
    <3> QED BY <1>1, <1>4, <3>1 DEF CurateMissing
  <2> QED BY <1>4, <2>1, <2>2 DEF CurateMissing
<1> QED BY <1>2, <1>3, <1>4 DEF Curate

LEMMA OutsideTypes ==
  ASSUME TypeOK, Holding, (\E o \in Ops : Recover(o)) \/ (\E p \in Versions : Edit(p))
  PROVE  TypeOK' /\ Holding'
<1> USE TypeParts
<1>1. ASSUME NEW o \in Ops, Recover(o) PROVE TypeOK' /\ Holding'
  <2>1. BoundTypes'
    BY <1>1, FaultTypes DEF Recover
  <2>2. ApiTypes'
    BY <1>1 DEF Recover, ApiTypes, Status
  <2> QED BY <1>1, <2>1, <2>2
    DEF Recover, exec, history, ClusterTypes, ExecTypes, CheckTypes, HistoryTypes, Holding
<1>2. ASSUME NEW p \in Versions, Edit(p) PROVE TypeOK' /\ Holding'
  <2>1. ApiTypes' /\ BoundTypes'
    BY <1>2, Constants DEF Edit, ApiTypes, BoundTypes
  <2> QED BY <1>2, <2>1
    DEF Edit, exec, history, ClusterTypes, ExecTypes, CheckTypes, HistoryTypes, Holding
<1> QED BY <1>1, <1>2

LEMMA NextTypes ==
  ASSUME TypeOK, Holding, [Next]_vars
  PROVE  TypeOK' /\ Holding'
<1>1. ASSUME UNCHANGED vars PROVE TypeOK' /\ Holding'
  BY <1>1 DEF vars, TypeOK, Holding
<1> QED BY <1>1, ExecuteTypes, CurateTypes, OutsideTypes DEF Next

\* Every variable keeps its type: what the handlers fetch, put into place and
\* publish, and what the curator looks at.
THEOREM TypeCorrectness == Spec => []TypeOK
<1>1. TypeOK /\ Holding /\ [Next]_vars => (TypeOK /\ Holding)'
  BY NextTypes
<1> QED BY InitTypes, <1>1, PTL DEF Spec

-----------------------------------------------------------------------------
\* What holds of an execution that nobody has crossed so far: nobody else is
\* executing, and whatever it is answerable for is in place or still to do.
LoneInv ==
  \A x \in Executors :
    doing[x] # NoOp /\ alone[x] =>
      /\ \A y \in Executors \ {x} : doing[y] = NoOp
      /\ verdict[x] = "succeeded" => todo[x] = <<>>
      /\ \A r \in Elems(Order(doing[x], using[x])) :
           r \in Elems(todo[x]) \/ built[r] = Goal(doing[x], using[x], r)

LEMMA NothingLeft == Elems(<<>>) = {}
BY DEF Elems

LEMMA LoneInvMeansExact ==
  ASSUME TypeOK, Holding, LoneInv
  PROVE  LoneRunIsExact
<1> SUFFICES ASSUME NEW x \in Executors,
                    doing[x] # NoOp, verdict[x] = "succeeded", alone[x]
             PROVE  IF doing[x] \in Deploys THEN InPlace(using[x]) ELSE Removed(using[x])
  BY DEF LoneRunIsExact
<1> DEFINE o == doing[x]
           p == using[x]
<1>1. o \in Ops /\ p \in Versions /\ p # Absent
  BY Constants DEF TypeOK, Holding
<1>2. \A r \in Elems(Order(o, p)) : built[r] = Goal(o, p, r)
  BY NothingLeft DEF LoneInv
<1> HIDE DEF o, p
<1>3. CASE o \in Deploys
  <2>1. \A r \in Answerable(p) : built[r] = IF r \in Wanted(p) THEN p ELSE Absent
    BY <1>1, <1>2, <1>3, DeployOrderComplete DEF Order, Goal
  <2>2. Filters(p) => "gwFilter" \in Wanted(p)
    BY DEF Wanted
  <2>3. InPlace(p)
    BY <1>1, <2>1, <2>2, RuleFacts DEF InPlace, Answerable
  <2> QED BY <1>3, <2>3 DEF o, p
<1>4. CASE o \notin Deploys
  <2>1. \A r \in Removable(p) : built[r] = Absent
    BY <1>1, <1>2, <1>4, DeleteOrderComplete DEF Order, Goal
  <2>2. Removed(p)
    BY <2>1 DEF Removed, Removable
  <2> QED BY <1>4, <2>2 DEF o, p
<1> QED BY <1>3, <1>4

LEMMA LoneInvInit == Init => LoneInv
BY DEF Init, LoneInv

\* Who leaves its operation takes nothing from an uncrossed execution.
LEMMA LeaveKeepsLoneInv ==
  ASSUME TypeOK, LoneInv, NEW x \in Executors, Leave(x), UNCHANGED built
  PROVE  LoneInv'
BY DEF TypeOK, Leave, LoneInv

LEMMA ExecuteKeepsLoneInv ==
  ASSUME TypeOK, Holding, LoneInv, NEW x \in Executors, Execute(x)
  PROVE  LoneInv'
<1> SUFFICES ASSUME NEW y \in Executors, doing'[y] # NoOp, alone'[y]
             PROVE  /\ \A z \in Executors \ {y} : doing'[z] = NoOp
                    /\ verdict'[y] = "succeeded" => todo'[y] = <<>>
                    /\ \A r \in Elems(Order(doing'[y], using'[y])) :
                         r \in Elems(todo'[y]) \/ built'[r] = Goal(doing'[y], using'[y], r)
  BY DEF LoneInv
<1> DEFINE Covered(o, p, t, b) ==
             \A r \in Elems(Order(o, p)) : r \in Elems(t) \/ b[r] = Goal(o, p, r)
<1>1. ASSUME NEW o \in Ops, Begin(x, o)
      PROVE  /\ \A z \in Executors \ {y} : doing'[z] = NoOp
             /\ verdict'[y] = "succeeded" => todo'[y] = <<>>
             /\ Covered(doing'[y], using'[y], todo'[y], built')
  <2>1. y = x /\ Others(x) = {}
    BY <1>1 DEF Begin, TypeOK
  <2>2. \A z \in Executors \ {x} : doing'[z] = NoOp
    BY <1>1, <2>1 DEF Begin, Others, TypeOK
  <2>3. doing'[x] = o /\ verdict'[x] = "none"
    BY <1>1 DEF Begin, TypeOK
  <2>4. todo'[x] = Order(o, using'[x])
    BY <1>1, FetchTypes DEF Begin
  <2> QED BY <2>1, <2>2, <2>3, <2>4
\* In all other steps x was executing before, so that y is x.
<1>2. ASSUME doing[x] # NoOp, doing[y] # NoOp, alone[y]
      PROVE  /\ y = x
             /\ \A z \in Executors \ {x} : doing[z] = NoOp
             /\ verdict[x] = "succeeded" => todo[x] = <<>>
             /\ Covered(doing[x], using[x], todo[x], built)
  BY <1>2 DEF LoneInv
<1>3. ASSUME Write(x)
      PROVE  /\ \A z \in Executors \ {y} : doing'[z] = NoOp
             /\ verdict'[y] = "succeeded" => todo'[y] = <<>>
             /\ Covered(doing'[y], using'[y], todo'[y], built')
  <2>1. /\ y = x /\ \A z \in Executors \ {x} : doing[z] = NoOp
        /\ Covered(doing[x], using[x], todo[x], built)
    BY <1>2, <1>3 DEF Write, Running, history
  <2> DEFINE h == Head(todo[x])
  <2>2. todo[x] \in Seq(Resources) /\ todo[x] # <<>>
    BY <1>3 DEF Write, TypeOK
  <2>3. Elems(todo[x]) \subseteq {h} \cup Elems(Tail(todo[x])) /\ h \in Resources
    BY <2>2, ElemsTail
  <2>4. /\ built' = [built EXCEPT ![h] = Goal(doing[x], using[x], h)]
        /\ todo'[x] = Tail(todo[x]) /\ doing' = doing /\ using' = using
        /\ verdict'[x] = "none"
    BY <1>3 DEF Write, Running, TypeOK
  <2>5. \A r \in Resources : built'[r] = IF r = h THEN Goal(doing[x], using[x], h) ELSE built[r]
    BY <2>3, <2>4 DEF TypeOK
  <2>6. Elems(Order(doing[x], using[x])) \subseteq Resources
    <3>1. doing[x] \in Ops /\ using[x] \in Versions
      BY <1>3 DEF Write, Running, TypeOK, Holding
    <3>2. Order(doing[x], using[x]) \in Seq(Resources)
      BY <3>1, OrderIsSeq
    <3> QED BY <3>2 DEF Elems
  <2> HIDE DEF h
  <2>7. Covered(doing[x], using[x], Tail(todo[x]), built')
    BY <2>1, <2>3, <2>5, <2>6
  <2> QED BY <2>1, <2>4, <2>7
<1>4. ASSUME Retry(x)
      PROVE  /\ \A z \in Executors \ {y} : doing'[z] = NoOp
             /\ verdict'[y] = "succeeded" => todo'[y] = <<>>
             /\ Covered(doing'[y], using'[y], todo'[y], built')
  <2>1. y = x /\ \A z \in Executors \ {x} : doing[z] = NoOp
    BY <1>2, <1>4 DEF Retry, Running
  <2>2. doing[x] \in Ops /\ Fetch(x, doing[x])
    BY <1>4, Constants DEF Retry
  <2>3. todo'[x] = Order(doing[x], using'[x])
    BY <2>2, FetchTypes
  <2>4. doing' = doing /\ verdict'[x] = "none"
    BY <1>4 DEF Retry, Running
  <2> QED BY <2>1, <2>3, <2>4
<1>5. ASSUME Fails(x) \/ Succeeds(x)
      PROVE  /\ \A z \in Executors \ {y} : doing'[z] = NoOp
             /\ verdict'[y] = "succeeded" => todo'[y] = <<>>
             /\ Covered(doing'[y], using'[y], todo'[y], built')
  <2>1. /\ y = x /\ \A z \in Executors \ {x} : doing[z] = NoOp
        /\ Covered(doing[x], using[x], todo[x], built)
    BY <1>2, <1>5 DEF Fails, Succeeds, Running
  <2>2. /\ doing' = doing /\ using' = using /\ todo' = todo /\ built' = built
        /\ verdict'[x] = "failed" \/ todo[x] = <<>>
    BY <1>5 DEF Fails, Succeeds, TypeOK
  <2> QED BY <2>1, <2>2
<1>6. ASSUME Publish(x) \/ Abandon(x)
      PROVE  LoneInv'
  BY <1>6, LeaveKeepsLoneInv DEF Publish, Abandon
<1>7. ASSUME LoneInv'
      PROVE  /\ \A z \in Executors \ {y} : doing'[z] = NoOp
             /\ verdict'[y] = "succeeded" => todo'[y] = <<>>
             /\ Covered(doing'[y], using'[y], todo'[y], built')
  BY <1>7 DEF LoneInv
<1> QED BY <1>1, <1>3, <1>4, <1>5, <1>6, <1>7 DEF Execute

LEMMA NextKeepsLoneInv ==
  ASSUME TypeOK, Holding, LoneInv, [Next]_vars
  PROVE  LoneInv'
<1>1. ASSUME UNCHANGED <<doing, using, todo, verdict, alone, built>> PROVE LoneInv'
  BY <1>1 DEF LoneInv
<1>2. CASE UNCHANGED vars
  BY <1>1, <1>2 DEF vars
<1>3. CASE Curate
  BY <1>1, <1>3 DEF Curate, CurateTake, CurateFound, CurateMissing, Quiet, exec
<1>4. CASE \E o \in Ops : Recover(o)
  BY <1>1, <1>4 DEF Recover, exec, history
<1>5. CASE \E p \in Versions : Edit(p)
  BY <1>1, <1>5 DEF Edit, exec, history
<1> QED BY <1>2, <1>3, <1>4, <1>5, ExecuteKeepsLoneInv DEF Next

\* An execution that nobody crosses, and that ends well, leaves the resources of
\* its rule exactly as the version it fetched asks for, whatever was there.
THEOREM LoneRunsAreExact == Spec => []LoneRunIsExact
<1> DEFINE IInv == TypeOK /\ Holding /\ LoneInv
<1>1. Init => IInv
  BY InitTypes, LoneInvInit
<1>2. IInv /\ [Next]_vars => IInv'
  BY NextTypes, NextKeepsLoneInv
<1>3. IInv => LoneRunIsExact
  BY LoneInvMeansExact
<1> QED BY <1>1, <1>2, <1>3, PTL DEF Spec
-----------------------------------------------------------------------------
\* What the curator has found while it looks is still there, and whoever executes
\* meanwhile puts into place what the version it looks for asks for.
CalmInv ==
  check # Idle /\ calm /\ Tokens(check.version) =>
    /\ check.next \in {"authn", "authz"} => built["gwPolicy"] # Absent
    /\ check.next = "authz" => built["authn"] # Absent
    /\ \A x \in Executors : doing[x] # NoOp => doing[x] \in Deploys /\ using[x] = check.version

LEMMA TokenFacts ==
  ASSUME NEW p \in Versions, Tokens(p)
  PROVE  /\ Allows(p) /\ Rule[p].action = "allow" /\ Rule[p].auth = "jwt" /\ RequiresGatewayAuth(p)
         /\ {"route", "authn", "authz", "gwPolicy"} \subseteq Wanted(p) /\ p # Absent
  BY Constants DEF Tokens, Allows, RequiresGatewayAuth, Wanted, GatewayDenies

LEMMA CalmInit == Init => CalmInv
BY DEF Init, CalmInv

LEMMA CalmExecute ==
  ASSUME TypeOK, Holding, CalmInv, NEW x \in Executors, Execute(x)
  PROVE  CalmInv'
<1> SUFFICES ASSUME check' # Idle, calm', Tokens(check'.version)
             PROVE  /\ check'.next \in {"authn", "authz"} => built'["gwPolicy"] # Absent
                    /\ check'.next = "authz" => built'["authn"] # Absent
                    /\ \A y \in Executors : doing'[y] # NoOp =>
                         doing'[y] \in Deploys /\ using'[y] = check'.version
  BY DEF CalmInv, Idle, Tokens, Allows
<1>1. check' = check /\ (calm' => calm)
  BY DEF Execute, Begin, Write, Retry, Fails, Succeeds, Publish, Abandon, Fetch, history
<1>2. /\ check.next \in {"authn", "authz"} => built["gwPolicy"] # Absent
      /\ check.next = "authz" => built["authn"] # Absent
      /\ \A y \in Executors : doing[y] # NoOp => doing[y] \in Deploys /\ using[y] = check.version
  BY <1>1 DEF CalmInv
<1>3. ASSUME NEW o \in Ops, Fetch(x, o), doing' = [doing EXCEPT ![x] = o], UNCHANGED built
      PROVE  CalmInv'
  <2>1. o \in Deploys /\ check.version = policy
    BY <1>1, <1>3 DEF Fetch
  <2>2. using' = [using EXCEPT ![x] = policy]
    BY <1>3, <2>1 DEF Fetch
  <2> QED BY <1>1, <1>2, <1>3, <2>1, <2>2 DEF CalmInv, TypeOK
<1>4. CASE \E o \in Ops : Begin(x, o)
  BY <1>3, <1>4 DEF Begin, CalmInv
<1>5. CASE Retry(x)
  <2>1. doing[x] \in Ops /\ doing' = [doing EXCEPT ![x] = doing[x]]
    BY <1>5, Constants DEF Retry, TypeOK
  <2> QED BY <1>3, <1>5, <2>1 DEF Retry, CalmInv
<1>6. CASE Write(x)
  <2>1. doing[x] # NoOp /\ todo[x] \in Seq(Resources) /\ todo[x] # <<>>
    BY <1>6 DEF Write, Running, TypeOK
  <2>2. PICK r \in Resources : built' = [built EXCEPT ![r] = Goal(doing[x], using[x], r)]
    <3>1. Head(todo[x]) \in Resources
      BY <2>1
    <3> QED BY <1>6, <3>1 DEF Write
  <2>3. /\ doing[x] \in Deploys /\ using[x] = check.version /\ using[x] \in Versions
        /\ Tokens(using[x])
    BY <1>1, <1>2, <2>1 DEF Holding
  <2>4. r \in {"gwPolicy", "authn"} => Goal(doing[x], using[x], r) # Absent
    BY <2>3, TokenFacts DEF Goal
  <2>5. {"gwPolicy", "authn"} \subseteq Resources
    BY DEF Resources, Kinds
  <2> QED BY <1>1, <1>2, <1>6, <2>2, <2>4, <2>5 DEF Write, TypeOK
<1>7. CASE Fails(x) \/ Succeeds(x)
  BY <1>1, <1>2, <1>7 DEF Fails, Succeeds
<1>8. CASE Publish(x) \/ Abandon(x)
  BY <1>1, <1>2, <1>8 DEF Publish, Abandon, Leave, TypeOK
<1> QED BY <1>4, <1>5, <1>6, <1>7, <1>8 DEF Execute, CalmInv

LEMMA CalmCurate ==
  ASSUME TypeOK, Holding, CalmInv, Curate
  PROVE  CalmInv'
<1>1. UNCHANGED <<built, doing, using, alone, policy>>
  BY DEF Curate, CurateTake, CurateFound, CurateMissing, Quiet, exec
<1>2. ASSUME NEW o \in Curated, CurateTake(o) PROVE CalmInv'
  BY <1>1, <1>2 DEF CurateTake, CalmInv
<1>3. CASE check' = Idle
  BY <1>3 DEF CalmInv, Idle
<1>4. ASSUME CurateFound, LookNext(check) # "settle",
             check' = [check EXCEPT !.next = LookNext(check)], UNCHANGED calm
      PROVE  CalmInv'
  <2> SUFFICES ASSUME calm, Tokens(check'.version)
               PROVE  /\ check'.next \in {"authn", "authz"} => built["gwPolicy"] # Absent
                      /\ check'.next = "authz" => built["authn"] # Absent
                      /\ \A x \in Executors : doing[x] # NoOp =>
                           doing[x] \in Deploys /\ using[x] = check'.version
    BY <1>1, <1>4 DEF CalmInv, Tokens, Allows
  <2>1. /\ check'.version = check.version /\ check'.next = LookNext(check) /\ check # Idle
        /\ built[Looked(check)] # Absent
    BY <1>4 DEF CurateFound, TypeOK
  <2>2. /\ check.next \in {"authn", "authz"} => built["gwPolicy"] # Absent
        /\ check.next = "authz" => built["authn"] # Absent
        /\ \A x \in Executors : doing[x] # NoOp => doing[x] \in Deploys /\ using[x] = check.version
    BY <2>1 DEF CalmInv
  <2>3. check.next \in {"first", "gateway", "authn", "authz"}
    BY DEF TypeOK
  <2>4. LookNext(check) = "authn" => check.next = "gateway" /\ Looked(check) = "gwPolicy"
    BY <2>3 DEF LookNext, Looked
  <2>5. LookNext(check) = "authz" => check.next = "authn" /\ Looked(check) = "authn"
    BY <2>3 DEF LookNext, Looked
  <2> QED BY <2>1, <2>2, <2>4, <2>5
<1> QED BY <1>2, <1>3, <1>4 DEF Curate, CurateFound, CurateMissing, Settle

LEMMA CalmStep ==
  ASSUME TypeOK, Holding, CalmInv, [Next]_vars
  PROVE  CalmInv'
<1>1. ASSUME UNCHANGED <<check, calm, built, doing, using>> PROVE CalmInv'
  BY <1>1 DEF CalmInv
<1>2. CASE UNCHANGED vars
  BY <1>1, <1>2 DEF vars
<1>3. CASE \E o \in Ops : Recover(o)
  BY <1>1, <1>3 DEF Recover, exec, history
<1>4. CASE \E p \in Versions : Edit(p)
  BY <1>1, <1>4 DEF Edit, exec, history
<1> QED BY <1>2, <1>3, <1>4, CalmExecute, CalmCurate DEF Next

\* Who records a deploy as succeeded: the execution that ends it, or the curator.
LEMMA Recorded ==
  ASSUME TypeOK, Holding, [Next]_vars, NEW o \in Ops,
         status[o] = "in-progress", status'[o] = "succeeded"
  PROVE  \/ \E x \in Executors : Publish(x) /\ doing[x] = o /\ verdict[x] = "succeeded"
         \/ CurateFound /\ LookNext(check) = "settle" /\ check.op = o
<1>1. status # status'
  OBVIOUS
<1>2. ASSUME NEW x \in Executors, Publish(x)
      PROVE  doing[x] = o /\ verdict[x] = "succeeded"
  BY <1>2 DEF Publish, TypeOK
<1>3. ASSUME NEW x \in Executors, Execute(x) PROVE Publish(x)
  <2>1. ASSUME NEW q \in Ops, Begin(x, q) PROVE FALSE
    BY <2>1 DEF Begin, TypeOK
  <2> QED BY <1>1, <1>3, <2>1 DEF Execute, Write, Retry, Fails, Succeeds, Abandon, api
<1>4. CASE Curate
  <2>1. CurateFound /\ LookNext(check) = "settle"
    BY <1>1, <1>4 DEF Curate, CurateTake, CurateFound, CurateMissing, Settle, TypeOK
  <2>2. Settle("succeeded")
    BY <2>1 DEF CurateFound
  <2>3. check.op = o
    BY <2>2 DEF Settle, TypeOK
  <2> QED BY <2>1, <2>3
<1>5. ~\E q \in Ops : Recover(q)
  BY DEF Recover, TypeOK
<1>6. ~(\E p \in Versions : Edit(p)) /\ ~UNCHANGED vars
  BY <1>1 DEF Edit, vars
<1> QED BY <1>2, <1>3, <1>4, <1>5, <1>6 DEF Next

LEMMA GuardedStep ==
  ASSUME TypeOK, Holding, LoneInv, CalmInv, [Next]_vars, NEW o \in Deploys,
         status[o] = "in-progress", status'[o] = "succeeded",
         built["route"] = policy, Tokens(policy),
         \/ \E x \in Executors : doing[x] = o /\ doing'[x] = NoOp /\ alone[x]
         \/ check.op = o /\ check' = Idle /\ check.version = policy /\ calm
  PROVE  TokensDemanded
<1>1. policy \in Versions /\ o \in Ops /\ o # NoOp /\ policy # Absent
  BY Constants DEF TypeOK
<1>2. ASSUME NEW x \in Executors, doing[x] = o, doing'[x] = NoOp, alone[x]
      PROVE  TokensDemanded
  <2>1. ~Curate
    BY <1>1, <1>2 DEF Curate, CurateTake, CurateFound, CurateMissing, Quiet, exec
  <2>2. PICK y \in Executors : Publish(y) /\ doing[y] = o /\ verdict[y] = "succeeded"
    BY <1>1, <2>1, Recorded DEF Curate
  <2>3. y = x
    BY <1>1, <1>2, <2>2 DEF LoneInv
  <2>4. InPlace(using[x])
    BY <1>1, <1>2, <2>2, <2>3, LoneInvMeansExact DEF LoneRunIsExact
  <2>5. built["route"] \in {using[x], Absent}
    BY <2>4 DEF InPlace, Kinds
  <2>6. using[x] = policy
    BY <1>1, <2>5
  <2>7. {"authn", "authz", "gwPolicy"} \subseteq Wanted(policy)
    BY <1>1, TokenFacts
  <2> QED BY <1>1, <2>4, <2>6, <2>7 DEF InPlace, Kinds, TokensDemanded
<1>3. ASSUME check.op = o, check' = Idle, check.version = policy, calm
      PROVE  TokensDemanded
  <2>1. check # Idle
    BY <1>1, <1>3 DEF Idle
  <2>2. ASSUME NEW x \in Executors, Publish(x) PROVE FALSE
    BY <1>3, <2>1, <2>2 DEF Publish
  <2>3. CurateFound /\ LookNext(check) = "settle"
    BY <1>1, <2>2, Recorded
  <2>4. built[Looked(check)] # Absent
    BY <2>3 DEF CurateFound
  <2>5. check.next = "authz" /\ Looked(check) = "authz"
    <3>1. check.next \in {"first", "gateway", "authn", "authz"}
      BY DEF TypeOK
    <3> QED BY <1>1, <1>3, <2>3, <3>1, TokenFacts DEF LookNext, Looked
  <2> QED BY <1>3, <2>1, <2>4, <2>5 DEF CalmInv, TokensDemanded
<1> QED BY <1>2, <1>3

\* A rule that demands tokens is not recorded as deployed, by its execution or by
\* the curator, while something that demands them is missing, unless another version
\* of it is being worked on (curateRuleDeploys, HandleRuleDeploy).
THEOREM DeployedRulesAreGuarded == Spec => DeployedMeansGuarded
<1> DEFINE IInv == TypeOK /\ Holding /\ LoneInv /\ CalmInv
<1>1. Init => IInv
  BY InitTypes, LoneInvInit, CalmInit
<1>2. IInv /\ [Next]_vars => IInv'
  BY NextTypes, NextKeepsLoneInv, CalmStep
<1>3. IInv /\ [Next]_vars =>
        [\A o \in Deploys :
           /\ status[o] = "in-progress" /\ status'[o] = "succeeded"
           /\ built["route"] = policy /\ Tokens(policy)
           /\ \/ \E x \in Executors : doing[x] = o /\ doing'[x] = NoOp /\ alone[x]
              \/ check.op = o /\ check' = Idle /\ check.version = policy /\ calm
           => TokensDemanded]_vars
  BY GuardedStep
<1> QED BY <1>1, <1>2, <1>3, PTL DEF Spec, DeployedMeansGuarded

-----------------------------------------------------------------------------
\* A deploy is done with the route before it touches the policy at the gateway.
RouteBeforeGateway(s) ==
  \A i, k \in 1..Len(s) : s[i] = "gwPolicy" /\ s[k] = "route" => k < i

LEMMA RouteBeforeGatewayJoined ==
  ASSUME NEW S, NEW s \in Seq(S), NEW t \in Seq(S),
         "gwPolicy" \notin Elems(s), "route" \notin Elems(t)
  PROVE  RouteBeforeGateway(s \o t)
<1>1. Len(s \o t) = Len(s) + Len(t) /\ Len(s) \in Nat /\ Len(t) \in Nat
  OBVIOUS
<1>2. \A i \in 1..Len(s) : (s \o t)[i] # "gwPolicy"
  BY <1>1 DEF Elems
<1>3. \A k \in 1..Len(s \o t) : k \notin 1..Len(s) => (s \o t)[k] # "route"
  <2>1. \A k \in 1..Len(s \o t) : k \notin 1..Len(s) =>
          k - Len(s) \in 1..Len(t) /\ (s \o t)[k] = t[k - Len(s)]
    BY <1>1
  <2> QED BY <2>1 DEF Elems
<1>4. \A i, k \in 1..Len(s \o t) : i \notin 1..Len(s) /\ k \in 1..Len(s) => k < i
  BY <1>1
<1> QED BY <1>2, <1>3, <1>4 DEF RouteBeforeGateway

LEMMA DeployOrderRouteFirst ==
  ASSUME NEW p \in Versions
  PROVE  RouteBeforeGateway(DeployOrder(p))
<1> DEFINE J == CleanupJWT
           E == ReconcileEdge(p)
           C == CleanupEdge
           N == Denial[p]
           R == <<"route">>
           A == <<N, "route">>
           B == <<"route", N>>
<1>1. /\ N \in Resources /\ N # "gwPolicy" /\ N # "route" /\ "route" \in Resources
      /\ {"route", "gwPolicy"} \subseteq Kinds
  BY RuleFacts, ConstantsAssumption DEF Resources, Kinds
<1>2. /\ J \in Seq(Resources) /\ "gwPolicy" \notin Elems(J) /\ "route" \notin Elems(J)
      /\ C \in Seq(Resources) /\ "route" \notin Elems(C) /\ E \in Seq(Resources)
  BY OrderParts
<1>3. "route" \notin Elems(E)
  <2>1. CASE Filters(p)
    <3>1. E = <<"gwPolicy", "gwAuthn", "gwFilter", "filter", "destination", "peer", "network">>
      BY <2>1 DEF ReconcileEdge
    <3> QED BY <3>1 DEF Elems
  <2>2. CASE ~Filters(p)
    BY <1>2, <2>2 DEF ReconcileEdge, CleanupEdge
  <2> QED BY <2>1, <2>2
<1>4. /\ R \in Seq(Resources) /\ "gwPolicy" \notin Elems(R)
      /\ A \in Seq(Resources) /\ "gwPolicy" \notin Elems(A)
      /\ B \in Seq(Resources) /\ "gwPolicy" \notin Elems(B)
  <2>1. R \in Seq(Resources) /\ Elems(R) = {"route"}
    BY <1>1, PairElems
  <2>2. A \in Seq(Resources) /\ Elems(A) = {N, "route"}
    BY <1>1, PairElems
  <2>3. B \in Seq(Resources) /\ Elems(B) = {"route", N}
    BY <1>1, PairElems
  <2> QED BY <1>1, <2>1, <2>2, <2>3
<1> HIDE DEF J, E, C, N, R, A, B
<1>5. CASE Denies(p)
  <2>1. DeployOrder(p) = (J \o A) \o E
    BY <1>5 DEF DeployOrder, J, E, N, A, Allows, Denies
  <2> DEFINE w == J \o A
  <2>2. w \in Seq(Resources) /\ "gwPolicy" \notin Elems(w)
    BY <1>2, <1>4, ElemsConcat
  <2>3. DeployOrder(p) = w \o E
    BY <2>1
  <2> HIDE DEF w
  <2> QED BY <1>2, <1>3, <2>2, <2>3, RouteBeforeGatewayJoined
<1>6. CASE Allows(p)
  <2>1. ~Denies(p)
    BY <1>6, RuleFacts
  <2>2. DeployOrder(p) = (B \o J) \o E
    BY <1>6, <2>1 DEF DeployOrder, J, E, N, B, Allows, Denies
  <2> DEFINE w == B \o J
  <2>3. w \in Seq(Resources) /\ "gwPolicy" \notin Elems(w)
    BY <1>2, <1>4, ElemsConcat
  <2>4. DeployOrder(p) = w \o E
    BY <2>2
  <2> HIDE DEF w
  <2> QED BY <1>2, <1>3, <2>3, <2>4, RouteBeforeGatewayJoined
<1>7. CASE Rule[p].action = "deny" /\ ~Rule[p].gateways
  <2>1. ~Denies(p) /\ ~Allows(p)
    BY <1>7, RuleFacts
  <2>2. DeployOrder(p) = (J \o A \o J) \o C
    BY <1>7, <2>1 DEF DeployOrder, J, C, N, A
  <2> DEFINE w == J \o A \o J
  <2>3. w \in Seq(Resources) /\ "gwPolicy" \notin Elems(w)
    BY <1>2, <1>4, ElemsConcat3
  <2>4. DeployOrder(p) = w \o C
    BY <2>2
  <2> HIDE DEF w
  <2> QED BY <1>2, <2>3, <2>4, RouteBeforeGatewayJoined
<1>8. CASE Rule[p].action = "allow" /\ ~Rule[p].gateways
  <2>1. ~Denies(p) /\ ~Allows(p) /\ Rule[p].action # "deny"
    BY <1>8, RuleFacts
  <2>2. DeployOrder(p) = (R \o J) \o C
    BY <1>8, <2>1 DEF DeployOrder, J, C, R
  <2> DEFINE w == R \o J
  <2>3. w \in Seq(Resources) /\ "gwPolicy" \notin Elems(w)
    BY <1>2, <1>4, ElemsConcat
  <2>4. DeployOrder(p) = w \o C
    BY <2>2
  <2> HIDE DEF w
  <2> QED BY <1>2, <2>3, <2>4, RouteBeforeGatewayJoined
<1> QED BY <1>5, <1>6, <1>7, <1>8, RuleFacts

LEMMA RouteBeforeGatewayTail ==
  ASSUME NEW S, NEW s \in Seq(S), s # <<>>, RouteBeforeGateway(s)
  PROVE  /\ RouteBeforeGateway(Tail(s))
         /\ Head(s) = "gwPolicy" => "route" \notin Elems(s)
<1>1. Len(s) \in Nat \ {0} /\ Len(Tail(s)) = Len(s) - 1 /\ Head(s) = s[1]
  OBVIOUS
<1>2. \A i \in 1..Len(Tail(s)) : Tail(s)[i] = s[i + 1] /\ i + 1 \in 1..Len(s)
  BY <1>1
<1>3. RouteBeforeGateway(Tail(s))
  <2> SUFFICES ASSUME NEW i \in 1..Len(Tail(s)), NEW k \in 1..Len(Tail(s)),
                      Tail(s)[i] = "gwPolicy", Tail(s)[k] = "route"
               PROVE  k < i
    BY DEF RouteBeforeGateway
  <2>1. s[i + 1] = "gwPolicy" /\ s[k + 1] = "route" /\ i + 1 \in 1..Len(s) /\ k + 1 \in 1..Len(s)
    BY <1>2
  <2>2. k + 1 < i + 1
    BY <2>1 DEF RouteBeforeGateway
  <2> QED BY <1>1, <2>2
<1>4. ASSUME Head(s) = "gwPolicy" PROVE "route" \notin Elems(s)
  <2>1. \A k \in 1..Len(s) : s[k] = "route" => k < 1
    BY <1>1, <1>4 DEF RouteBeforeGateway
  <2>2. \A k \in 1..Len(s) : ~(k < 1)
    BY <1>1
  <2> QED BY <2>1, <2>2 DEF Elems
<1> QED BY <1>3, <1>4

-----------------------------------------------------------------------------
\* While only deploys of other versions touch what one uninterrupted execution left,
\* the old route keeps the policy at the gateway that it was published with.
RouteFirst ==
  \A x \in Executors : doing[x] \in Deploys => RouteBeforeGateway(todo[x])
OldRouteGuarded ==
  (\A x \in Executors : doing[x] # NoOp => doing[x] \in Deploys /\ using[x] # built["route"])
    /\ built["route"] # Absent /\ Tokens(built["route"])
    => built["gwPolicy"] = built["route"]
IntactInv ==
  intact =>
    /\ \A x \in Executors : doing[x] # NoOp => alone[x] /\ verdict[x] # "failed"
    /\ \A x \in Executors : doing[x] # NoOp /\ doing[x] \notin Deploys /\ verdict[x] = "succeeded"
                              => built["route"] = Absent
    /\ OldRouteGuarded

LEMMA IntactInit == Init => RouteFirst /\ IntactInv
<1> SUFFICES ASSUME Init PROVE RouteFirst /\ IntactInv
  OBVIOUS
<1>1. \A x \in Executors : doing[x] = NoOp
  BY DEF Init
<1>2. built["route"] = Absent
  BY DEF Init, Resources, Kinds
<1> QED BY <1>1, <1>2, ConstantsAssumption DEF RouteFirst, IntactInv, OldRouteGuarded

LEMMA RouteFirstExecute ==
  ASSUME TypeOK, Holding, RouteFirst, NEW x \in Executors, Execute(x)
  PROVE  RouteFirst'
<1>1. ASSUME NEW o \in Ops, Fetch(x, o), doing' = [doing EXCEPT ![x] = o] PROVE RouteFirst'
  <2>1. using'[x] \in Versions /\ todo'[x] = Order(o, using'[x])
        /\ \A y \in Executors \ {x} : todo'[y] = todo[y]
    BY <1>1, FetchTypes
  <2>2. o \in Deploys => RouteBeforeGateway(todo'[x])
    BY <2>1, DeployOrderRouteFirst DEF Order
  <2> QED BY <1>1, <2>1, <2>2 DEF RouteFirst, TypeOK
<1>2. CASE \E o \in Ops : Begin(x, o)
  BY <1>1, <1>2 DEF Begin
<1>3. CASE Retry(x)
  <2>1. doing[x] \in Ops /\ doing' = [doing EXCEPT ![x] = doing[x]]
    BY <1>3, Constants DEF Retry, TypeOK
  <2> QED BY <1>1, <1>3, <2>1 DEF Retry
<1>4. CASE Write(x)
  <2>1. todo[x] \in Seq(Resources) /\ todo[x] # <<>> /\ todo' = [todo EXCEPT ![x] = Tail(todo[x])]
    BY <1>4 DEF Write, TypeOK
  <2>2. RouteBeforeGateway(todo[x]) => RouteBeforeGateway(todo'[x])
    BY <2>1, RouteBeforeGatewayTail DEF TypeOK
  <2> QED BY <1>4, <2>1, <2>2 DEF Write, RouteFirst, TypeOK
<1>5. CASE Fails(x) \/ Succeeds(x)
  BY <1>5 DEF Fails, Succeeds, RouteFirst
<1>6. CASE Publish(x) \/ Abandon(x)
  <2>1. \A y \in Executors : doing'[y] # NoOp => doing'[y] = doing[y] /\ todo'[y] = todo[y]
    BY <1>6 DEF Publish, Abandon, Leave, TypeOK
  <2>2. NoOp \notin Deploys
    BY Constants
  <2> QED BY <2>1, <2>2 DEF RouteFirst
<1> QED BY <1>2, <1>3, <1>4, <1>5, <1>6 DEF Execute

\* What a lone deploy has left to do, or has done, to the route.
LEMMA RouteOfLoneDeploy ==
  ASSUME TypeOK, Holding, LoneInv, NEW x \in Executors, doing[x] \in Deploys, alone[x]
  PROVE  "route" \in Elems(todo[x]) \/ built["route"] \in {using[x], Absent}
<1>1. doing[x] # NoOp /\ using[x] \in Versions
  BY Constants DEF Holding
<1>2. "route" \in Elems(Order(doing[x], using[x]))
  BY <1>1, DeployOrderComplete DEF Order, Answerable, Kinds
<1>3. "route" \in Elems(todo[x]) \/ built["route"] = Goal(doing[x], using[x], "route")
  BY <1>1, <1>2 DEF LoneInv
<1> QED BY <1>3 DEF Goal

LEMMA IntactExecute ==
  ASSUME TypeOK, Holding, LoneInv, RouteFirst, IntactInv, NEW x \in Executors, Execute(x)
  PROVE  IntactInv'
<1>0. built \in [Resources -> Versions \cup {Absent}] /\ {"route", "gwPolicy"} \subseteq Resources
  BY DEF TypeOK, Resources, Kinds
<1>1. CASE \E o \in Ops : Begin(x, o)
  <2>1. PICK o \in Ops : Begin(x, o)
    BY <1>1
  <2> SUFFICES ASSUME intact' PROVE IntactInv'
    BY DEF IntactInv
  <2>2. intact /\ \A y \in Executors : doing[y] = NoOp
    BY <2>1 DEF Begin, Others
  <2>3. /\ \A y \in Executors \ {x} : doing'[y] = NoOp
        /\ alone'[x] /\ verdict'[x] = "none" /\ UNCHANGED built
    BY <2>1, <2>2 DEF Begin, Others, TypeOK
  <2>4. built["route"] # Absent /\ Tokens(built["route"]) => built["gwPolicy"] = built["route"]
    BY <2>2 DEF IntactInv, OldRouteGuarded
  <2> QED BY <2>3, <2>4 DEF IntactInv, OldRouteGuarded, Tokens, Allows
<1>2. CASE Write(x)
  <2> SUFFICES ASSUME intact PROVE IntactInv'
    BY <1>2 DEF IntactInv, Write, history
  <2>1. /\ doing[x] # NoOp /\ alone[x] /\ verdict[x] = "none" /\ todo[x] \in Seq(Resources)
        /\ todo[x] # <<>> /\ UNCHANGED <<doing, using, verdict, alone>>
    BY <1>2 DEF Write, Running, history, IntactInv, TypeOK
  <2>2. \A y \in Executors \ {x} : doing[y] = NoOp
    BY <2>1 DEF LoneInv
  <2> DEFINE r == Head(todo[x])
  <2>3. r \in Resources /\ built' = [built EXCEPT ![r] = Goal(doing[x], using[x], r)]
    BY <1>2, <2>1 DEF Write
  <2>4. ASSUME doing[x] \in Deploys, using[x] # built'["route"], built'["route"] # Absent,
               Tokens(built'["route"])
        PROVE  built'["gwPolicy"] = built'["route"]
    <3>1. r # "route"
      BY <1>0, <2>3, <2>4 DEF Goal
    <3>2. built'["route"] = built["route"]
      BY <1>0, <2>3, <3>1
    <3>3. built["gwPolicy"] = built["route"]
      BY <2>2, <2>4, <3>2 DEF IntactInv, OldRouteGuarded
    <3>4. "route" \in Elems(todo[x])
      BY <2>1, <2>4, <3>2, RouteOfLoneDeploy
    <3>5. r # "gwPolicy"
      <4>1. RouteBeforeGateway(todo[x])
        BY <2>4 DEF RouteFirst
      <4> QED BY <2>1, <3>4, <4>1, RouteBeforeGatewayTail
    <3> QED BY <1>0, <2>3, <3>2, <3>3, <3>5
  <2> HIDE DEF r
  <2>5. OldRouteGuarded'
    BY <2>1, <2>4 DEF OldRouteGuarded, Tokens, Allows
  <2> QED BY <2>1, <2>2, <2>5 DEF IntactInv
<1>3. CASE Retry(x) \/ Fails(x)
  BY <1>3 DEF Retry, Fails, IntactInv
<1>4. CASE Succeeds(x)
  <2> SUFFICES ASSUME intact' PROVE IntactInv'
    BY DEF IntactInv
  <2>1. /\ doing[x] # NoOp /\ alone[x] /\ todo[x] = <<>> /\ UNCHANGED <<doing, using, built, alone>>
        /\ doing[x] \notin Deploys => built["route"] = Absent
        /\ verdict' = [verdict EXCEPT ![x] = "succeeded"]
    BY <1>4 DEF Succeeds, Running
  <2>2. \A y \in Executors \ {x} : doing[y] = NoOp
    BY <2>1 DEF LoneInv
  <2>3. ~(doing[x] \in Deploys /\ using[x] # built["route"] /\ built["route"] # Absent)
    BY <2>1, RouteOfLoneDeploy, NothingLeft
  <2>4. OldRouteGuarded'
    BY <2>1, <2>3 DEF OldRouteGuarded
  <2>5. verdict'[x] = "succeeded"
    BY <2>1 DEF TypeOK
  <2> QED BY <2>1, <2>2, <2>4, <2>5 DEF IntactInv
<1>5. CASE Publish(x) \/ Abandon(x)
  <2> SUFFICES ASSUME intact' PROVE IntactInv'
    BY DEF IntactInv
  <2>1. intact /\ doing[x] # NoOp /\ UNCHANGED built
    BY <1>5 DEF Publish, Abandon
  <2>2. alone[x] /\ verdict[x] = "succeeded"
    <3>1. alone[x] /\ verdict[x] # "failed"
      BY <2>1 DEF IntactInv
    <3> QED BY <1>5, <3>1 DEF Publish, Abandon, TypeOK, Verdict
  <2>3. \A y \in Executors : doing'[y] = NoOp
    <3>1. doing' = [doing EXCEPT ![x] = NoOp]
      BY <1>5 DEF Publish, Abandon, Leave
    <3>2. \A y \in Executors \ {x} : doing[y] = NoOp
      BY <2>1, <2>2 DEF LoneInv
    <3> QED BY <3>1, <3>2 DEF TypeOK
  <2>4. ASSUME built["route"] # Absent, Tokens(built["route"])
        PROVE  built["gwPolicy"] = built["route"]
    <3>1. doing[x] \in Deploys
      BY <2>1, <2>2, <2>4 DEF IntactInv
    <3>2. InPlace(using[x])
      BY <2>1, <2>2, <3>1, LoneInvMeansExact DEF LoneRunIsExact
    <3>3. built["route"] = using[x] /\ using[x] \in Versions
      BY <2>1, <2>4, <3>2 DEF InPlace, Kinds, Holding
    <3>4. "gwPolicy" \in Wanted(using[x])
      BY <2>4, <3>3, TokenFacts
    <3> QED BY <3>2, <3>3, <3>4 DEF InPlace, Kinds
  <2>5. OldRouteGuarded'
    BY <2>1, <2>4 DEF OldRouteGuarded, Tokens, Allows
  <2> QED BY <2>3, <2>5 DEF IntactInv
<1> QED BY <1>1, <1>2, <1>3, <1>4, <1>5 DEF Execute

LEMMA IntactStep ==
  ASSUME TypeOK, Holding, LoneInv, RouteFirst, IntactInv, [Next]_vars
  PROVE  RouteFirst' /\ IntactInv'
<1>1. ASSUME UNCHANGED <<intact, alone, verdict, built, doing, using, todo>>
      PROVE  RouteFirst' /\ IntactInv'
  BY <1>1 DEF RouteFirst, IntactInv, OldRouteGuarded
<1>2. CASE UNCHANGED vars
  BY <1>1, <1>2 DEF vars
<1>3. CASE Curate
  BY <1>1, <1>3 DEF Curate, CurateTake, CurateFound, CurateMissing, Quiet, exec
<1>4. CASE \E o \in Ops : Recover(o)
  BY <1>1, <1>4 DEF Recover, exec, history
<1>5. CASE \E p \in Versions : Edit(p)
  BY <1>1, <1>5 DEF Edit, exec, history
<1> QED BY <1>2, <1>3, <1>4, <1>5, RouteFirstExecute, IntactExecute DEF Next

\* From what an uninterrupted execution left, no deploy of another version passes
\* through a state in which the old route is up with nothing to turn away a request
\* without a token (the order of requests in HandleRuleDeploy).
THEOREM OldRoutesAreClosed == Spec => OldRoutesStayClosed
<1> DEFINE IInv == TypeOK /\ Holding /\ LoneInv /\ RouteFirst /\ IntactInv
<1>1. Init => IInv
  BY InitTypes, LoneInvInit, IntactInit
<1>2. IInv /\ [Next]_vars => IInv'
  BY NextTypes, NextKeepsLoneInv, IntactStep
<1>3. IInv /\ [Next]_vars =>
        [/\ intact /\ \A x \in Executors : doing[x] # NoOp => doing[x] \in Deploys
         /\ ~Open /\ Open'
         => \E x \in Executors : doing[x] # NoOp /\ using[x] = built'["route"]]_vars
  <2> SUFFICES ASSUME IInv, [Next]_vars, intact,
                      \A x \in Executors : doing[x] # NoOp => doing[x] \in Deploys,
                      ~Open, Open'
               PROVE  \E x \in Executors : doing[x] # NoOp /\ using[x] = built'["route"]
    OBVIOUS
  <2>1. built' # built
    <3> SUFFICES ASSUME built' = built PROVE FALSE
      OBVIOUS
    <3> QED BY DEF Open, Tokens, Allows, Denies
  <2>2. PICK x \in Executors : Write(x)
    BY <2>1 DEF Next, vars, Execute, Begin, Retry, Fails, Succeeds, Publish, Abandon, Curate,
       CurateTake, CurateFound, CurateMissing, Quiet, Recover, Edit
  <2>3. UNCHANGED <<intact, doing, using>>
    BY <2>2 DEF Write, history
  <2>4. IntactInv'
    BY <1>2
  <2>5. built'["route"] # Absent /\ Tokens(built'["route"])
        /\ (built'["gwPolicy"] # Absent => ~Tokens(built'["gwPolicy"]))
    BY DEF Open, Tokens, Allows
  <2>6. built'["gwPolicy"] # built'["route"]
    BY <2>5
  <2> QED BY <2>3, <2>4, <2>5, <2>6 DEF IntactInv, OldRouteGuarded, Tokens, Allows
<1> QED BY <1>1, <1>2, <1>3, PTL DEF Spec, OldRoutesStayClosed
=============================================================================
