---------------------- MODULE OperationLifecycleProofs ----------------------
(***************************************************************************)
(* Proofs about OperationLifecycle, for every set of workers and           *)
(* operations, every compatibility relation and every bound.               *)
(***************************************************************************)
EXTENDS OperationLifecycle, TLAPS

USE ConstantsAssumption

\* What a busy goroutine holds, and what it may not hold.
HoldsOperation ==
  \A x \in Executors :
    /\ pc[x] \in Busy => cur[x] \in Ops
    /\ pc[x] = "finishing" => ~lost[x] /\ verdict[x] \in evidence[cur[x]]

\* Two consumers never hold the message of the same operation, each on the
\* channel that delivered it.
OneHolder ==
  \A v, w \in Workers \ cut :
    /\ pc[Consumer(v)] \in Busy /\ pc[Consumer(w)] \in Busy
    /\ cur[Consumer(v)] = cur[Consumer(w)]
    => v = w

\* The grant an execution runs under is the current one, and then the claim
\* is its worker's, or it has been taken back since.
GrantKnown ==
  \A x \in Executors, o \in Ops : Executing(x, o) =>
    /\ term[x] <= epoch[o]
    /\ term[x] = epoch[o] => /\ status[o] # "queued"
                             /\ status[o] = "in-progress" => owner[o] = Worker(x)

\* The curator's snapshot holds only the kinds of operations it lists.
CuratesItsOwn == \A w \in Workers : curating[w] \subseteq Curated

IInv ==
  /\ TypeOK
  /\ HoldsOperation
  /\ CuratesItsOwn
  /\ OneHolder
  /\ MessageHeldWhileWorking
  /\ GrantKnown
  /\ SameGrantSameWorker
  /\ AckedOnlyAfterClaim
  /\ VerdictHasEvidence

-----------------------------------------------------------------------------
LEMMA ExecutorFacts ==
  /\ \A w \in Workers : Consumer(w) \in Executors /\ Poller(w) \in Executors
  /\ \A w \in Workers : Worker(Consumer(w)) = w /\ Worker(Poller(w)) = w
  /\ \A x \in Executors : Worker(x) \in Workers
  /\ \A x \in Executors : x = Consumer(Worker(x)) \/ x = Poller(Worker(x))
  /\ \A v, w \in Workers : Consumer(v) # Poller(w)
  /\ \A v, w \in Workers : Consumer(v) = Consumer(w) => v = w
BY DEF Executors, Consumer, Poller, Worker

\* Types are preserved; a busy goroutine's operation is needed to index
\* the API's records.
LEMMA TypeStep ==
  TypeOK /\ HoldsOperation /\ [Next]_vars => TypeOK'
<1> SUFFICES ASSUME TypeOK, HoldsOperation, [Next]_vars
             PROVE  TypeOK'
  OBVIOUS
<1> USE ExecutorFacts DEF TypeOK, api, broker, exec, Status, Verdict, Place,
          Busy, Fault
<1>1. ASSUME NEW w \in Workers, NEW o \in Ops, DeliverFetchFails(w, o)
      PROVE TypeOK'
  BY <1>1 DEF DeliverFetchFails
<1>2. ASSUME NEW w \in Workers, NEW o \in Ops, DeliverSkip(w, o) PROVE TypeOK'
  BY <1>2 DEF DeliverSkip
<1>3. ASSUME NEW w \in Workers, NEW o \in Ops, Deliver(w, o) PROVE TypeOK'
  BY <1>3 DEF Deliver, Take
<1>4. ASSUME NEW w \in Workers, PollRecover(w) PROVE TypeOK'
  BY <1>4 DEF PollRecover, Stale
<1>5. ASSUME NEW w \in Workers, PollList(w) PROVE TypeOK'
  BY <1>5 DEF PollList
<1>6. ASSUME NEW w \in Workers, PollFails(w) PROVE TypeOK'
  BY <1>6 DEF PollFails
<1>7. ASSUME NEW w \in Workers, PollDone(w) PROVE TypeOK'
  BY <1>7 DEF PollDone
<1>8. ASSUME NEW w \in Workers, NEW o \in Ops, PollTake(w, o) PROVE TypeOK'
  BY <1>8 DEF PollTake, Take
<1>9. ASSUME NEW x \in Executors, ClaimGranted(x) PROVE TypeOK'
  BY <1>9 DEF ClaimGranted, RecordGrant, HoldsOperation
<1>10. ASSUME NEW x \in Executors, ClaimConflict(x) PROVE TypeOK'
  BY <1>10 DEF ClaimConflict, ReturnNil, Released, Held, Reconnected, HoldsOperation
<1>11. ASSUME NEW x \in Executors, ClaimFails(x) PROVE TypeOK'
  <2>1. cur[x] \in Ops /\ Worker(x) \in Workers
    BY <1>11 DEF ClaimFails, HoldsOperation
  <2>2. /\ status' \in [Ops -> Status] /\ owner' \in [Ops -> Workers \cup {NoWorker}]
        /\ live' \in [Ops -> BOOLEAN] /\ epoch' \in [Ops -> Nat]
    <3>1. CASE UNCHANGED api
      BY <3>1
    <3>2. CASE RecordGrant(cur[x], Worker(x))
      BY <3>2, <2>1 DEF RecordGrant
    <3> QED BY <1>11, <3>1, <3>2 DEF ClaimFails
  <2> QED
    BY <1>11, <2>1, <2>2 DEF ClaimFails, ReturnError, Released, Held, Reconnected
<1>12. ASSUME NEW x \in Executors, Renew(x) PROVE TypeOK'
  BY <1>12 DEF Renew, RecordGrant, HoldsOperation
<1>13. ASSUME NEW x \in Executors, RenewFails(x) PROVE TypeOK'
  <2>1. cur[x] \in Ops /\ Worker(x) \in Workers
    BY <1>13 DEF RenewFails, HoldsOperation
  <2>2. /\ status' \in [Ops -> Status] /\ owner' \in [Ops -> Workers \cup {NoWorker}]
        /\ live' \in [Ops -> BOOLEAN] /\ epoch' \in [Ops -> Nat]
    <3>1. CASE UNCHANGED api
      BY <3>1
    <3>2. CASE RecordGrant(cur[x], Worker(x))
      BY <3>2, <2>1 DEF RecordGrant
    <3> QED BY <1>13, <3>1, <3>2 DEF RenewFails
  <2> QED
    BY <1>13, <2>1, <2>2 DEF RenewFails
<1>14. ASSUME NEW x \in Executors, ExecuteRetry(x) PROVE TypeOK'
  BY <1>14 DEF ExecuteRetry, HoldsOperation
<1>15. ASSUME NEW x \in Executors, NEW v \in Verdict, ExecuteEnds(x, v)
      PROVE TypeOK'
  BY <1>15 DEF ExecuteEnds, HoldsOperation
<1>16. ASSUME NEW x \in Executors, ExecuteAbandoned(x) PROVE TypeOK'
  BY <1>16 DEF ExecuteAbandoned, ReturnError, Released, Held, Reconnected, HoldsOperation
<1>17. ASSUME NEW x \in Executors, FinishAccepted(x) PROVE TypeOK'
  BY <1>17 DEF FinishAccepted, RecordVerdict, ReturnNil, Released, Held, Reconnected, HoldsOperation
<1>18. ASSUME NEW x \in Executors, FinishConflict(x) PROVE TypeOK'
  BY <1>18 DEF FinishConflict, ReturnNil, Released, Held, Reconnected, HoldsOperation
<1>19. ASSUME NEW x \in Executors, FinishFails(x) PROVE TypeOK'
  BY <1>19 DEF FinishFails, RecordVerdict, ReturnError, Released, Held, Reconnected, HoldsOperation
<1>20. ASSUME NEW w \in Workers, CurateList(w) PROVE TypeOK'
  BY <1>20 DEF CurateList
<1>21. ASSUME NEW w \in Workers, NEW o \in Ops, NEW v \in Verdict, CurateSettle(w, o, v)
      PROVE TypeOK'
  BY <1>21 DEF CurateSettle, RecordVerdict, ApiTakesVerdict
<1>22. ASSUME NEW w \in Workers, NEW o \in Ops, CurateLeave(w, o) PROVE TypeOK'
  BY <1>22 DEF CurateLeave
<1>23. ASSUME NEW o \in Ops, LeaseExpires(o) PROVE TypeOK'
  BY <1>23 DEF LeaseExpires
<1>24. ASSUME NEW w \in Workers, Restart(w) PROVE TypeOK'
  <2>1. Unacked(w) \subseteq Ops
    BY DEF Unacked, Held, HoldsOperation
  <2>2. ready' \subseteq Ops /\ dead' \subseteq Ops /\ cut' \subseteq Workers
    BY <1>24, <2>1 DEF Restart
  <2>3. pc' \in [Executors -> Place]
    BY <1>24 DEF Restart, Reset
  <2>4. cur' \in [Executors -> Ops \cup {NoOp}]
    BY <1>24 DEF Restart, Reset
  <2>5. attempt' \in [Executors -> 1..MaxAttempts]
    BY <1>24 DEF Restart, Reset
  <2>6. lost' \in [Executors -> BOOLEAN]
    BY <1>24 DEF Restart, Reset
  <2>7. verdict' \in [Executors -> Verdict]
    BY <1>24 DEF Restart, Reset
  <2>8. term' \in [Executors -> Nat]
    BY <1>24 DEF Restart, Reset
  <2>9. batch' \in [Workers -> SUBSET Ops] /\ curating' \in [Workers -> SUBSET Ops]
    BY <1>24 DEF Restart
  <2>10. UNCHANGED <<api, acked, evidence>> /\ faults' \in 0..MaxFaults
    BY <1>24 DEF Restart
  <2> QED
    BY <2>2, <2>3, <2>4, <2>5, <2>6, <2>7, <2>8, <2>9, <2>10
<1>25. ASSUME NEW w \in Workers, ConnectionLost(w) PROVE TypeOK'
  BY <1>25 DEF ConnectionLost, HoldsOperation
<1>26. ASSUME UNCHANGED vars PROVE TypeOK'
  BY <1>26 DEF vars
<1> HIDE DEF TypeOK
<1> QED
  BY <1>1, <1>2, <1>3, <1>4, <1>5, <1>6, <1>7, <1>8, <1>9, <1>10, <1>11,
     <1>12, <1>13, <1>14, <1>15, <1>16, <1>17, <1>18, <1>19, <1>20, <1>21,
     <1>22, <1>23, <1>24, <1>25, <1>26
  DEF Next, Consume, Poll, Process, Curate, Environment

\* A goroutine that enters processOperation holds an operation until it
\* leaves, and reaches "finishing" with a claim not lost and a verdict that
\* its execution gave.
LEMMA HoldsStep ==
  TypeOK /\ HoldsOperation /\ [Next]_vars => HoldsOperation'
<1> SUFFICES ASSUME TypeOK, HoldsOperation, [Next]_vars
             PROVE  HoldsOperation'
  OBVIOUS
<1> USE ExecutorFacts DEF TypeOK, api, broker, exec, Status, Verdict, Place,
          Busy, Fault, HoldsOperation
<1>1. ASSUME NEW w \in Workers, NEW o \in Ops, DeliverFetchFails(w, o)
      PROVE HoldsOperation'
  BY <1>1 DEF DeliverFetchFails
<1>2. ASSUME NEW w \in Workers, NEW o \in Ops, DeliverSkip(w, o)
      PROVE HoldsOperation'
  BY <1>2 DEF DeliverSkip
<1>3. ASSUME NEW w \in Workers, NEW o \in Ops, Deliver(w, o) PROVE HoldsOperation'
  BY <1>3 DEF Deliver, Take
<1>4. ASSUME NEW w \in Workers, PollRecover(w) PROVE HoldsOperation'
  BY <1>4 DEF PollRecover, Stale
<1>5. ASSUME NEW w \in Workers, PollList(w) PROVE HoldsOperation'
  BY <1>5 DEF PollList
<1>6. ASSUME NEW w \in Workers, PollFails(w) PROVE HoldsOperation'
  BY <1>6 DEF PollFails
<1>7. ASSUME NEW w \in Workers, PollDone(w) PROVE HoldsOperation'
  BY <1>7 DEF PollDone
<1>8. ASSUME NEW w \in Workers, NEW o \in Ops, PollTake(w, o)
      PROVE HoldsOperation'
  BY <1>8, SMTT(30) DEF PollTake, Take
<1>9. ASSUME NEW x \in Executors, ClaimGranted(x) PROVE HoldsOperation'
  BY <1>9 DEF ClaimGranted, RecordGrant
<1>10. ASSUME NEW x \in Executors, ClaimConflict(x) PROVE HoldsOperation'
  BY <1>10 DEF ClaimConflict, ReturnNil, Released, Held, Reconnected
<1>11. ASSUME NEW x \in Executors, ClaimFails(x) PROVE HoldsOperation'
  BY <1>11 DEF ClaimFails, RecordGrant, ReturnError, Released, Held, Reconnected
<1>12. ASSUME NEW x \in Executors, Renew(x) PROVE HoldsOperation'
  BY <1>12 DEF Renew, RecordGrant
<1>13. ASSUME NEW x \in Executors, RenewFails(x) PROVE HoldsOperation'
  BY <1>13 DEF RenewFails, RecordGrant
<1>14. ASSUME NEW x \in Executors, ExecuteRetry(x) PROVE HoldsOperation'
  BY <1>14 DEF ExecuteRetry
<1>15. ASSUME NEW x \in Executors, NEW v \in Verdict, ExecuteEnds(x, v)
      PROVE HoldsOperation'
  BY <1>15 DEF ExecuteEnds
<1>16. ASSUME NEW x \in Executors, ExecuteAbandoned(x) PROVE HoldsOperation'
  BY <1>16 DEF ExecuteAbandoned, ReturnError, Released, Held, Reconnected
<1>17. ASSUME NEW x \in Executors, FinishAccepted(x) PROVE HoldsOperation'
  BY <1>17 DEF FinishAccepted, RecordVerdict, ReturnNil, Released, Held, Reconnected
<1>18. ASSUME NEW x \in Executors, FinishConflict(x) PROVE HoldsOperation'
  BY <1>18 DEF FinishConflict, ReturnNil, Released, Held, Reconnected
<1>19. ASSUME NEW x \in Executors, FinishFails(x) PROVE HoldsOperation'
  BY <1>19 DEF FinishFails, RecordVerdict, ReturnError, Released, Held, Reconnected
<1>20. ASSUME NEW w \in Workers, CurateList(w) PROVE HoldsOperation'
  BY <1>20 DEF CurateList
<1>21. ASSUME NEW w \in Workers, NEW o \in Ops, NEW v \in Verdict, CurateSettle(w, o, v)
      PROVE HoldsOperation'
  BY <1>21 DEF CurateSettle, RecordVerdict, ApiTakesVerdict
<1>22. ASSUME NEW w \in Workers, NEW o \in Ops, CurateLeave(w, o)
      PROVE HoldsOperation'
  BY <1>22 DEF CurateLeave
<1>23. ASSUME NEW o \in Ops, LeaseExpires(o) PROVE HoldsOperation'
  BY <1>23 DEF LeaseExpires
<1>24. ASSUME NEW w \in Workers, Restart(w) PROVE HoldsOperation'
  BY <1>24 DEF Restart, Unacked, Held, Reset
<1>25. ASSUME NEW w \in Workers, ConnectionLost(w) PROVE HoldsOperation'
  BY <1>25 DEF ConnectionLost
<1>26. ASSUME UNCHANGED vars PROVE HoldsOperation'
  BY <1>26 DEF vars
<1> QED
  BY <1>1, <1>2, <1>3, <1>4, <1>5, <1>6, <1>7, <1>8, <1>9, <1>10, <1>11,
     <1>12, <1>13, <1>14, <1>15, <1>16, <1>17, <1>18, <1>19, <1>20, <1>21,
     <1>22, <1>23, <1>24, <1>25, <1>26
  DEF Next, Consume, Poll, Process, Curate, Environment

\* Only a new snapshot adds to what the curator looks at.
LEMMA CuratesStep == TypeOK /\ CuratesItsOwn /\ [Next]_vars => CuratesItsOwn'
<1> SUFFICES ASSUME TypeOK, CuratesItsOwn, [Next]_vars PROVE CuratesItsOwn'
  OBVIOUS
<1> USE DEF TypeOK, CuratesItsOwn
<1>1. ASSUME NEW w \in Workers, Curate(w) PROVE CuratesItsOwn'
  BY <1>1 DEF Curate, CurateList, CurateSettle, CurateLeave
<1>2. ASSUME NEW w \in Workers, Restart(w) PROVE CuratesItsOwn'
  BY <1>2 DEF Restart
<1>3. CASE curating' = curating
  BY <1>3
<1>4. ASSUME NEW w \in Workers, Consume(w) \/ Poll(w) PROVE curating' = curating
  BY <1>4 DEF Consume, DeliverFetchFails, DeliverSkip, Deliver,
              Poll, PollRecover, PollList, PollFails, PollDone, PollTake
<1>5. ASSUME NEW x \in Executors, Process(x) PROVE curating' = curating
  BY <1>5 DEF Process, ClaimGranted, ClaimConflict, ClaimFails, Renew, RenewFails,
              ExecuteRetry, ExecuteEnds, ExecuteAbandoned,
              FinishAccepted, FinishConflict, FinishFails
<1>6. CASE (\E w \in Workers : ConnectionLost(w)) \/ \E o \in Ops : LeaseExpires(o)
  BY <1>3, <1>6 DEF ConnectionLost, LeaseExpires
<1> QED
  BY <1>1, <1>2, <1>3, <1>4, <1>5, <1>6 DEF Next, Environment, vars

\* Leaving processOperation frees the message the consumer held and no other.
LEMMA ReleaseKeepsHolders ==
  ASSUME TypeOK, HoldsOperation, OneHolder, MessageHeldWhileWorking,
         NEW x \in Executors, pc[x] \in Busy, ReturnNil(x) \/ ReturnError(x)
  PROVE  (OneHolder /\ MessageHeldWhileWorking)'
<1> USE ExecutorFacts DEF TypeOK, HoldsOperation, OneHolder, MessageHeldWhileWorking,
                          ReturnNil, ReturnError, Released, Held, Reconnected, Busy
<1>1. CASE x = Poller(Worker(x))
  <2>1. x[2] # "consumer"
    BY <1>1 DEF Poller
  <2>2. UNCHANGED <<ready, acked, dead, cut>>
    <3>1. Held(x) = {}
      BY <2>1
    <3> HIDE DEF Held
    <3> QED
      BY <2>1, <3>1
  <2>3. \A v \in Workers :
          pc'[Consumer(v)] = pc[Consumer(v)] /\ cur'[Consumer(v)] = cur[Consumer(v)]
    BY <1>1
  <2> QED
    BY <2>2, <2>3
<1>2. CASE x = Consumer(Worker(x))
  <2>1. x[2] = "consumer"
    BY <1>2 DEF Consumer
  <2>2. pc'[x] = "idle"
    BY <2>1
  <2>3. \A v \in Workers \ {Worker(x)} :
          /\ pc'[Consumer(v)] = pc[Consumer(v)] /\ cur'[Consumer(v)] = cur[Consumer(v)]
          /\ v \in cut' <=> v \in cut
    BY <1>2, <2>1
  <2>4. OneHolder'
    BY <1>2, <2>2, <2>3
  <2>5. CASE Worker(x) \in cut
    <3>1. Held(x) = {}
      BY <2>5
    <3>2. UNCHANGED <<ready, acked, dead>>
      <4> HIDE DEF Held
      <4> QED
        BY <3>1
    <3> QED
      BY <1>2, <2>2, <2>3, <2>4, <3>2
  <2>6. CASE Worker(x) \notin cut
    <3>1. cur[x] \notin ready \cup acked \cup dead
      BY <1>2, <2>6
    <3>2. \A v \in Workers \ (cut \cup {Worker(x)}) :
            pc[Consumer(v)] \in Busy => cur[Consumer(v)] # cur[x]
      BY <1>2, <2>6
    <3>3. /\ ready' = ready
          /\ acked' \subseteq acked \cup {cur[x]} /\ dead' \subseteq dead \cup {cur[x]}
          /\ acked' = acked \/ dead' = dead
      BY <2>1
    <3> QED
      BY <1>2, <2>2, <2>3, <2>4, <3>1, <3>2, <3>3, SMTT(30)
  <2> QED
    BY <2>5, <2>6
<1> QED
  BY <1>1, <1>2

\* No two consumers get the message of one operation, and a message that is
\* being worked on stays unacknowledged.
LEMMA HolderStep ==
  TypeOK /\ HoldsOperation /\ OneHolder /\ MessageHeldWhileWorking /\
  [Next]_vars => (OneHolder /\ MessageHeldWhileWorking)'
<1> SUFFICES ASSUME TypeOK, HoldsOperation, OneHolder,
                    MessageHeldWhileWorking, [Next]_vars
             PROVE  (OneHolder /\ MessageHeldWhileWorking)'
  OBVIOUS
<1> USE ExecutorFacts DEF TypeOK, api, broker, exec, Status, Verdict, Place,
          Busy, Fault, HoldsOperation, OneHolder, MessageHeldWhileWorking
<1>1. ASSUME NEW w \in Workers, NEW o \in Ops, DeliverFetchFails(w, o)
      PROVE (OneHolder /\ MessageHeldWhileWorking)'
  BY <1>1 DEF DeliverFetchFails
<1>2. ASSUME NEW w \in Workers, NEW o \in Ops, DeliverSkip(w, o)
      PROVE (OneHolder /\ MessageHeldWhileWorking)'
  BY <1>2 DEF DeliverSkip
<1>3. ASSUME NEW w \in Workers, NEW o \in Ops, Deliver(w, o)
      PROVE (OneHolder /\ MessageHeldWhileWorking)'
  BY <1>3 DEF Deliver, Take
<1>4. ASSUME NEW w \in Workers, PollRecover(w)
      PROVE (OneHolder /\ MessageHeldWhileWorking)'
  BY <1>4 DEF PollRecover, Stale
<1>5. ASSUME NEW w \in Workers, PollList(w)
      PROVE (OneHolder /\ MessageHeldWhileWorking)'
  BY <1>5 DEF PollList
<1>6. ASSUME NEW w \in Workers, PollFails(w)
      PROVE (OneHolder /\ MessageHeldWhileWorking)'
  BY <1>6 DEF PollFails
<1>7. ASSUME NEW w \in Workers, PollDone(w)
      PROVE (OneHolder /\ MessageHeldWhileWorking)'
  BY <1>7 DEF PollDone
<1>8. ASSUME NEW w \in Workers, NEW o \in Ops, PollTake(w, o)
      PROVE (OneHolder /\ MessageHeldWhileWorking)'
  BY <1>8 DEF PollTake, Take
<1>9. ASSUME NEW x \in Executors, ClaimGranted(x)
      PROVE (OneHolder /\ MessageHeldWhileWorking)'
  BY <1>9 DEF ClaimGranted, RecordGrant
<1>10. ASSUME NEW x \in Executors, ClaimConflict(x)
      PROVE (OneHolder /\ MessageHeldWhileWorking)'
  BY <1>10, ReleaseKeepsHolders DEF ClaimConflict
<1>11. ASSUME NEW x \in Executors, ClaimFails(x)
      PROVE (OneHolder /\ MessageHeldWhileWorking)'
  BY <1>11, ReleaseKeepsHolders DEF ClaimFails
<1>12. ASSUME NEW x \in Executors, Renew(x)
      PROVE (OneHolder /\ MessageHeldWhileWorking)'
  BY <1>12 DEF Renew, RecordGrant
<1>13. ASSUME NEW x \in Executors, RenewFails(x)
      PROVE (OneHolder /\ MessageHeldWhileWorking)'
  BY <1>13 DEF RenewFails, RecordGrant
<1>14. ASSUME NEW x \in Executors, ExecuteRetry(x)
      PROVE (OneHolder /\ MessageHeldWhileWorking)'
  BY <1>14 DEF ExecuteRetry
<1>15. ASSUME NEW x \in Executors, NEW v \in Verdict, ExecuteEnds(x, v)
      PROVE (OneHolder /\ MessageHeldWhileWorking)'
  BY <1>15 DEF ExecuteEnds
<1>16. ASSUME NEW x \in Executors, ExecuteAbandoned(x)
      PROVE (OneHolder /\ MessageHeldWhileWorking)'
  BY <1>16, ReleaseKeepsHolders DEF ExecuteAbandoned
<1>17. ASSUME NEW x \in Executors, FinishAccepted(x)
      PROVE (OneHolder /\ MessageHeldWhileWorking)'
  BY <1>17, ReleaseKeepsHolders DEF FinishAccepted
<1>18. ASSUME NEW x \in Executors, FinishConflict(x)
      PROVE (OneHolder /\ MessageHeldWhileWorking)'
  BY <1>18, ReleaseKeepsHolders DEF FinishConflict
<1>19. ASSUME NEW x \in Executors, FinishFails(x)
      PROVE (OneHolder /\ MessageHeldWhileWorking)'
  BY <1>19, ReleaseKeepsHolders DEF FinishFails
<1>20. ASSUME NEW w \in Workers, CurateList(w)
      PROVE (OneHolder /\ MessageHeldWhileWorking)'
  BY <1>20 DEF CurateList
<1>21. ASSUME NEW w \in Workers, NEW o \in Ops, NEW v \in Verdict, CurateSettle(w, o, v)
      PROVE (OneHolder /\ MessageHeldWhileWorking)'
  BY <1>21 DEF CurateSettle, RecordVerdict, ApiTakesVerdict
<1>22. ASSUME NEW w \in Workers, NEW o \in Ops, CurateLeave(w, o)
      PROVE (OneHolder /\ MessageHeldWhileWorking)'
  BY <1>22 DEF CurateLeave
<1>23. ASSUME NEW o \in Ops, LeaseExpires(o)
      PROVE (OneHolder /\ MessageHeldWhileWorking)'
  BY <1>23 DEF LeaseExpires
<1>24. ASSUME NEW w \in Workers, Restart(w)
      PROVE (OneHolder /\ MessageHeldWhileWorking)'
  BY <1>24 DEF Restart, Unacked, Held, Reset
<1>25. ASSUME NEW w \in Workers, ConnectionLost(w)
      PROVE (OneHolder /\ MessageHeldWhileWorking)'
  BY <1>25 DEF ConnectionLost
<1>26. ASSUME UNCHANGED vars PROVE (OneHolder /\ MessageHeldWhileWorking)'
  BY <1>26 DEF vars
<1> QED
  BY <1>1, <1>2, <1>3, <1>4, <1>5, <1>6, <1>7, <1>8, <1>9, <1>10, <1>11,
     <1>12, <1>13, <1>14, <1>15, <1>16, <1>17, <1>18, <1>19, <1>20, <1>21,
     <1>22, <1>23, <1>24, <1>25, <1>26
  DEF Next, Consume, Poll, Process, Curate, Environment

-----------------------------------------------------------------------------
(* Most steps write no operation record and start no execution.            *)

\* Steps that write the API's records or the history of verdicts.
Writes ==
  \/ \E w \in Workers : PollRecover(w) \/ \E o \in Ops, v \in Verdict : CurateSettle(w, o, v)
  \/ \E x \in Executors :
       \/ ClaimGranted(x) \/ ClaimFails(x) \/ Renew(x) \/ RenewFails(x)
       \/ FinishAccepted(x) \/ FinishFails(x) \/ \E v \in Verdict : ExecuteEnds(x, v)
  \/ \E o \in Ops : LeaseExpires(o)

\* Other steps that acknowledge a message.
Acks ==
  \/ \E w \in Workers, o \in Ops : DeliverSkip(w, o)
  \/ \E x \in Executors : ClaimConflict(x) \/ FinishConflict(x)

\* Nothing is written and nothing begins to execute.
Calm ==
  /\ UNCHANGED <<api, evidence>>
  /\ \A x \in Executors, o \in Ops : Executing(x, o)' => Executing(x, o) /\ term'[x] = term[x]

\* Every step writes, acknowledges or is calm.
LEMMA AckFrame ==
  TypeOK /\ [Next]_vars => Writes \/ Acks \/ (Calm /\ acked' = acked)
<1> SUFFICES ASSUME TypeOK, [Next]_vars, ~Writes, ~Acks PROVE Calm /\ acked' = acked
  OBVIOUS
<1> USE ExecutorFacts DEF TypeOK, Calm, Executing, api, broker, exec, Busy
<1>1. ASSUME NEW w \in Workers, NEW o \in Ops, DeliverFetchFails(w, o) \/ Deliver(w, o)
      PROVE Calm /\ acked' = acked
  BY <1>1 DEF DeliverFetchFails, Deliver, Take
<1>2. ASSUME NEW w \in Workers, PollList(w) \/ PollFails(w) \/ PollDone(w)
      PROVE Calm /\ acked' = acked
  BY <1>2 DEF PollList, PollFails, PollDone
<1>3. ASSUME NEW w \in Workers, NEW o \in Ops, PollTake(w, o)
      PROVE Calm /\ acked' = acked
  BY <1>3 DEF PollTake, Take
<1>4. ASSUME NEW x \in Executors, ExecuteRetry(x) PROVE Calm /\ acked' = acked
  BY <1>4 DEF ExecuteRetry
<1>5. ASSUME NEW x \in Executors, ExecuteAbandoned(x) PROVE Calm /\ acked' = acked
  BY <1>5 DEF ExecuteAbandoned, ReturnError, Released
<1>6. ASSUME NEW w \in Workers, CurateList(w) PROVE Calm /\ acked' = acked
  BY <1>6 DEF CurateList
<1>7. ASSUME NEW w \in Workers, NEW o \in Ops, CurateLeave(w, o) PROVE Calm /\ acked' = acked
  BY <1>7 DEF CurateLeave
<1>8. ASSUME NEW w \in Workers, Restart(w) PROVE Calm /\ acked' = acked
  BY <1>8 DEF Restart, Reset
<1>9. CASE (\E w \in Workers : ConnectionLost(w)) \/ UNCHANGED vars
  BY <1>9 DEF ConnectionLost, vars
<1> QED
  BY <1>1, <1>2, <1>3, <1>4, <1>5, <1>6, <1>7, <1>8, <1>9
  DEF Writes, Acks, Next, Consume, Poll, Process, Curate, Environment

\* An acknowledgement without a write is calm too.
LEMMA Frame == TypeOK /\ [Next]_vars => Writes \/ Calm
<1> SUFFICES ASSUME TypeOK, Acks PROVE Calm
  BY AckFrame
<1> QED
  BY ExecutorFacts
  DEF Acks, Calm, TypeOK, Executing, DeliverSkip, ClaimConflict, FinishConflict,
      ReturnNil, Released, api, exec

\* An execution's grant stays the current one until recovery, which alone
\* takes the claim from its worker, starts a new epoch.
LEMMA GrantStep ==
  TypeOK /\ HoldsOperation /\ GrantKnown /\ [Next]_vars => GrantKnown'
<1> SUFFICES ASSUME TypeOK, HoldsOperation, GrantKnown, [Next]_vars
             PROVE  GrantKnown'
  OBVIOUS
<1> USE ExecutorFacts DEF TypeOK, api, broker, exec, Status, Verdict, Place,
          Busy, Fault, HoldsOperation, GrantKnown, Executing, ApiGrants
<1>1. ASSUME Calm PROVE GrantKnown'
  BY <1>1 DEF Calm
<1>2. ASSUME NEW w \in Workers, PollRecover(w) PROVE GrantKnown'
  BY <1>2 DEF PollRecover, Stale
<1>3. ASSUME NEW x \in Executors, ClaimGranted(x) PROVE GrantKnown'
  BY <1>3 DEF ClaimGranted, RecordGrant
<1>4. ASSUME NEW x \in Executors, ClaimFails(x) PROVE GrantKnown'
  BY <1>4 DEF ClaimFails, RecordGrant, ReturnError, Released, Held, Reconnected
<1>5. ASSUME NEW x \in Executors, Renew(x) PROVE GrantKnown'
  BY <1>5 DEF Renew, RecordGrant
<1>6. ASSUME NEW x \in Executors, RenewFails(x) PROVE GrantKnown'
  BY <1>6 DEF RenewFails, RecordGrant
<1>7. ASSUME NEW x \in Executors, NEW v \in Verdict, ExecuteEnds(x, v)
      PROVE GrantKnown'
  BY <1>7 DEF ExecuteEnds
<1>8. ASSUME NEW x \in Executors, FinishAccepted(x) PROVE GrantKnown'
  BY <1>8 DEF FinishAccepted, RecordVerdict, ReturnNil, Released, Held, Reconnected
<1>9. ASSUME NEW x \in Executors, FinishFails(x) PROVE GrantKnown'
  BY <1>9 DEF FinishFails, RecordVerdict, ReturnError, Released, Held, Reconnected
<1>10. ASSUME NEW w \in Workers, NEW o \in Ops, NEW v \in Verdict, CurateSettle(w, o, v)
      PROVE GrantKnown'
  BY <1>10 DEF CurateSettle, RecordVerdict, ApiTakesVerdict
<1>11. ASSUME NEW o \in Ops, LeaseExpires(o) PROVE GrantKnown'
  BY <1>11 DEF LeaseExpires
<1> HIDE DEF TypeOK, HoldsOperation, GrantKnown, Executing, ApiGrants, Fault
<1> QED
  BY <1>1, <1>2, <1>3, <1>4, <1>5, <1>6, <1>7, <1>8, <1>9, <1>10, <1>11, Frame
  DEF Writes

\* A new execution is granted to the worker that already has the current
\* grant, or under a grant nobody else executes under.
LEMMA SameGrantStep ==
  TypeOK /\ HoldsOperation /\ GrantKnown /\ SameGrantSameWorker /\ [Next]_vars => SameGrantSameWorker'
<1> SUFFICES ASSUME TypeOK, HoldsOperation, GrantKnown, SameGrantSameWorker,
                    [Next]_vars
             PROVE  SameGrantSameWorker'
  OBVIOUS
<1> USE ExecutorFacts DEF TypeOK, api, broker, exec, Status, Verdict, Place,
          Busy, Fault, HoldsOperation, GrantKnown, SameGrantSameWorker,
          Executing, ApiGrants
<1>1. ASSUME Calm PROVE SameGrantSameWorker'
  BY <1>1 DEF Calm
<1>2. ASSUME NEW w \in Workers, PollRecover(w) PROVE SameGrantSameWorker'
  BY <1>2 DEF PollRecover, Stale
<1>3. ASSUME NEW x \in Executors, ClaimGranted(x) PROVE SameGrantSameWorker'
  BY <1>3 DEF ClaimGranted, RecordGrant
<1>4. ASSUME NEW x \in Executors, ClaimFails(x) PROVE SameGrantSameWorker'
  BY <1>4 DEF ClaimFails, RecordGrant, ReturnError, Released, Held, Reconnected
<1>5. ASSUME NEW x \in Executors, Renew(x) PROVE SameGrantSameWorker'
  BY <1>5 DEF Renew, RecordGrant
<1>6. ASSUME NEW x \in Executors, RenewFails(x) PROVE SameGrantSameWorker'
  BY <1>6 DEF RenewFails, RecordGrant
<1>7. ASSUME NEW x \in Executors, NEW v \in Verdict, ExecuteEnds(x, v)
      PROVE SameGrantSameWorker'
  BY <1>7 DEF ExecuteEnds
<1>8. ASSUME NEW x \in Executors, FinishAccepted(x) PROVE SameGrantSameWorker'
  BY <1>8 DEF FinishAccepted, RecordVerdict, ReturnNil, Released, Held, Reconnected
<1>9. ASSUME NEW x \in Executors, FinishFails(x) PROVE SameGrantSameWorker'
  BY <1>9 DEF FinishFails, RecordVerdict, ReturnError, Released, Held, Reconnected
<1>10. ASSUME NEW w \in Workers, NEW o \in Ops, NEW v \in Verdict, CurateSettle(w, o, v)
      PROVE SameGrantSameWorker'
  BY <1>10 DEF CurateSettle, RecordVerdict, ApiTakesVerdict
<1>11. ASSUME NEW o \in Ops, LeaseExpires(o) PROVE SameGrantSameWorker'
  BY <1>11 DEF LeaseExpires
<1> QED
  BY <1>1, <1>2, <1>3, <1>4, <1>5, <1>6, <1>7, <1>8, <1>9, <1>10, <1>11, Frame
  DEF Writes

\* A message is acknowledged after a conflict, which somebody's claim caused,
\* or after a verdict.
LEMMA AckedStep ==
  TypeOK /\ HoldsOperation /\ GrantKnown /\ AckedOnlyAfterClaim /\ [Next]_vars => AckedOnlyAfterClaim'
<1> SUFFICES ASSUME TypeOK, HoldsOperation, GrantKnown, AckedOnlyAfterClaim,
                    [Next]_vars
             PROVE  AckedOnlyAfterClaim'
  OBVIOUS
<1> USE ExecutorFacts DEF TypeOK, api, broker, exec, Status, Verdict, Place,
          Busy, Fault, HoldsOperation, GrantKnown, AckedOnlyAfterClaim,
          Executing, ApiGrants
<1>1. ASSUME Calm, acked' = acked PROVE AckedOnlyAfterClaim'
  BY <1>1 DEF Calm
<1>2. ASSUME NEW w \in Workers, NEW o \in Ops, DeliverSkip(w, o)
      PROVE AckedOnlyAfterClaim'
  BY <1>2 DEF DeliverSkip
<1>3. ASSUME NEW w \in Workers, PollRecover(w) PROVE AckedOnlyAfterClaim'
  BY <1>3 DEF PollRecover, Stale
<1>4. ASSUME NEW x \in Executors, ClaimGranted(x) PROVE AckedOnlyAfterClaim'
  BY <1>4 DEF ClaimGranted, RecordGrant
<1>5. ASSUME NEW x \in Executors, ClaimConflict(x) PROVE AckedOnlyAfterClaim'
  BY <1>5 DEF ClaimConflict, ReturnNil, Released, Held, Reconnected
<1>6. ASSUME NEW x \in Executors, ClaimFails(x) PROVE AckedOnlyAfterClaim'
  BY <1>6 DEF ClaimFails, RecordGrant, ReturnError, Released, Held, Reconnected
<1>7. ASSUME NEW x \in Executors, Renew(x) PROVE AckedOnlyAfterClaim'
  BY <1>7 DEF Renew, RecordGrant
<1>8. ASSUME NEW x \in Executors, RenewFails(x) PROVE AckedOnlyAfterClaim'
  BY <1>8 DEF RenewFails, RecordGrant
<1>9. ASSUME NEW x \in Executors, NEW v \in Verdict, ExecuteEnds(x, v)
      PROVE AckedOnlyAfterClaim'
  BY <1>9 DEF ExecuteEnds
<1>10. ASSUME NEW x \in Executors, FinishAccepted(x) PROVE AckedOnlyAfterClaim'
  BY <1>10 DEF FinishAccepted, RecordVerdict, ReturnNil, Released, Held, Reconnected
<1>11. ASSUME NEW x \in Executors, FinishConflict(x) PROVE AckedOnlyAfterClaim'
  BY <1>11 DEF FinishConflict, ReturnNil, Released, Held, Reconnected
<1>12. ASSUME NEW x \in Executors, FinishFails(x) PROVE AckedOnlyAfterClaim'
  BY <1>12 DEF FinishFails, RecordVerdict, ReturnError, Released, Held, Reconnected
<1>13. ASSUME NEW w \in Workers, NEW o \in Ops, NEW v \in Verdict, CurateSettle(w, o, v)
      PROVE AckedOnlyAfterClaim'
  BY <1>13 DEF CurateSettle, RecordVerdict, ApiTakesVerdict
<1>14. ASSUME NEW o \in Ops, LeaseExpires(o) PROVE AckedOnlyAfterClaim'
  BY <1>14 DEF LeaseExpires
<1> QED
  BY <1>1, <1>2, <1>3, <1>4, <1>5, <1>6, <1>7, <1>8, <1>9, <1>10, <1>11,
     <1>12, <1>13, <1>14, AckFrame
  DEF Writes, Acks

\* Verdicts are published with their evidence; evidence is never withdrawn.
LEMMA EvidenceStep ==
  TypeOK /\ HoldsOperation /\ CuratesItsOwn /\ VerdictHasEvidence /\
  [Next]_vars => VerdictHasEvidence'
<1> SUFFICES ASSUME TypeOK, HoldsOperation, CuratesItsOwn, VerdictHasEvidence,
                    [Next]_vars
             PROVE  VerdictHasEvidence'
  OBVIOUS
<1> USE ExecutorFacts DEF TypeOK, api, broker, exec, Status, Verdict, Place,
          Busy, Fault, HoldsOperation, CuratesItsOwn, VerdictHasEvidence
<1>1. ASSUME Calm PROVE VerdictHasEvidence'
  BY <1>1 DEF Calm
<1>2. ASSUME NEW w \in Workers, PollRecover(w) PROVE VerdictHasEvidence'
  BY <1>2 DEF PollRecover, Stale
<1>3. ASSUME NEW x \in Executors, ClaimGranted(x) PROVE VerdictHasEvidence'
  BY <1>3 DEF ClaimGranted, RecordGrant
<1>4. ASSUME NEW x \in Executors, ClaimFails(x) PROVE VerdictHasEvidence'
  BY <1>4 DEF ClaimFails, RecordGrant, ReturnError, Released, Held, Reconnected
<1>5. ASSUME NEW x \in Executors, Renew(x) PROVE VerdictHasEvidence'
  BY <1>5 DEF Renew, RecordGrant
<1>6. ASSUME NEW x \in Executors, RenewFails(x) PROVE VerdictHasEvidence'
  BY <1>6 DEF RenewFails, RecordGrant
<1>7. ASSUME NEW x \in Executors, NEW v \in Verdict, ExecuteEnds(x, v)
      PROVE VerdictHasEvidence'
  BY <1>7 DEF ExecuteEnds
<1>8. ASSUME NEW x \in Executors, FinishAccepted(x) PROVE VerdictHasEvidence'
  BY <1>8 DEF FinishAccepted, RecordVerdict, ReturnNil, Released, Held, Reconnected
<1>9. ASSUME NEW x \in Executors, FinishFails(x) PROVE VerdictHasEvidence'
  BY <1>9 DEF FinishFails, RecordVerdict, ReturnError, Released, Held, Reconnected
<1>10. ASSUME NEW w \in Workers, NEW o \in Ops, NEW v \in Verdict, CurateSettle(w, o, v)
      PROVE VerdictHasEvidence'
  BY <1>10 DEF CurateSettle, RecordVerdict, ApiTakesVerdict
<1>11. ASSUME NEW o \in Ops, LeaseExpires(o) PROVE VerdictHasEvidence'
  BY <1>11 DEF LeaseExpires
<1> QED
  BY <1>1, <1>2, <1>3, <1>4, <1>5, <1>6, <1>7, <1>8, <1>9, <1>10, <1>11, Frame
  DEF Writes

-----------------------------------------------------------------------------
(* The theorems.                                                           *)

\* Nothing is held, acknowledged or settled initially.
LEMMA InitIInv == Init => IInv
<1> SUFFICES ASSUME Init PROVE IInv
  OBVIOUS
<1> USE DEF Init
<1>1. TypeOK
  <2>1. 1 \in 1..MaxAttempts /\ 0 \in 0..MaxFaults
    OBVIOUS
  <2>2. attempt \in [Executors -> 1..MaxAttempts] /\ faults \in 0..MaxFaults
    BY <2>1
  <2>3. /\ status \in [Ops -> Status] /\ owner \in [Ops -> Workers \cup {NoWorker}]
        /\ live \in [Ops -> BOOLEAN] /\ epoch \in [Ops -> Nat]
        /\ evidence \in [Ops -> SUBSET Verdict]
    BY DEF Status
  <2>4. /\ pc \in [Executors -> Place] /\ cur \in [Executors -> Ops \cup {NoOp}]
        /\ lost \in [Executors -> BOOLEAN] /\ verdict \in [Executors -> Verdict]
        /\ term \in [Executors -> Nat]
    BY DEF Place, Verdict
  <2>5. batch \in [Workers -> SUBSET Ops] /\ curating \in [Workers -> SUBSET Ops]
    OBVIOUS
  <2> QED
    BY <2>2, <2>3, <2>4, <2>5 DEF TypeOK
<1>2. \A x \in Executors : pc[x] \notin Busy
  BY DEF Busy
<1>3. HoldsOperation /\ CuratesItsOwn /\ OneHolder /\ MessageHeldWhileWorking
  BY <1>2, ExecutorFacts
  DEF HoldsOperation, CuratesItsOwn, OneHolder, MessageHeldWhileWorking, Busy
<1>4. GrantKnown /\ SameGrantSameWorker
  BY <1>2 DEF GrantKnown, SameGrantSameWorker, Executing, Busy
<1>5. AckedOnlyAfterClaim /\ VerdictHasEvidence
  BY DEF AckedOnlyAfterClaim, VerdictHasEvidence, Verdict
<1> QED
  BY <1>1, <1>3, <1>4, <1>5 DEF IInv

\* IInv is inductive.
LEMMA NextIInv == IInv /\ [Next]_vars => IInv'
BY TypeStep, HoldsStep, CuratesStep, HolderStep, GrantStep, SameGrantStep, AckedStep,
   EvidenceStep
DEF IInv

\* The inductive invariant holds in every reachable state.
THEOREM Inductive == Spec => []IInv
BY InitIInv, NextIInv, PTL DEF Spec

\* Every variable keeps its type: in particular no execution is attempted
\* more than MaxAttempts times (executeWithRetry).
THEOREM TypeCorrect == Spec => []TypeOK
<1>1. IInv => TypeOK
  BY DEF IInv
<1> QED
  BY <1>1, Inductive, PTL

\* Mutual exclusion between workers: executions under one grant of the API are
\* all of one worker (processOperation, executeWithLeaseHeartbeat).
THEOREM GrantExclusion == Spec => []SameGrantSameWorker
<1>1. IInv => SameGrantSameWorker
  BY DEF IInv
<1> QED
  BY <1>1, Inductive, PTL

\* A message is acknowledged only once its operation has been claimed.
THEOREM NoSilentAck == Spec => []AckedOnlyAfterClaim
<1>1. IInv => AckedOnlyAfterClaim
  BY DEF IInv
<1> QED
  BY <1>1, Inductive, PTL

\* The broker keeps the message of an operation a consumer works on.
THEOREM MessageHeld == Spec => []MessageHeldWhileWorking
<1>1. IInv => MessageHeldWhileWorking
  BY DEF IInv
<1> QED
  BY <1>1, Inductive, PTL

\* A recorded verdict is one an execution gave, or the API's own.
THEOREM VerdictSound == Spec => []VerdictHasEvidence
<1>1. IInv => VerdictHasEvidence
  BY DEF IInv
<1> QED
  BY <1>1, Inductive, PTL

\* A claim that is still live is settled only by a goroutine that does not
\* know it lost (ErrOperationLeaseLost in processOperation).
THEOREM LostClaimSilence == Spec => LostClaimIsSilent
<1> DEFINE Silent(o) ==
      status[o] = "in-progress" /\ status'[o] \in Verdict =>
        ~live[o] \/ \E x \in Executors : cur[x] = o /\ pc[x] = "finishing" /\ ~lost[x]
<1>1. ASSUME IInv, [Next]_vars, NEW o \in Ops \ Curated PROVE Silent(o)
  <2> USE <1>1 DEF IInv, TypeOK, HoldsOperation, CuratesItsOwn, api, Verdict, Busy
  <2>1. CASE Calm
    BY <2>1 DEF Calm
  <2>2. ASSUME NEW w \in Workers, PollRecover(w) PROVE Silent(o)
    BY <2>2 DEF PollRecover, Stale
  <2>3. ASSUME NEW w \in Workers, NEW p \in Ops, NEW v \in Verdict, CurateSettle(w, p, v)
        PROVE  Silent(o)
    BY <2>3 DEF CurateSettle, RecordVerdict
  <2>4. ASSUME NEW x \in Executors,
               ClaimGranted(x) \/ ClaimFails(x) \/ Renew(x) \/ RenewFails(x)
        PROVE  Silent(o)
    BY <2>4 DEF ClaimGranted, ClaimFails, Renew, RenewFails, RecordGrant
  <2>5. ASSUME NEW x \in Executors, FinishAccepted(x) \/ FinishFails(x) PROVE Silent(o)
    BY <2>5 DEF FinishAccepted, FinishFails, RecordVerdict
  <2>6. ASSUME NEW x \in Executors, NEW v \in Verdict, ExecuteEnds(x, v) PROVE Silent(o)
    BY <2>6 DEF ExecuteEnds
  <2>7. ASSUME NEW p \in Ops, LeaseExpires(p) PROVE Silent(o)
    BY <2>7 DEF LeaseExpires
  <2> HIDE DEF Silent
  <2> QED
    BY <2>1, <2>2, <2>3, <2>4, <2>5, <2>6, <2>7, Frame DEF Writes
<1>2. IInv /\ [Next]_vars => [\A o \in Ops \ Curated : Silent(o)]_vars
  BY <1>1
<1> QED
  BY <1>2, Inductive, PTL DEF Spec, LostClaimIsSilent

-----------------------------------------------------------------------------
(* The workers implement OperationContract.                                *)

LEMMA ContractInit == Init => Contract!Init
BY DEF Init, Contract!Init

\* Granting a claim is a claim of the contract, or changes nothing of it.
LEMMA GrantRefines ==
  ASSUME TypeOK, NEW o \in Ops, NEW w \in Workers, ApiGrants(o, w), RecordGrant(o, w),
         evidence' = evidence
  PROVE  [Contract!Next]_(Contract!vars)
<1>1. CASE status[o] = "queued"
  BY <1>1 DEF RecordGrant, Contract!Next, Contract!Claim
<1>2. CASE status[o] = "in-progress"
  BY <1>2 DEF TypeOK, RecordGrant, Contract!vars
<1> QED
  BY <1>1, <1>2 DEF ApiGrants

\* Recording a verdict that has evidence, or that the curator may give, settles.
LEMMA VerdictRefines ==
  ASSUME TypeOK, NEW o \in Ops, NEW w \in Workers, NEW v \in Verdict,
         ApiTakesVerdict(o, w), RecordVerdict(o, v), evidence' = evidence,
         v \in evidence[o] \/ o \in Curated
  PROVE  [Contract!Next]_(Contract!vars)
BY DEF ApiTakesVerdict, RecordVerdict, Verdict,
       Contract!Next, Contract!Settle, Contract!Verdict

LEMMA StepRefines == IInv /\ [Next]_vars => [Contract!Next]_(Contract!vars)
<1> SUFFICES ASSUME IInv, [Next]_vars PROVE [Contract!Next]_(Contract!vars)
  OBVIOUS
<1> USE ExecutorFacts DEF IInv, api
<1>1. CASE Calm
  BY <1>1 DEF Calm, Contract!vars
<1>2. ASSUME NEW w \in Workers, PollRecover(w) PROVE Contract!Next
  <2>1. PICK writtenOff \in SUBSET Stale : Contract!Recover(Stale, writtenOff)
    BY <1>2 DEF PollRecover, Stale, Contract!Recover
  <2> QED
    BY <2>1 DEF Stale, Contract!Next
<1>3. ASSUME NEW w \in Workers, NEW o \in Ops, NEW v \in Verdict, CurateSettle(w, o, v)
      PROVE  [Contract!Next]_(Contract!vars)
  <2>1. o \in Curated /\ evidence' = evidence
    BY <1>3 DEF CurateSettle, CuratesItsOwn
  <2>2. CASE UNCHANGED api
    BY <2>1, <2>2 DEF Contract!vars
  <2> QED
    BY <1>3, <2>1, <2>2, VerdictRefines DEF CurateSettle
<1>4. ASSUME NEW x \in Executors,
             ClaimGranted(x) \/ ClaimFails(x) \/ Renew(x) \/ RenewFails(x)
      PROVE  [Contract!Next]_(Contract!vars)
  <2>1. cur[x] \in Ops /\ Worker(x) \in Workers /\ evidence' = evidence
    BY <1>4 DEF HoldsOperation, Busy, ClaimGranted, ClaimFails, Renew, RenewFails
  <2>2. CASE UNCHANGED api
    BY <2>1, <2>2 DEF Contract!vars
  <2>3. CASE ApiGrants(cur[x], Worker(x)) /\ RecordGrant(cur[x], Worker(x))
    BY <2>1, <2>3, GrantRefines
  <2> QED
    BY <1>4, <2>2, <2>3 DEF ClaimGranted, ClaimFails, Renew, RenewFails
<1>5. ASSUME NEW x \in Executors, FinishAccepted(x) \/ FinishFails(x)
      PROVE  [Contract!Next]_(Contract!vars)
  <2>1. /\ cur[x] \in Ops /\ Worker(x) \in Workers /\ evidence' = evidence
        /\ verdict[x] \in Verdict /\ verdict[x] \in evidence[cur[x]]
    BY <1>5 DEF HoldsOperation, TypeOK, Busy, FinishAccepted, FinishFails
  <2>2. CASE UNCHANGED api
    BY <2>1, <2>2 DEF Contract!vars
  <2>3. CASE ApiTakesVerdict(cur[x], Worker(x)) /\ RecordVerdict(cur[x], verdict[x])
    BY <2>1, <2>3, VerdictRefines
  <2> QED
    BY <1>5, <2>2, <2>3 DEF FinishAccepted, FinishFails
<1>6. ASSUME NEW x \in Executors, NEW v \in Verdict, ExecuteEnds(x, v)
      PROVE  [Contract!Next]_(Contract!vars)
  <2>1. cur[x] \in Ops
    BY <1>6 DEF HoldsOperation, Busy, ExecuteEnds
  <2> QED
    BY <1>6, <2>1 DEF ExecuteEnds, Verdict, Contract!Next, Contract!Conclude, Contract!Verdict
<1>7. ASSUME NEW o \in Ops, LeaseExpires(o) PROVE [Contract!Next]_(Contract!vars)
  BY <1>7 DEF LeaseExpires, Contract!vars
<1> QED
  BY <1>1, <1>2, <1>3, <1>4, <1>5, <1>6, <1>7, Frame DEF Writes

\* Seen through the operation records alone, the pool of workers behaves as
\* the operation contract allows: a verdict is final, comes from "in-progress"
\* and has evidence, whatever fails in between (models/operation_contract.go).
THEOREM ImplementsContract == Spec => ContractSpec
BY ContractInit, StepRefines, Inductive, PTL DEF Spec, ContractSpec, Contract!Spec
=============================================================================
