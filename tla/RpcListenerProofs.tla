------------------------- MODULE RpcListenerProofs -------------------------
(***************************************************************************)
(* Safety of RpcListener for every number of services, slots, messages,    *)
(* retries and incidents: type correctness, no message lost, the retry     *)
(* budget, the dead-letter queue, exactly-once without faults, the         *)
(* implementation of AtLeastOnce, and that no message with a JSON body     *)
(* circles.                                                                *)
(***************************************************************************)
EXTENDS RpcListener, FiniteSetTheorems, TLAPS

(* A message has one live delivery, and the broker holds it as unacked. *)
LiveUnique ==
  \A t1, t2 \in Tasks : live[t1] /\ live[t2] /\ msg[t1] = msg[t2] => t1 = t2

LiveUnacked == \A t \in Tasks : live[t] => place[msg[t]] = "unacked"

(* A coroutine that still runs was started by a published message. *)
BusyPublished == \A t \in Tasks : pc[t] # "idle" => place[msg[t]] # "new"

DeliveryInv == TypeOK /\ LiveUnique /\ LiveUnacked /\ BusyPublished

(* Before its ack a coroutine has seen the message handled or dead-lettered. *)
AckEarned ==
  \A t \in Tasks : pc[t] = "ack" => handled[msg[t]] + dlq[msg[t]] >= 1

(* A coroutine publishes to the dead-letter queue only for a reason. *)
DlqDue ==
  \A t \in Tasks :
    /\ pc[t] = "to_dlq" => deaths[msg[t]] = MaxRetries
    /\ pc[t] = "reject" => msg[t] \in Invalid

(* One run of the current delivery is not yet paid for by a death. *)
Credit(m) == IF place[m] \in {"unacked", "gone"} /\ deaths[m] < MaxRetries THEN 1 ELSE 0

BudgetInv == \A m \in Msgs : started[m] <= deaths[m] + faults[m] + Credit(m)

(* Coroutines, of lost channels too, that may still handle or dead-letter m. *)
Undecided(m) == {t \in Tasks : msg[t] = m /\ pc[t] \in {"process", "to_dlq", "reject"}}

Nacking(m) == \E t \in Tasks : msg[t] = m /\ live[t] /\ pc[t] = "nack"

(* The current delivery of m may settle it without a fault. *)
Chance(m) ==
  IF place[m] = "gone" \/ (place[m] = "unacked" /\ ~Nacking(m)) THEN 1 ELSE 0

SettledOnce(m) ==
  handled[m] + dlq[m] + Cardinality(Undecided(m)) <= faults[m] + Chance(m)

RepeatInv == \A m \in Msgs : SettledOnce(m)

----------------------------------------------------------------------------
(* A task that is not idle holds a message of Msgs. *)
LEMMA BusyHoldsMessage ==
  ASSUME TypeOK, NEW t \in Tasks, pc[t] # "idle"
  PROVE  msg[t] \in Msgs
BY MessageAssumption DEF TypeOK

LEMMA BumpType ==
  ASSUME NEW d \in 0..MaxRetries
  PROVE  Bump(d) \in 0..MaxRetries
BY SizeAssumption DEF Bump

(* Every step keeps the types. *)
LEMMA TypeStep == TypeOK /\ [Next]_vars => TypeOK'
<1> SUFFICES ASSUME TypeOK, [Next]_vars PROVE TypeOK'
  OBVIOUS
<1> USE SizeAssumption, MessageAssumption DEF TypeOK, Places, Steps, history, taskVars, brokerVars
<1>1. ASSUME NEW m \in Msgs, Publish(m) PROVE TypeOK'
  BY <1>1 DEF Publish
<1>2. ASSUME NEW t \in Tasks, NEW m \in Msgs, Deliver(t, m) PROVE TypeOK'
  BY <1>2 DEF Deliver, FirstStep
<1>3. ASSUME NEW t \in Tasks, HandlerDone(t) PROVE TypeOK'
  BY <1>3, BusyHoldsMessage DEF HandlerDone, Goto
<1>4. ASSUME NEW t \in Tasks, HandlerFails(t) PROVE TypeOK'
  BY <1>4 DEF HandlerFails, Goto
<1>5. ASSUME NEW t \in Tasks, HandlerRejects(t) PROVE TypeOK'
  BY <1>5 DEF HandlerRejects, Goto
<1>6. ASSUME NEW t \in Tasks, MoveToDlq(t) PROVE TypeOK'
  BY <1>6, BusyHoldsMessage DEF MoveToDlq, Goto
<1>7. ASSUME NEW t \in Tasks, MoveToDlqFails(t) PROVE TypeOK'
  <2>1. /\ msg[t] \in Msgs
        /\ dlq' \in [Msgs -> Nat]
        /\ faults' \in [Msgs -> Nat]
        /\ incidents' \in 0..MaxIncidents
    BY <1>7, BusyHoldsMessage DEF MoveToDlqFails
  <2>2. CASE pc[t] = "to_dlq" /\ Goto(t, "nack")
    BY <1>7, <2>1, <2>2 DEF MoveToDlqFails, Goto
  <2>3. CASE pc[t] = "reject" /\ live[t] /\ Goto(t, "escaped")
    BY <1>7, <2>1, <2>3 DEF MoveToDlqFails, Goto
  <2>4. CASE pc[t] = "reject" /\ ~live[t] /\ EndTask(t)
    BY <1>7, <2>1, <2>4 DEF MoveToDlqFails, EndTask
  <2>5. QED
    BY <1>7, <2>2, <2>3, <2>4 DEF MoveToDlqFails
<1>8. ASSUME NEW t \in Tasks, Ack(t) PROVE TypeOK'
  BY <1>8, BusyHoldsMessage DEF Ack, EndTask
<1>9. ASSUME NEW t \in Tasks, Nack(t) PROVE TypeOK'
  BY <1>9, BusyHoldsMessage, BumpType DEF Nack, EndTask
<1>10. ASSUME NEW m \in Msgs, RetryExpires(m) PROVE TypeOK'
  BY <1>10 DEF RetryExpires
<1>11. ASSUME NEW s \in Services, ConnectionLost(s) PROVE TypeOK'
  <2>1. place' \in [Msgs -> Places] /\ faults' \in [Msgs -> Nat]
    BY <1>11 DEF ConnectionLost, RequeueUnacked
  <2>2. incidents' \in 0..MaxIncidents
    BY <1>11 DEF ConnectionLost, RequeueUnacked
  <2>3. live' \in [Tasks -> BOOLEAN]
    BY <1>11, Zenon DEF ConnectionLost
  <2>4. pc' \in [Tasks -> Steps] /\ msg' \in [Tasks -> Msgs \cup {NoMsg}]
    BY <1>11 DEF ConnectionLost
  <2>5. \A t \in Tasks : pc'[t] = "idle" <=> msg'[t] = NoMsg
    BY <1>11 DEF ConnectionLost
  <2>6. \A t \in Tasks : live'[t] => pc'[t] # "idle"
    BY <1>11 DEF ConnectionLost
  <2>7. QED
    BY <1>11, <2>1, <2>2, <2>3, <2>4, <2>5, <2>6 DEF ConnectionLost
<1>12. ASSUME NEW s \in Services, Crash(s) PROVE TypeOK'
  <2>1. place' \in [Msgs -> Places] /\ faults' \in [Msgs -> Nat]
    BY <1>12 DEF Crash, RequeueUnacked
  <2>2. incidents' \in 0..MaxIncidents
    BY <1>12 DEF Crash, RequeueUnacked
  <2>3. live' \in [Tasks -> BOOLEAN]
    BY <1>12, Zenon DEF Crash
  <2>4. pc' \in [Tasks -> Steps] /\ msg' \in [Tasks -> Msgs \cup {NoMsg}]
    BY <1>12 DEF Crash
  <2>5. \A t \in Tasks : pc'[t] = "idle" <=> msg'[t] = NoMsg
    BY <1>12 DEF Crash
  <2>6. \A t \in Tasks : live'[t] => pc'[t] # "idle"
    BY <1>12 DEF Crash
  <2>7. QED
    BY <1>12, <2>1, <2>2, <2>3, <2>4, <2>5, <2>6 DEF Crash
<1>13. CASE UNCHANGED vars
  BY <1>13 DEF vars
<1>14. QED
  BY <1>1, <1>2, <1>3, <1>4, <1>5, <1>6, <1>7, <1>8, <1>9, <1>10, <1>11, <1>12, <1>13
     DEF Next, TaskStep

(* Type correctness of every reachable state. *)
THEOREM TypeCorrect == Spec => []TypeOK
<1>1. Init => TypeOK
  BY SizeAssumption, MessageAssumption DEF Init, TypeOK, Places, Steps
<1>2. QED
  BY <1>1, TypeStep, PTL DEF Spec

----------------------------------------------------------------------------
(* The broker's deliveries: one live task per unacknowledged message. *)
LEMMA DeliveryStep == DeliveryInv /\ [Next]_vars => DeliveryInv'
<1> SUFFICES ASSUME DeliveryInv, [Next]_vars PROVE (LiveUnique /\ LiveUnacked /\ BusyPublished)'
  BY TypeStep DEF DeliveryInv
<1>0. TypeOK /\ TypeOK'
  BY TypeStep DEF DeliveryInv
<1> USE MessageAssumption, <1>0
    DEF DeliveryInv, LiveUnique, LiveUnacked, BusyPublished, TypeOK, Places, Steps,
        history, taskVars, brokerVars
<1>1. ASSUME NEW m \in Msgs, Publish(m) PROVE (LiveUnique /\ LiveUnacked /\ BusyPublished)'
  BY <1>1 DEF Publish
<1>2. ASSUME NEW t \in Tasks, NEW m \in Msgs, Deliver(t, m)
      PROVE  (LiveUnique /\ LiveUnacked /\ BusyPublished)'
  BY <1>2 DEF Deliver, FirstStep
<1>3. ASSUME NEW t \in Tasks, HandlerDone(t) PROVE (LiveUnique /\ LiveUnacked /\ BusyPublished)'
  BY <1>3 DEF HandlerDone, Goto
<1>4. ASSUME NEW t \in Tasks, HandlerFails(t) PROVE (LiveUnique /\ LiveUnacked /\ BusyPublished)'
  BY <1>4 DEF HandlerFails, Goto
<1>5. ASSUME NEW t \in Tasks, HandlerRejects(t) PROVE (LiveUnique /\ LiveUnacked /\ BusyPublished)'
  BY <1>5 DEF HandlerRejects, Goto
<1>6. ASSUME NEW t \in Tasks, MoveToDlq(t) PROVE (LiveUnique /\ LiveUnacked /\ BusyPublished)'
  BY <1>6 DEF MoveToDlq, Goto
<1>7. ASSUME NEW t \in Tasks, MoveToDlqFails(t) PROVE (LiveUnique /\ LiveUnacked /\ BusyPublished)'
  BY <1>7 DEF MoveToDlqFails, Goto, EndTask
<1>8. ASSUME NEW t \in Tasks, Ack(t) PROVE (LiveUnique /\ LiveUnacked /\ BusyPublished)'
  BY <1>8 DEF Ack, EndTask
<1>9. ASSUME NEW t \in Tasks, Nack(t) PROVE (LiveUnique /\ LiveUnacked /\ BusyPublished)'
  BY <1>9 DEF Nack, EndTask
<1>10. ASSUME NEW m \in Msgs, RetryExpires(m) PROVE (LiveUnique /\ LiveUnacked /\ BusyPublished)'
  BY <1>10 DEF RetryExpires
<1>11. ASSUME NEW s \in Services, ConnectionLost(s) PROVE (LiveUnique /\ LiveUnacked /\ BusyPublished)'
  <2>1. \A t \in Tasks : live'[t] => live[t] /\ t[1] # s /\ msg'[t] = msg[t]
    BY <1>11 DEF ConnectionLost
  <2>2. LiveUnique'
    BY <2>1
  <2>3. \A t \in Tasks : live[t] /\ t[1] # s => msg[t] \notin Unacked(s)
    BY DEF Unacked, Outstanding, TasksOf
  <2>4. \A t \in Tasks : live[t] => msg[t] \in Msgs
    BY BusyHoldsMessage
  <2>5. LiveUnacked'
    BY <1>11, <2>1, <2>3, <2>4 DEF ConnectionLost, RequeueUnacked
  <2>6. \A t \in Tasks : pc'[t] # "idle" => pc[t] # "idle" /\ msg'[t] = msg[t]
    BY <1>11 DEF ConnectionLost
  <2>7. BusyPublished'
    BY <1>11, <2>6, BusyHoldsMessage DEF ConnectionLost, RequeueUnacked
  <2>8. QED
    BY <2>2, <2>5, <2>7
<1>12. ASSUME NEW s \in Services, Crash(s) PROVE (LiveUnique /\ LiveUnacked /\ BusyPublished)'
  BY <1>12 DEF Crash, RequeueUnacked, Unacked, Outstanding, TasksOf
<1>13. CASE UNCHANGED vars
  BY <1>13 DEF vars
<1>14. QED
  BY <1>1, <1>2, <1>3, <1>4, <1>5, <1>6, <1>7, <1>8, <1>9, <1>10, <1>11, <1>12, <1>13
     DEF Next, TaskStep

(* NoLoss: an ack is earned, and nothing takes back what earned it. *)
LEMMA AckEarnedStep == TypeOK /\ AckEarned /\ NoLoss /\ [Next]_vars => (AckEarned /\ NoLoss)'
<1> SUFFICES ASSUME TypeOK, AckEarned, NoLoss, [Next]_vars PROVE (AckEarned /\ NoLoss)'
  OBVIOUS
<1> USE MessageAssumption
    DEF AckEarned, NoLoss, TypeOK, Places, Steps, history, taskVars, brokerVars
<1>1. ASSUME NEW m \in Msgs, Publish(m) PROVE (AckEarned /\ NoLoss)'
  BY <1>1 DEF Publish
<1>2. ASSUME NEW t \in Tasks, NEW m \in Msgs, Deliver(t, m) PROVE (AckEarned /\ NoLoss)'
  BY <1>2 DEF Deliver, FirstStep
<1>3. ASSUME NEW t \in Tasks, HandlerDone(t) PROVE (AckEarned /\ NoLoss)'
  BY <1>3 DEF HandlerDone, Goto
<1>4. ASSUME NEW t \in Tasks, HandlerFails(t) PROVE (AckEarned /\ NoLoss)'
  BY <1>4 DEF HandlerFails, Goto
<1>5. ASSUME NEW t \in Tasks, HandlerRejects(t) PROVE (AckEarned /\ NoLoss)'
  BY <1>5 DEF HandlerRejects, Goto
<1>6. ASSUME NEW t \in Tasks, MoveToDlq(t) PROVE (AckEarned /\ NoLoss)'
  BY <1>6 DEF MoveToDlq, Goto
<1>7. ASSUME NEW t \in Tasks, MoveToDlqFails(t) PROVE (AckEarned /\ NoLoss)'
  BY <1>7 DEF MoveToDlqFails, Goto, EndTask
<1>8. ASSUME NEW t \in Tasks, Ack(t) PROVE (AckEarned /\ NoLoss)'
  BY <1>8 DEF Ack, EndTask
<1>9. ASSUME NEW t \in Tasks, Nack(t) PROVE (AckEarned /\ NoLoss)'
  BY <1>9 DEF Nack, EndTask
<1>10. ASSUME NEW m \in Msgs, RetryExpires(m) PROVE (AckEarned /\ NoLoss)'
  BY <1>10 DEF RetryExpires
<1>11. ASSUME NEW s \in Services, ConnectionLost(s) PROVE (AckEarned /\ NoLoss)'
  BY <1>11 DEF ConnectionLost, RequeueUnacked
<1>12. ASSUME NEW s \in Services, Crash(s) PROVE (AckEarned /\ NoLoss)'
  BY <1>12 DEF Crash, RequeueUnacked
<1>13. CASE UNCHANGED vars
  BY <1>13 DEF vars
<1>14. QED
  BY <1>1, <1>2, <1>3, <1>4, <1>5, <1>6, <1>7, <1>8, <1>9, <1>10, <1>11, <1>12, <1>13
     DEF Next, TaskStep

(* No message leaves the queue group unsettled. *)
THEOREM NoMessageLost == Spec => []NoLoss
<1>1. Init => AckEarned /\ NoLoss
  BY DEF Init, AckEarned, NoLoss
<1>2. QED
  BY <1>1, TypeCorrect, AckEarnedStep, PTL DEF Spec

----------------------------------------------------------------------------
(* Nothing but used-up retries or a failed validation leads to the DLQ. *)
LEMMA DlqDueStep == TypeOK /\ DlqDue /\ DlqOnlyWhenDue /\ [Next]_vars => (DlqDue /\ DlqOnlyWhenDue)'
<1> SUFFICES ASSUME TypeOK, DlqDue, DlqOnlyWhenDue, [Next]_vars PROVE (DlqDue /\ DlqOnlyWhenDue)'
  OBVIOUS
<1> USE MessageAssumption, SizeAssumption
    DEF DlqDue, DlqOnlyWhenDue, TypeOK, Places, Steps, history, taskVars, brokerVars
<1>1. ASSUME NEW m \in Msgs, Publish(m) PROVE (DlqDue /\ DlqOnlyWhenDue)'
  BY <1>1 DEF Publish
<1>2. ASSUME NEW t \in Tasks, NEW m \in Msgs, Deliver(t, m) PROVE (DlqDue /\ DlqOnlyWhenDue)'
  BY <1>2 DEF Deliver, FirstStep, Exhausted
<1>3. ASSUME NEW t \in Tasks, HandlerDone(t) PROVE (DlqDue /\ DlqOnlyWhenDue)'
  BY <1>3, BusyHoldsMessage DEF HandlerDone, Goto
<1>4. ASSUME NEW t \in Tasks, HandlerFails(t) PROVE (DlqDue /\ DlqOnlyWhenDue)'
  BY <1>4, BusyHoldsMessage DEF HandlerFails, Goto
<1>5. ASSUME NEW t \in Tasks, HandlerRejects(t) PROVE (DlqDue /\ DlqOnlyWhenDue)'
  BY <1>5, BusyHoldsMessage DEF HandlerRejects, Goto
<1>6. ASSUME NEW t \in Tasks, MoveToDlq(t) PROVE (DlqDue /\ DlqOnlyWhenDue)'
  BY <1>6, BusyHoldsMessage DEF MoveToDlq, Goto
<1>7. ASSUME NEW t \in Tasks, MoveToDlqFails(t) PROVE (DlqDue /\ DlqOnlyWhenDue)'
  BY <1>7, BusyHoldsMessage DEF MoveToDlqFails, Goto, EndTask
<1>8. ASSUME NEW t \in Tasks, Ack(t) PROVE (DlqDue /\ DlqOnlyWhenDue)'
  BY <1>8, BusyHoldsMessage DEF Ack, EndTask
<1>9. ASSUME NEW t \in Tasks, Nack(t) PROVE (DlqDue /\ DlqOnlyWhenDue)'
  BY <1>9, BusyHoldsMessage DEF Nack, EndTask, Bump
<1>10. ASSUME NEW m \in Msgs, RetryExpires(m) PROVE (DlqDue /\ DlqOnlyWhenDue)'
  BY <1>10 DEF RetryExpires
<1>11. ASSUME NEW s \in Services, ConnectionLost(s) PROVE (DlqDue /\ DlqOnlyWhenDue)'
  BY <1>11 DEF ConnectionLost, RequeueUnacked
<1>12. ASSUME NEW s \in Services, Crash(s) PROVE (DlqDue /\ DlqOnlyWhenDue)'
  BY <1>12 DEF Crash, RequeueUnacked
<1>13. CASE UNCHANGED vars
  BY <1>13 DEF vars
<1>14. QED
  BY <1>1, <1>2, <1>3, <1>4, <1>5, <1>6, <1>7, <1>8, <1>9, <1>10, <1>11, <1>12, <1>13
     DEF Next, TaskStep

(* A message is dead-lettered only when its retries are used up or it is invalid. *)
THEOREM DeadOnlyWhenDue == Spec => []DlqOnlyWhenDue
<1>1. Init => DlqDue /\ DlqOnlyWhenDue
  BY DEF Init, DlqDue, DlqOnlyWhenDue
<1>2. QED
  BY <1>1, TypeCorrect, DlqDueStep, PTL DEF Spec

----------------------------------------------------------------------------
(* Every run of the handler is paid for by a death, an incident, or the    *)
(* credit of the delivery under way.                                       *)
LEMMA BudgetStep == TypeOK /\ BudgetInv /\ [Next]_vars => BudgetInv'
<1> SUFFICES ASSUME TypeOK, BudgetInv, [Next]_vars PROVE BudgetInv'
  OBVIOUS
<1> USE MessageAssumption, SizeAssumption
    DEF BudgetInv, Credit, TypeOK, Places, Steps, history, taskVars, brokerVars
<1>1. ASSUME NEW m \in Msgs, Publish(m) PROVE BudgetInv'
  BY <1>1 DEF Publish
<1>2. ASSUME NEW t \in Tasks, NEW m \in Msgs, Deliver(t, m) PROVE BudgetInv'
  BY <1>2 DEF Deliver, FirstStep, Exhausted
<1>3. ASSUME NEW t \in Tasks, HandlerDone(t) PROVE BudgetInv'
  BY <1>3, BusyHoldsMessage DEF HandlerDone, Goto
<1>4. ASSUME NEW t \in Tasks, HandlerFails(t) PROVE BudgetInv'
  BY <1>4, BusyHoldsMessage DEF HandlerFails, Goto
<1>5. ASSUME NEW t \in Tasks, HandlerRejects(t) PROVE BudgetInv'
  BY <1>5, BusyHoldsMessage DEF HandlerRejects, Goto
<1>6. ASSUME NEW t \in Tasks, MoveToDlq(t) PROVE BudgetInv'
  BY <1>6, BusyHoldsMessage DEF MoveToDlq, Goto
<1>7. ASSUME NEW t \in Tasks, MoveToDlqFails(t) PROVE BudgetInv'
  BY <1>7, BusyHoldsMessage DEF MoveToDlqFails, Goto, EndTask
<1>8. ASSUME NEW t \in Tasks, Ack(t) PROVE BudgetInv'
  BY <1>8, BusyHoldsMessage DEF Ack, EndTask
<1>9. ASSUME NEW t \in Tasks, Nack(t) PROVE BudgetInv'
  BY <1>9, BusyHoldsMessage DEF Nack, EndTask, Bump
<1>10. ASSUME NEW m \in Msgs, RetryExpires(m) PROVE BudgetInv'
  BY <1>10 DEF RetryExpires
<1>11. ASSUME NEW s \in Services, ConnectionLost(s) PROVE BudgetInv'
  BY <1>11 DEF ConnectionLost, RequeueUnacked
<1>12. ASSUME NEW s \in Services, Crash(s) PROVE BudgetInv'
  BY <1>12 DEF Crash, RequeueUnacked
<1>13. CASE UNCHANGED vars
  BY <1>13 DEF vars
<1>14. QED
  BY <1>1, <1>2, <1>3, <1>4, <1>5, <1>6, <1>7, <1>8, <1>9, <1>10, <1>11, <1>12, <1>13
     DEF Next, TaskStep

(* The handler of a message runs at most RPC_MAX_RETRIES times plus once   *)
(* for every incident.                                                     *)
THEOREM RunsBounded == Spec => []RetryBudget
<1>1. Init => BudgetInv
  BY SizeAssumption DEF Init, BudgetInv, Credit
<1>2. TypeOK /\ BudgetInv => RetryBudget
  BY SizeAssumption DEF TypeOK, BudgetInv, Credit, RetryBudget
<1>3. QED
  BY <1>1, <1>2, TypeCorrect, BudgetStep, PTL DEF Spec

----------------------------------------------------------------------------
(* Exactly once without faults: what the coroutines may still do to a      *)
(* message is counted together with what was done to it.                   *)

LEMMA TasksFinite == IsFiniteSet(Tasks)
BY SizeAssumption, FS_Product DEF Tasks

LEMMA UndecidedFinite ==
  ASSUME NEW m \in Msgs
  PROVE  IsFiniteSet(Undecided(m)) /\ Cardinality(Undecided(m)) \in Nat
<1>1. Undecided(m) \subseteq Tasks
  BY DEF Undecided
<1>2. QED
  BY <1>1, TasksFinite, FS_Subset, FS_CardinalityType

(* Fewer coroutines in play, nothing new done, no smaller chance. *)
LEMMA QuietStep ==
  ASSUME TypeOK, NEW m \in Msgs, SettledOnce(m),
         Undecided(m)' \subseteq Undecided(m),
         handled'[m] = handled[m], dlq'[m] = dlq[m], faults'[m] \in Nat,
         faults'[m] + Chance(m)' >= faults[m] + Chance(m)
  PROVE  SettledOnce(m)'
<1>1. Cardinality(Undecided(m)') \in Nat /\ Cardinality(Undecided(m)') <= Cardinality(Undecided(m))
  BY UndecidedFinite, FS_Subset, FS_CardinalityType
<1>2. QED
  BY <1>1, UndecidedFinite DEF SettledOnce, TypeOK, Chance

(* A coroutine that is in play decides: there is one less. *)
LEMMA DecidingStep ==
  ASSUME NEW m \in Msgs, NEW t \in Undecided(m), Undecided(m)' = Undecided(m) \ {t}
  PROVE  /\ Cardinality(Undecided(m)') = Cardinality(Undecided(m)) - 1
         /\ Cardinality(Undecided(m)) \in Nat
BY UndecidedFinite, FS_RemoveElement

(* A new delivery puts one more coroutine in play. *)
LEMMA JoiningStep ==
  ASSUME NEW m \in Msgs, NEW t, t \notin Undecided(m), Undecided(m)' = Undecided(m) \cup {t}
  PROVE  /\ Cardinality(Undecided(m)') = Cardinality(Undecided(m)) + 1
         /\ Cardinality(Undecided(m)) \in Nat
BY UndecidedFinite, FS_AddElement

(* A message exactly once without faults: one step per action, and in it   *)
(* the message of the task that moves, and every other message.            *)
LEMMA RepeatStep == DeliveryInv /\ RepeatInv /\ [Next]_vars => RepeatInv'
<1> SUFFICES ASSUME DeliveryInv, RepeatInv, [Next]_vars, NEW n \in Msgs PROVE SettledOnce(n)'
  BY DEF RepeatInv
<1>0. TypeOK /\ TypeOK' /\ LiveUnique /\ LiveUnacked /\ SettledOnce(n)
  BY TypeStep DEF DeliveryInv, RepeatInv
<1>a. Chance(n) \in {0, 1} /\ Chance(n)' \in {0, 1} /\ faults[n] \in Nat /\ faults'[n] \in Nat
  BY <1>0 DEF TypeOK, Chance
<1>b. ASSUME Undecided(n)' = Undecided(n), Chance(n)' = Chance(n),
             handled'[n] = handled[n], dlq'[n] = dlq[n], faults'[n] = faults[n]
      PROVE  SettledOnce(n)'
  BY <1>0, <1>a, <1>b, QuietStep
<1> USE MessageAssumption, <1>0 DEF TypeOK, history, taskVars, brokerVars
<1>1. ASSUME NEW m \in Msgs, Publish(m) PROVE SettledOnce(n)'
  <2>1. Undecided(n)' = Undecided(n) /\ Chance(n)' = Chance(n)
    BY <1>1 DEF Publish, Undecided, Chance, Nacking
  <2>2. QED
    BY <1>1, <2>1, <1>b DEF Publish
<1>2. ASSUME NEW t \in Tasks, NEW m \in Msgs, Deliver(t, m) PROVE SettledOnce(n)'
  <2>0. handled' = handled /\ dlq' = dlq /\ faults' = faults
    BY <1>2 DEF Deliver
  <2>1. CASE n # m
    <3>1. Undecided(n)' = Undecided(n) /\ Chance(n)' = Chance(n)
      BY <1>2, <2>1 DEF Deliver, Undecided, Chance, Nacking
    <3>2. QED
      BY <2>0, <3>1, <1>b
  <2>2. CASE n = m /\ FirstStep(m) = "nack"
    <3>1. Undecided(n)' = Undecided(n) /\ Chance(n) = 0
      BY <1>2, <2>2 DEF Deliver, Undecided, Chance
    <3>2. QED
      BY <2>0, <3>1, QuietStep DEF Chance
  <2>3. CASE n = m /\ FirstStep(m) \in {"process", "to_dlq"}
    <3>1. Undecided(n)' = Undecided(n) \cup {t} /\ t \notin Undecided(n)
      BY <1>2, <2>3 DEF Deliver, Undecided
    <3>2. /\ Cardinality(Undecided(n)') = Cardinality(Undecided(n)) + 1
          /\ Cardinality(Undecided(n)) \in Nat
      BY <3>1, JoiningStep
    <3>3. \A u \in Tasks : live[u] => msg[u] # n
      BY <1>2, <2>3 DEF Deliver, LiveUnacked
    <3>4. Chance(n) = 0 /\ Chance(n)' = 1
      BY <1>2, <2>3, <3>3 DEF Deliver, Chance, Nacking
    <3>5. QED
      BY <2>0, <3>2, <3>4 DEF SettledOnce
  <2>4. QED
    BY <2>1, <2>2, <2>3 DEF FirstStep
<1>3. ASSUME NEW t \in Tasks, HandlerDone(t) PROVE SettledOnce(n)'
  <2>1. CASE n = msg[t]
    <3>1. t \in Undecided(n) /\ Undecided(n)' = Undecided(n) \ {t}
      BY <1>3, <2>1 DEF HandlerDone, Goto, Undecided
    <3>2. Cardinality(Undecided(n)') = Cardinality(Undecided(n)) - 1 /\ Cardinality(Undecided(n)) \in Nat
      BY <3>1, DecidingStep
    <3>3. Chance(n)' = Chance(n)
      BY <1>3, <2>1 DEF HandlerDone, Goto, Chance, Nacking
    <3>4. handled'[n] = handled[n] + 1 /\ dlq'[n] = dlq[n] /\ faults'[n] = faults[n]
      BY <1>3, <2>1 DEF HandlerDone
    <3>5. QED
      BY <3>2, <3>3, <3>4 DEF SettledOnce, Chance
  <2>2. CASE n # msg[t]
    <3>1. Undecided(n)' = Undecided(n) /\ Chance(n)' = Chance(n)
      BY <1>3, <2>2 DEF HandlerDone, Goto, Undecided, Chance, Nacking
    <3>2. handled'[n] = handled[n] /\ dlq'[n] = dlq[n] /\ faults'[n] = faults[n]
      BY <1>3, <2>2, BusyHoldsMessage DEF HandlerDone, Goto
    <3>3. QED
      BY <3>1, <3>2, <1>b
  <2>3. QED
    BY <2>1, <2>2
<1>4. ASSUME NEW t \in Tasks, HandlerFails(t) PROVE SettledOnce(n)'
  <2>1. CASE n = msg[t]
    <3>1. t \in Undecided(n) /\ Undecided(n)' = Undecided(n) \ {t}
      BY <1>4, <2>1 DEF HandlerFails, Goto, Undecided
    <3>2. Cardinality(Undecided(n)') = Cardinality(Undecided(n)) - 1 /\ Cardinality(Undecided(n)) \in Nat
      BY <3>1, DecidingStep
    <3>3. handled'[n] = handled[n] /\ dlq'[n] = dlq[n] /\ faults'[n] = faults[n]
      BY <1>4 DEF HandlerFails
    <3>4. QED
      BY <3>2, <3>3 DEF SettledOnce, Chance
  <2>2. CASE n # msg[t]
    <3>1. Undecided(n)' = Undecided(n) /\ Chance(n)' = Chance(n)
      BY <1>4, <2>2 DEF HandlerFails, Goto, Undecided, Chance, Nacking
    <3>2. handled'[n] = handled[n] /\ dlq'[n] = dlq[n] /\ faults'[n] = faults[n]
      BY <1>4, <2>2, BusyHoldsMessage DEF HandlerFails, Goto
    <3>3. QED
      BY <3>1, <3>2, <1>b
  <2>3. QED
    BY <2>1, <2>2
<1>5. ASSUME NEW t \in Tasks, HandlerRejects(t) PROVE SettledOnce(n)'
  <2>1. Undecided(n)' = Undecided(n) /\ Chance(n)' = Chance(n)
    BY <1>5 DEF HandlerRejects, Goto, Undecided, Chance, Nacking
  <2>2. QED
    BY <1>5, <2>1, <1>b DEF HandlerRejects
<1>6. ASSUME NEW t \in Tasks, MoveToDlq(t) PROVE SettledOnce(n)'
  <2>1. CASE n = msg[t]
    <3>1. t \in Undecided(n) /\ Undecided(n)' = Undecided(n) \ {t}
      BY <1>6, <2>1 DEF MoveToDlq, Goto, Undecided
    <3>2. Cardinality(Undecided(n)') = Cardinality(Undecided(n)) - 1 /\ Cardinality(Undecided(n)) \in Nat
      BY <3>1, DecidingStep
    <3>3. Chance(n)' = Chance(n)
      BY <1>6, <2>1 DEF MoveToDlq, Goto, Chance, Nacking
    <3>4. handled'[n] = handled[n] /\ dlq'[n] = dlq[n] + 1 /\ faults'[n] = faults[n]
      BY <1>6, <2>1 DEF MoveToDlq
    <3>5. QED
      BY <3>2, <3>3, <3>4 DEF SettledOnce, Chance
  <2>2. CASE n # msg[t]
    <3>1. Undecided(n)' = Undecided(n) /\ Chance(n)' = Chance(n)
      BY <1>6, <2>2 DEF MoveToDlq, Goto, Undecided, Chance, Nacking
    <3>2. handled'[n] = handled[n] /\ dlq'[n] = dlq[n] /\ faults'[n] = faults[n]
      BY <1>6, <2>2, BusyHoldsMessage DEF MoveToDlq, Goto
    <3>3. QED
      BY <3>1, <3>2, <1>b
  <2>3. QED
    BY <2>1, <2>2
<1>7. ASSUME NEW t \in Tasks, MoveToDlqFails(t) PROVE SettledOnce(n)'
  <2>1. CASE n = msg[t]
    <3>1. t \in Undecided(n) /\ Undecided(n)' = Undecided(n) \ {t}
      BY <1>7, <2>1 DEF MoveToDlqFails, Goto, EndTask, Undecided
    <3>2. Cardinality(Undecided(n)') = Cardinality(Undecided(n)) - 1 /\ Cardinality(Undecided(n)) \in Nat
      BY <3>1, DecidingStep
    <3>3. handled'[n] = handled[n] /\ dlq'[n] \in {dlq[n], dlq[n] + 1} /\ faults'[n] = faults[n] + 1
      BY <1>7, <2>1 DEF MoveToDlqFails
    <3>4. QED
      BY <3>2, <3>3 DEF SettledOnce, Chance
  <2>2. CASE n # msg[t]
    <3>1. Undecided(n)' = Undecided(n) /\ Chance(n)' = Chance(n)
      BY <1>7, <2>2 DEF MoveToDlqFails, Goto, EndTask, Undecided, Chance, Nacking
    <3>2. handled'[n] = handled[n] /\ dlq'[n] = dlq[n] /\ faults'[n] = faults[n]
      BY <1>7, <2>2, BusyHoldsMessage DEF MoveToDlqFails, Goto, EndTask
    <3>3. QED
      BY <3>1, <3>2, <1>b
  <2>3. QED
    BY <2>1, <2>2
<1>8. ASSUME NEW t \in Tasks, Ack(t) PROVE SettledOnce(n)'
  <2>1. Undecided(n)' \subseteq Undecided(n)
    BY <1>8 DEF Ack, EndTask, Undecided
  <2>2. Chance(n)' >= Chance(n)
    BY <1>8 DEF Ack, EndTask, Chance, Nacking
  <2>3. QED
    BY <1>8, <2>1, <2>2, QuietStep DEF Ack, Chance
<1>9. ASSUME NEW t \in Tasks, Nack(t) PROVE SettledOnce(n)'
  <2>1. Undecided(n)' \subseteq Undecided(n)
    BY <1>9 DEF Nack, EndTask, Undecided
  <2>2. Chance(n)' >= Chance(n)
    <3>1. CASE live[t] /\ n = msg[t]
      BY <1>9, <3>1 DEF Nack, Chance, Nacking, LiveUnacked
    <3>2. CASE ~(live[t] /\ n = msg[t])
      BY <1>9, <3>2, BusyHoldsMessage DEF Nack, EndTask, Chance, Nacking
    <3>3. QED
      BY <3>1, <3>2
  <2>3. QED
    BY <1>9, <2>1, <2>2, QuietStep DEF Nack, Chance
<1>10. ASSUME NEW m \in Msgs, RetryExpires(m) PROVE SettledOnce(n)'
  <2>1. Undecided(n)' = Undecided(n) /\ Chance(n)' = Chance(n)
    BY <1>10 DEF RetryExpires, Undecided, Chance, Nacking
  <2>2. QED
    BY <1>10, <2>1, <1>b DEF RetryExpires
<1>11. ASSUME NEW s \in Services, ConnectionLost(s) PROVE SettledOnce(n)'
  <2>1. Undecided(n)' \subseteq Undecided(n)
    BY <1>11 DEF ConnectionLost, Undecided
  <2>2. faults'[n] + Chance(n)' >= faults[n] + Chance(n)
    <3>1. CASE n \in Unacked(s)
      BY <1>11, <3>1 DEF ConnectionLost, RequeueUnacked, Chance
    <3>2. CASE n \notin Unacked(s)
      <4>1. Nacking(n)' => Nacking(n)
        BY <1>11 DEF ConnectionLost, Nacking
      <4>2. place'[n] = place[n] /\ faults'[n] = faults[n]
        BY <1>11, <3>2 DEF ConnectionLost, RequeueUnacked
      <4>3. QED
        BY <4>1, <4>2 DEF Chance
    <3>3. QED
      BY <3>1, <3>2
  <2>3. QED
    BY <1>11, <2>1, <2>2, QuietStep DEF ConnectionLost
<1>12. ASSUME NEW s \in Services, Crash(s) PROVE SettledOnce(n)'
  <2>1. Undecided(n)' \subseteq Undecided(n)
    BY <1>12 DEF Crash, Undecided
  <2>2. faults'[n] + Chance(n)' >= faults[n] + Chance(n)
    <3>1. CASE n \in Unacked(s)
      BY <1>12, <3>1 DEF Crash, RequeueUnacked, Chance
    <3>2. CASE n \notin Unacked(s)
      <4>1. Nacking(n)' => Nacking(n)
        BY <1>12 DEF Crash, Nacking
      <4>2. place'[n] = place[n] /\ faults'[n] = faults[n]
        BY <1>12, <3>2 DEF Crash, RequeueUnacked
      <4>3. QED
        BY <4>1, <4>2 DEF Chance
    <3>3. QED
      BY <3>1, <3>2
  <2>3. QED
    BY <1>12, <2>1, <2>2, QuietStep DEF Crash
<1>13. CASE UNCHANGED vars
  <2>1. Undecided(n)' = Undecided(n) /\ Chance(n)' = Chance(n)
    BY <1>13 DEF vars, Undecided, Chance, Nacking
  <2>2. QED
    BY <1>13, <2>1, QuietStep DEF vars, Chance
<1>14. QED
  BY <1>1, <1>2, <1>3, <1>4, <1>5, <1>6, <1>7, <1>8, <1>9, <1>10, <1>11, <1>12, <1>13
     DEF Next, TaskStep

(* The broker's delivery discipline holds in every reachable state. *)
THEOREM Deliveries == Spec => []DeliveryInv
<1>1. Init => DeliveryInv
  BY SizeAssumption, MessageAssumption
     DEF Init, DeliveryInv, LiveUnique, LiveUnacked, BusyPublished, TypeOK, Places, Steps
<1>2. QED
  BY <1>1, DeliveryStep, PTL DEF Spec

(* A message is handled or dead-lettered once, and once more at most for   *)
(* every incident that hit one of its deliveries.                          *)
THEOREM OnceWithoutFault == Spec => []NoRepeatWithoutFault
<1>1. Init => RepeatInv
  <2> SUFFICES ASSUME Init, NEW m \in Msgs PROVE SettledOnce(m)
    BY DEF RepeatInv
  <2>1. Undecided(m) = {}
    BY DEF Init, Undecided
  <2>2. QED
    BY <2>1, FS_EmptySet DEF Init, SettledOnce, Chance
<1>2. TypeOK /\ RepeatInv => NoRepeatWithoutFault
  BY UndecidedFinite DEF TypeOK, RepeatInv, SettledOnce, Chance, NoRepeatWithoutFault
<1>3. QED
  BY <1>1, <1>2, Deliveries, TypeCorrect, RepeatStep, PTL DEF Spec

----------------------------------------------------------------------------
(* Every step maps to a step of AtLeastOnce or leaves its variables alone: *)
(* Publish submits, HandlerDone handles, a copy in the DLQ dead-letters,   *)
(* an ack on a live channel settles.                                       *)

LEMMA PromiseUnchanged ==
  ASSUME \A m \in Msgs : /\ place'[m] = "new" <=> place[m] = "new"
                         /\ place'[m] = "gone" <=> place[m] = "gone"
                         /\ handled'[m] > 0 <=> handled[m] > 0
                         /\ dlq'[m] > 0 <=> dlq[m] > 0
  PROVE  UNCHANGED Promise!promiseVars
BY DEF Promise!promiseVars

LEMMA PromiseStep ==
  DeliveryInv /\ AckEarned /\ [Next]_vars => [Promise!Next]_(Promise!promiseVars)
<1> SUFFICES ASSUME DeliveryInv, AckEarned, [Next]_vars
             PROVE  [Promise!Next]_(Promise!promiseVars)
  OBVIOUS
<1>0. TypeOK /\ TypeOK' /\ LiveUnacked /\ BusyPublished
  BY TypeStep DEF DeliveryInv
<1> USE MessageAssumption, <1>0 DEF TypeOK, history, taskVars, brokerVars
<1>1. ASSUME NEW m \in Msgs, Publish(m) PROVE Promise!Submit(m)
  BY <1>1 DEF Publish, Promise!Submit
<1>2. ASSUME NEW t \in Tasks, NEW m \in Msgs, Deliver(t, m) PROVE UNCHANGED Promise!promiseVars
  BY <1>2, PromiseUnchanged DEF Deliver
<1>3. ASSUME NEW t \in Tasks, HandlerDone(t) PROVE Promise!Next
  <2>1. PICK m \in Msgs : m = msg[t]
    BY <1>3, BusyHoldsMessage DEF HandlerDone
  <2>2. Promise!Handle(m)
    BY <1>3, <2>1 DEF HandlerDone, BusyPublished, Promise!Handle
  <2>3. QED
    BY <2>2 DEF Promise!Next
<1>4. ASSUME NEW t \in Tasks, HandlerFails(t) PROVE UNCHANGED Promise!promiseVars
  BY <1>4, PromiseUnchanged DEF HandlerFails
<1>5. ASSUME NEW t \in Tasks, HandlerRejects(t) PROVE UNCHANGED Promise!promiseVars
  BY <1>5, PromiseUnchanged DEF HandlerRejects
<1>6. ASSUME NEW t \in Tasks, MoveToDlq(t) PROVE Promise!Next
  <2>1. PICK m \in Msgs : m = msg[t]
    BY <1>6, BusyHoldsMessage DEF MoveToDlq
  <2>2. Promise!DeadLetter(m)
    BY <1>6, <2>1 DEF MoveToDlq, BusyPublished, Promise!DeadLetter
  <2>3. QED
    BY <2>2 DEF Promise!Next
<1>7. ASSUME NEW t \in Tasks, MoveToDlqFails(t)
      PROVE  Promise!Next \/ UNCHANGED Promise!promiseVars
  <2>1. CASE dlq' = dlq
    BY <1>7, <2>1, PromiseUnchanged DEF MoveToDlqFails
  <2>2. CASE dlq' = [dlq EXCEPT ![msg[t]] = @ + 1]
    <3>1. PICK m \in Msgs : m = msg[t]
      BY <1>7, BusyHoldsMessage DEF MoveToDlqFails
    <3>2. Promise!DeadLetter(m)
      BY <1>7, <2>2, <3>1 DEF MoveToDlqFails, BusyPublished, Promise!DeadLetter
    <3>3. QED
      BY <3>2 DEF Promise!Next
  <2>3. QED
    BY <1>7, <2>1, <2>2 DEF MoveToDlqFails
<1>8. ASSUME NEW t \in Tasks, Ack(t)
      PROVE  Promise!Next \/ UNCHANGED Promise!promiseVars
  <2>1. CASE live[t]
    <3>1. PICK m \in Msgs : m = msg[t]
      BY <1>8, BusyHoldsMessage DEF Ack
    <3>2. place[m] = "unacked"
      BY <2>1, <3>1 DEF LiveUnacked
    <3>3. handled[m] > 0 \/ dlq[m] > 0
      BY <1>8, <3>1 DEF Ack, AckEarned
    <3>4. Promise!Settle(m)
      BY <1>8, <2>1, <3>1, <3>2, <3>3 DEF Ack, Promise!Settle
    <3>5. QED
      BY <3>4 DEF Promise!Next
  <2>2. CASE ~live[t]
    BY <1>8, <2>2, PromiseUnchanged DEF Ack
  <2>3. QED
    BY <2>1, <2>2
<1>9. ASSUME NEW t \in Tasks, Nack(t) PROVE UNCHANGED Promise!promiseVars
  BY <1>9, BusyHoldsMessage, PromiseUnchanged DEF Nack, LiveUnacked
<1>10. ASSUME NEW m \in Msgs, RetryExpires(m) PROVE UNCHANGED Promise!promiseVars
  BY <1>10, PromiseUnchanged DEF RetryExpires
<1>11. ASSUME NEW s \in Services, ConnectionLost(s) PROVE UNCHANGED Promise!promiseVars
  <2>1. \A m \in Unacked(s) : place[m] = "unacked"
    BY DEF Unacked, Outstanding, TasksOf, LiveUnacked
  <2>2. QED
    BY <1>11, <2>1, PromiseUnchanged DEF ConnectionLost, RequeueUnacked
<1>12. ASSUME NEW s \in Services, Crash(s) PROVE UNCHANGED Promise!promiseVars
  <2>1. \A m \in Unacked(s) : place[m] = "unacked"
    BY DEF Unacked, Outstanding, TasksOf, LiveUnacked
  <2>2. QED
    BY <1>12, <2>1, PromiseUnchanged DEF Crash, RequeueUnacked
<1>13. CASE UNCHANGED vars
  BY <1>13, PromiseUnchanged DEF vars
<1>14. ASSUME NEW t \in Tasks, TaskStep(t)
       PROVE  Promise!Next \/ UNCHANGED Promise!promiseVars
  BY <1>14, <1>3, <1>4, <1>5, <1>6, <1>7, <1>8, <1>9, Zenon DEF TaskStep
<1>15. ASSUME NEW m \in Msgs, Publish(m) PROVE Promise!Next
  BY <1>1, <1>15, Zenon DEF Promise!Next
<1>16. QED
  BY <1>2, <1>10, <1>11, <1>12, <1>13, <1>14, <1>15, Zenon DEF Next

(* The queue group and its listeners implement at-least-once delivery. *)
THEOREM Implementation == Spec => ImplementsAtLeastOnce
<1>1. Init => Promise!Init
  BY DEF Init, Promise!Init
<1>2. Init => AckEarned /\ NoLoss
  BY DEF Init, AckEarned, NoLoss
<1>3. Spec => [](AckEarned /\ NoLoss)
  BY <1>2, TypeCorrect, AckEarnedStep, PTL DEF Spec
<1>4. QED
  BY <1>1, <1>3, Deliveries, PromiseStep, PTL DEF Spec, ImplementsAtLeastOnce, Promise!Spec

----------------------------------------------------------------------------
(* How often a message can come back *)

(* A delivery of m that has used up its retries is about to be rejected    *)
(* all the same: an incident kept it from the dead-letter queue.           *)
Excused(m) ==
  \E t \in Tasks : live[t] /\ msg[t] = m /\ pc[t] = "nack" /\ deaths[m] = MaxRetries

(* The deliveries of m that may still end without settling it. *)
RoundsLeft(m) ==
  (MaxRetries - deaths[m]) + (MaxIncidents - incidents) + (IF Excused(m) THEN 1 ELSE 0)

(* A message whose body is JSON does not circle: each delivery that leaves *)
(* it unsettled uses up a retry or an incident, and nothing gives it back. *)
RoundsRunOut ==
  [][\A m \in Msgs \ Malformed :
       /\ RoundsLeft(m)' <= RoundsLeft(m)
       /\ place[m] = "unacked" /\ place'[m] \in {"base", "retry"}
            => RoundsLeft(m)' < RoundsLeft(m)]_vars

(* The handler of a delivery is given a message that has retries left. *)
RetriesLeft == \A t \in Tasks : live[t] /\ pc[t] = "process" => deaths[msg[t]] < MaxRetries

LEMMA RetriesStep == DeliveryInv /\ RetriesLeft /\ [Next]_vars => RetriesLeft'
<1> SUFFICES ASSUME DeliveryInv, RetriesLeft, [Next]_vars,
                    NEW t \in Tasks, live'[t], pc'[t] = "process"
             PROVE  deaths'[msg'[t]] < MaxRetries
  BY DEF RetriesLeft
<1> USE MessageAssumption, SizeAssumption
    DEF DeliveryInv, TypeOK, Places, Steps, history, taskVars, brokerVars
<1>1. ASSUME live[t], pc[t] = "process", msg'[t] = msg[t], deaths' = deaths
      PROVE  deaths'[msg'[t]] < MaxRetries
  BY <1>1 DEF RetriesLeft
<1>2. ASSUME NEW x \in Tasks, NEW m \in Msgs, Deliver(x, m) PROVE deaths'[msg'[t]] < MaxRetries
  <2>1. CASE x = t
    BY <1>2, <2>1 DEF Deliver, FirstStep, Exhausted
  <2>2. CASE x # t
    BY <1>1, <1>2, <2>2 DEF Deliver
  <2>3. QED
    BY <2>1, <2>2
<1>3. ASSUME NEW x \in Tasks, TaskStep(x), ~Nack(x) PROVE deaths'[msg'[t]] < MaxRetries
  BY <1>1, <1>3 DEF TaskStep, HandlerDone, HandlerFails, HandlerRejects, MoveToDlq, MoveToDlqFails,
                    Ack, Goto, EndTask
<1>4. ASSUME NEW x \in Tasks, Nack(x) PROVE deaths'[msg'[t]] < MaxRetries
  <2>1. x # t /\ live[t] /\ pc[t] = "process" /\ msg'[t] = msg[t] /\ msg[t] \in Msgs
    BY <1>4, BusyHoldsMessage DEF Nack, EndTask
  <2>2. live[x] => msg[x] # msg[t]
    BY <2>1 DEF LiveUnique
  <2>3. deaths'[msg[t]] = deaths[msg[t]]
    BY <1>4, <2>1, <2>2 DEF Nack
  <2>4. QED
    BY <2>1, <2>3 DEF RetriesLeft
<1>5. ASSUME NEW s \in Services, ConnectionLost(s) \/ Crash(s) PROVE deaths'[msg'[t]] < MaxRetries
  BY <1>1, <1>5 DEF ConnectionLost, Crash
<1>6. ASSUME NEW m \in Msgs, Publish(m) \/ RetryExpires(m) PROVE deaths'[msg'[t]] < MaxRetries
  BY <1>1, <1>6 DEF Publish, RetryExpires
<1>7. CASE UNCHANGED vars
  BY <1>1, <1>7 DEF vars
<1>8. QED
  BY <1>2, <1>3, <1>4, <1>5, <1>6, <1>7 DEF Next

(* The arithmetic of RoundsLeft: no new excuse without an incident. *)
LEMMA RoundsKept ==
  ASSUME TypeOK, TypeOK', NEW m \in Msgs, deaths'[m] = deaths[m],
         \/ incidents' = incidents /\ (Excused(m)' => Excused(m))
         \/ incidents' = incidents + 1 /\ ~Excused(m)
         \/ incidents' = incidents + 1 /\ ~Excused(m)'
  PROVE  /\ RoundsLeft(m)' <= RoundsLeft(m)
         /\ incidents' = incidents + 1 /\ ~Excused(m)' => RoundsLeft(m)' < RoundsLeft(m)
<1>1. deaths[m] \in Nat /\ incidents \in Nat /\ MaxRetries \in Nat /\ MaxIncidents \in Nat
  BY SizeAssumption DEF TypeOK
<1>2. QED
  BY <1>1 DEF RoundsLeft

LEMMA RoundsStep ==
  ASSUME DeliveryInv, RetriesLeft, [Next]_vars, NEW m \in Msgs \ Malformed
  PROVE  /\ RoundsLeft(m)' <= RoundsLeft(m)
         /\ place[m] = "unacked" /\ place'[m] \in {"base", "retry"}
              => RoundsLeft(m)' < RoundsLeft(m)
<1> DEFINE Goal == /\ RoundsLeft(m)' <= RoundsLeft(m)
                   /\ place[m] = "unacked" /\ place'[m] \in {"base", "retry"}
                        => RoundsLeft(m)' < RoundsLeft(m)
<1>0. TypeOK /\ TypeOK' /\ DeliveryInv'
  BY DeliveryStep DEF DeliveryInv
<1> USE <1>0, MessageAssumption, SizeAssumption DEF history, taskVars, brokerVars
<1>1. ASSUME deaths'[m] = deaths[m], incidents' = incidents, Excused(m)' => Excused(m),
             place[m] = "unacked" => place'[m] \notin {"base", "retry"}
      PROVE  Goal
  BY <1>1, RoundsKept
<1>2. ASSUME NEW x \in Msgs, Publish(x) \/ RetryExpires(x) PROVE Goal
  BY <1>1, <1>2 DEF Publish, RetryExpires, Excused, TypeOK
<1>3. ASSUME NEW t \in Tasks, NEW x \in Msgs, Deliver(t, x) PROVE Goal
  <2>1. deaths' = deaths /\ incidents' = incidents /\ place'[m] \in {place[m], "unacked"}
    BY <1>3 DEF Deliver, TypeOK
  <2>2. Excused(m)' => Excused(m)
    BY <1>3 DEF Deliver, FirstStep, Excused, TypeOK
  <2>3. QED
    BY <1>1, <2>1, <2>2
<1>4. ASSUME NEW t \in Tasks, HandlerDone(t) \/ HandlerRejects(t) \/ MoveToDlq(t) PROVE Goal
  BY <1>1, <1>4 DEF HandlerDone, HandlerRejects, MoveToDlq, Goto, Excused, TypeOK
<1>5. ASSUME NEW t \in Tasks, HandlerFails(t) PROVE Goal
  <2>1. live[t] => deaths[msg[t]] < MaxRetries
    BY <1>5 DEF RetriesLeft, HandlerFails
  <2>2. Excused(m)' => Excused(m)
    BY <1>5, <2>1 DEF HandlerFails, Goto, Excused, TypeOK
  <2>3. QED
    BY <1>1, <1>5, <2>2 DEF HandlerFails, Goto
<1>6. ASSUME NEW t \in Tasks, MoveToDlqFails(t) PROVE Goal
  <2>1. deaths' = deaths /\ place' = place /\ incidents' = incidents + 1
    BY <1>6 DEF MoveToDlqFails
  <2>2. CASE ~Excused(m)
    BY <2>1, <2>2, RoundsKept
  <2>3. CASE Excused(m)
    <3>1. RoundsLeft(m)' <= RoundsLeft(m)
      BY <2>1, <2>3 DEF RoundsLeft, TypeOK
    <3>2. QED
      BY <2>1, <3>1
  <2>4. QED
    BY <2>2, <2>3
<1>7. ASSUME NEW t \in Tasks, Ack(t) PROVE Goal
  <2>1. deaths' = deaths /\ incidents' = incidents /\ place'[m] \in {place[m], "gone"}
    BY <1>7 DEF Ack, TypeOK
  <2>2. Excused(m)' => Excused(m)
    BY <1>7 DEF Ack, EndTask, Excused, TypeOK
  <2>3. QED
    BY <1>1, <2>1, <2>2
<1>8. ASSUME NEW t \in Tasks, Nack(t) PROVE Goal
  <2>1. CASE msg[t] = m /\ live[t]
    <3>1. incidents' = incidents /\ deaths'[m] = Bump(deaths[m])
      BY <1>8, <2>1 DEF Nack, TypeOK
    <3>2. \A x \in Tasks : live'[x] => live[x] /\ msg[x] # m /\ msg'[x] = msg[x]
      BY <1>8, <2>1 DEF Nack, EndTask, DeliveryInv, LiveUnique, TypeOK
    <3>3. ~Excused(m)'
      BY <3>2 DEF Excused
    <3>4. deaths[m] = MaxRetries => Excused(m)
      BY <1>8, <2>1 DEF Nack, Excused
    <3>5. deaths[m] \in 0..MaxRetries /\ incidents \in Nat /\ MaxIncidents \in Nat
      BY DEF TypeOK
    <3>6. QED
      BY <3>1, <3>3, <3>4, <3>5 DEF RoundsLeft, Bump
  <2>2. CASE ~(msg[t] = m /\ live[t])
    <3>1. incidents' = incidents /\ deaths'[m] = deaths[m] /\ place'[m] = place[m]
      BY <1>8, <2>2, BusyHoldsMessage DEF Nack, TypeOK
    <3>2. Excused(m)' => Excused(m)
      BY <1>8, <3>1 DEF Nack, EndTask, Excused, TypeOK
    <3>3. QED
      BY <1>1, <3>1, <3>2
  <2>3. QED
    BY <2>1, <2>2
<1>9. ASSUME NEW s \in Services, ConnectionLost(s) \/ Crash(s) PROVE Goal
  <2>1. deaths' = deaths /\ incidents' = incidents + 1
    BY <1>9 DEF ConnectionLost, Crash, RequeueUnacked
  <2>2. Excused(m)' => Excused(m)
    BY <1>9, <2>1 DEF ConnectionLost, Crash, Excused, TypeOK
  <2>3. CASE place[m] = "unacked" /\ place'[m] \in {"base", "retry"}
    <3>1. place'[m] # "unacked"
      BY <2>3
    <3>2. ~Excused(m)'
      BY <3>1 DEF Excused, DeliveryInv, LiveUnacked
    <3>3. QED
      BY <2>1, <3>2, RoundsKept
  <2>4. CASE ~(place[m] = "unacked" /\ place'[m] \in {"base", "retry"})
    <3>1. RoundsLeft(m)' <= RoundsLeft(m)
      BY <2>1, <2>2 DEF RoundsLeft, TypeOK
    <3>2. QED
      BY <2>4, <3>1
  <2>5. QED
    BY <2>3, <2>4
<1>10. CASE UNCHANGED vars
  BY <1>1, <1>10 DEF vars, Excused
<1>11. QED
  BY <1>2, <1>3, <1>4, <1>5, <1>6, <1>7, <1>8, <1>9, <1>10 DEF Next, TaskStep

(* A message whose body is JSON comes back at most as often as there are   *)
(* retries and incidents.                                                  *)
THEOREM NoCircling == Spec => RoundsRunOut
<1>1. Init => RetriesLeft
  BY DEF Init, RetriesLeft
<1>2. DeliveryInv /\ RetriesLeft /\ [Next]_vars
        => [\A m \in Msgs \ Malformed :
              /\ RoundsLeft(m)' <= RoundsLeft(m)
              /\ place[m] = "unacked" /\ place'[m] \in {"base", "retry"}
                   => RoundsLeft(m)' < RoundsLeft(m)]_vars
  BY RoundsStep
<1>3. QED
  BY <1>1, <1>2, Deliveries, RetriesStep, PTL DEF Spec, RoundsRunOut
=============================================================================
