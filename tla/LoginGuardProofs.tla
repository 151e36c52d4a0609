-------------------------- MODULE LoginGuardProofs --------------------------
(***************************************************************************)
(* Safety of LoginGuard for every number of users and tasks and every      *)
(* limit and time to live: type correctness, that only a fault leaves a    *)
(* counter of failed attempts without its window, what races between       *)
(* attempts do to the limit and to the count during and after a ban, and   *)
(* that a ban runs out although they prolong it.                           *)
(***************************************************************************)
EXTENDS LoginGuard, FiniteSetTheorems, TLAPS

(* Closing a Redis client is a fault. *)
ClosedByFault == \A t \in Tasks : connected[t] \/ faults > 0

WindowInv == ClosedByFault /\ CounterHasWindowOrFault

(* Tasks that are past the ban check and may still count a failure of u. *)
PastCheck(u) ==
  {t \in Tasks : user[t] = u /\ (pc[t] = "incr" \/ (pc[t] = "load" /\ connected[t]))}

(* The failures counted during the ban and those still to come are fewer   *)
(* than the tasks: the one that set the ban is none of them.               *)
LateSlack(u) == ban[u] > 0 => late[u] + Cardinality(PastCheck(u)) + 1 <= Cardinality(Tasks)

LateInv == \A u \in Users : LateSlack(u)

----------------------------------------------------------------------------
LEMMA BusyServesUser ==
  ASSUME TypeOK, NEW t \in Tasks, pc[t] # "idle"
  PROVE  user[t] \in Users
BY GuardAssumption DEF TypeOK

(* The part of the type invariant that describes the tasks' runs. *)
RunTyped ==
  /\ pc \in [Tasks -> Steps]
  /\ user \in [Tasks -> Users \cup {NoUser}]
  /\ good \in [Tasks -> BOOLEAN]
  /\ seen \in [Tasks -> Nat]
  /\ \A t \in Tasks : pc[t] = "idle" <=> user[t] = NoUser

LEMMA FinishTyped ==
  ASSUME TypeOK, NEW t \in Tasks, Finish(t)
  PROVE  RunTyped'
BY GuardAssumption DEF TypeOK, RunTyped, Finish, Steps

LEMMA GotoTyped ==
  ASSUME TypeOK, NEW t \in Tasks, pc[t] # "idle", NEW step \in Steps \ {"idle"}, Goto(t, step)
  PROVE  RunTyped'
BY GuardAssumption DEF TypeOK, RunTyped, Goto

LEMMA ContinueTyped ==
  ASSUME TypeOK, NEW t \in Tasks, pc[t] # "idle", NEW step \in Steps, Continue(t, step)
  PROVE  RunTyped'
BY FinishTyped, GotoTyped DEF Continue

(* Every step keeps the types. *)
LEMMA TypeStep == TypeOK /\ [Next]_vars => TypeOK'
<1> SUFFICES ASSUME TypeOK, [Next]_vars PROVE TypeOK'
  OBVIOUS
<1> USE GuardAssumption DEF TypeOK, Steps, redis, run
<1>1. ASSUME NEW t \in Tasks, NEW u \in Users, NEW ok \in BOOLEAN, Begin(t, u, ok) PROVE TypeOK'
  BY <1>1 DEF Begin
<1>2. ASSUME NEW t \in Tasks, CheckBan(t) PROVE TypeOK'
  <2>1. RunTyped'
    BY <1>2, FinishTyped, GotoTyped DEF CheckBan
  <2>2. QED
    BY <1>2, <2>1 DEF CheckBan, RunTyped
<1>3. ASSUME NEW t \in Tasks, Verify(t) PROVE TypeOK'
  <2>1. RunTyped'
    <3>1. CASE connected[t]
      BY <1>3, <3>1, FinishTyped, GotoTyped DEF Verify
    <3>2. CASE ~connected[t]
      BY <1>3, <3>2, FinishTyped, GotoTyped DEF Verify
    <3>3. QED
      BY <3>1, <3>2
  <2>2. QED
    BY <1>3, <2>1 DEF Verify, RunTyped
<1>4. ASSUME NEW t \in Tasks, Incr(t) PROVE TypeOK'
  <2>0. user[t] \in Users
    BY <1>4, BusyServesUser DEF Incr
  <2>1. attempts' \in [Users -> Nat] /\ late' \in [Users -> Nat]
    BY <1>4, <2>0 DEF Incr
  <2>2. RunTyped'
    <3>1. CASE Finish(t)
      BY <3>1, FinishTyped
    <3>2. CASE ~Finish(t)
      BY <1>4, <2>0, <3>2 DEF Incr, AfterIncr, RunTyped
    <3>3. QED
      BY <3>1, <3>2
  <2>3. QED
    BY <1>4, <2>1, <2>2 DEF Incr, RunTyped
<1>5. ASSUME NEW t \in Tasks, Expire(t) PROVE TypeOK'
  <2>1. window' \in [Users -> 0..WindowTtl]
    BY <1>5, BusyServesUser DEF Expire
  <2>2. RunTyped'
    BY <1>5, ContinueTyped DEF Expire, AfterExpire
  <2>3. QED
    BY <1>5, <2>1, <2>2 DEF Expire, RunTyped
<1>6. ASSUME NEW t \in Tasks, SetBan(t) PROVE TypeOK'
  <2>1. ban' \in [Users -> 0..LockTtl] /\ late' \in [Users -> Nat]
    BY <1>6, BusyServesUser DEF SetBan
  <2>2. RunTyped'
    BY <1>6, ContinueTyped DEF SetBan
  <2>3. QED
    BY <1>6, <2>1, <2>2 DEF SetBan, RunTyped
<1>7. ASSUME NEW t \in Tasks, ClearCounter(t) PROVE TypeOK'
  BY <1>7, BusyServesUser DEF ClearCounter, DeleteCounter, Finish
<1>8. ASSUME NEW t \in Tasks, ResetCounter(t) PROVE TypeOK'
  BY <1>8, BusyServesUser DEF ResetCounter, DeleteCounter, Goto
<1>9. ASSUME NEW t \in Tasks, SaveTokens(t) PROVE TypeOK'
  BY <1>9, BusyServesUser DEF SaveTokens, Finish
<1>10. ASSUME NEW t \in Tasks, Interrupt(t) PROVE TypeOK'
  BY <1>10, BusyServesUser DEF Interrupt, Finish
<1>11. ASSUME NEW t \in Tasks, CloseRedis(t) PROVE TypeOK'
  BY <1>11, BusyServesUser DEF CloseRedis
<1>12. ASSUME NEW t \in Tasks, Restart(t) PROVE TypeOK'
  BY <1>12, BusyServesUser DEF Restart, Finish
<1>13. ASSUME Tick PROVE TypeOK'
  BY <1>13 DEF Tick
<1>14. CASE UNCHANGED vars
  BY <1>14 DEF vars
<1>15. QED
  BY <1>1, <1>2, <1>3, <1>4, <1>5, <1>6, <1>7, <1>8, <1>9, <1>10, <1>11, <1>12, <1>13, <1>14
     DEF Next, TaskStep

(* Type correctness of every reachable state. *)
THEOREM TypeCorrect == Spec => []TypeOK
<1>1. Init => TypeOK
  BY GuardAssumption DEF Init, TypeOK, Steps
<1>2. QED
  BY <1>1, TypeStep, PTL DEF Spec

----------------------------------------------------------------------------
(* The task that creates a counter is the one that owes it the window; the *)
(* debt is paid by EXPIRE, or the counter is gone.                         *)
LEMMA WindowStep == TypeOK /\ WindowInv /\ [Next]_vars => WindowInv'
<1> SUFFICES ASSUME TypeOK, WindowInv, [Next]_vars PROVE WindowInv'
  OBVIOUS
<1> USE GuardAssumption
    DEF WindowInv, ClosedByFault, CounterHasWindowOrFault, CounterHasWindow, WindowPending,
        TypeOK, Steps, redis, run
<1>1. ASSUME NEW t \in Tasks, NEW u \in Users, NEW ok \in BOOLEAN, Begin(t, u, ok) PROVE WindowInv'
  BY <1>1 DEF Begin
<1>2. ASSUME NEW t \in Tasks, CheckBan(t) PROVE WindowInv'
  BY <1>2, BusyServesUser DEF CheckBan, Goto, Finish
<1>3. ASSUME NEW t \in Tasks, Verify(t) PROVE WindowInv'
  BY <1>3, BusyServesUser DEF Verify, Goto, Finish
<1>4. ASSUME NEW t \in Tasks, Incr(t) PROVE WindowInv'
  BY <1>4, BusyServesUser DEF Incr, AfterIncr, Finish
<1>5. ASSUME NEW t \in Tasks, Expire(t) PROVE WindowInv'
  BY <1>5, BusyServesUser DEF Expire, AfterExpire, Continue, Goto, Finish
<1>6. ASSUME NEW t \in Tasks, SetBan(t) PROVE WindowInv'
  BY <1>6, BusyServesUser DEF SetBan, Continue, Goto, Finish
<1>7. ASSUME NEW t \in Tasks, ClearCounter(t) PROVE WindowInv'
  BY <1>7, BusyServesUser DEF ClearCounter, DeleteCounter, Finish
<1>8. ASSUME NEW t \in Tasks, ResetCounter(t) PROVE WindowInv'
  BY <1>8, BusyServesUser DEF ResetCounter, DeleteCounter, Goto
<1>9. ASSUME NEW t \in Tasks, SaveTokens(t) PROVE WindowInv'
  BY <1>9, BusyServesUser DEF SaveTokens, Finish
<1>10. ASSUME NEW t \in Tasks, Interrupt(t) PROVE WindowInv'
  BY <1>10, BusyServesUser DEF Interrupt, Finish
<1>11. ASSUME NEW t \in Tasks, CloseRedis(t) PROVE WindowInv'
  BY <1>11, BusyServesUser DEF CloseRedis
<1>12. ASSUME NEW t \in Tasks, Restart(t) PROVE WindowInv'
  BY <1>12, BusyServesUser DEF Restart, Finish
<1>13. ASSUME Tick PROVE WindowInv'
  BY <1>13 DEF Tick
<1>14. CASE UNCHANGED vars
  BY <1>14 DEF vars
<1>15. QED
  BY <1>1, <1>2, <1>3, <1>4, <1>5, <1>6, <1>7, <1>8, <1>9, <1>10, <1>11, <1>12, <1>13, <1>14
     DEF Next, TaskStep

(* Only a fault leaves a counter without a window. *)
THEOREM WindowSet == Spec => []CounterHasWindowOrFault
<1>1. Init => WindowInv
  BY DEF Init, WindowInv, ClosedByFault, CounterHasWindowOrFault, CounterHasWindow
<1>2. WindowInv => CounterHasWindowOrFault
  BY DEF WindowInv
<1>3. QED
  BY <1>1, <1>2, TypeCorrect, WindowStep, PTL DEF Spec

----------------------------------------------------------------------------
(* The race between the ban check and the counter. *)

LEMMA PastCheckFinite ==
  ASSUME NEW u \in Users
  PROVE  /\ IsFiniteSet(PastCheck(u))
         /\ Cardinality(PastCheck(u)) \in Nat
         /\ Cardinality(Tasks) \in Nat
<1>1. PastCheck(u) \subseteq Tasks
  BY DEF PastCheck
<1>2. QED
  BY <1>1, GuardAssumption, FS_Subset, FS_CardinalityType

LEMMA QuietStep ==
  ASSUME TypeOK, NEW u \in Users, LateSlack(u),
         PastCheck(u)' \subseteq PastCheck(u), ban'[u] = ban[u], late'[u] = late[u]
  PROVE  LateSlack(u)'
<1>1. Cardinality(PastCheck(u)') \in Nat /\ Cardinality(PastCheck(u)') <= Cardinality(PastCheck(u))
  BY PastCheckFinite, FS_Subset, FS_CardinalityType
<1>2. QED
  BY <1>1, PastCheckFinite DEF LateSlack, TypeOK

LEMMA CountingStep ==
  ASSUME NEW u \in Users, NEW t \in PastCheck(u), PastCheck(u)' = PastCheck(u) \ {t}
  PROVE  Cardinality(PastCheck(u)') = Cardinality(PastCheck(u)) - 1
BY PastCheckFinite, FS_RemoveElement

LEMMA LateStep == TypeOK /\ LateInv /\ [Next]_vars => LateInv'
<1> SUFFICES ASSUME TypeOK, LateInv, [Next]_vars, NEW v \in Users PROVE LateSlack(v)'
  BY DEF LateInv
<1>0. TypeOK /\ TypeOK' /\ LateSlack(v)
  BY TypeStep DEF LateInv
<1> USE GuardAssumption, <1>0 DEF TypeOK, redis, run
<1>1. ASSUME NEW t \in Tasks, NEW u \in Users, NEW ok \in BOOLEAN, Begin(t, u, ok)
      PROVE  LateSlack(v)'
  <2>1. PastCheck(v)' \subseteq PastCheck(v)
    BY <1>1 DEF Begin, PastCheck
  <2>2. QED
    BY <1>1, <2>1, QuietStep DEF Begin
<1>2. ASSUME NEW t \in Tasks, CheckBan(t) PROVE LateSlack(v)'
  <2>1. CASE ban[user[t]] > 0 \/ user[t] # v
    <3>1. PastCheck(v)' \subseteq PastCheck(v)
      BY <1>2, <2>1 DEF CheckBan, Goto, Finish, PastCheck
    <3>2. QED
      BY <1>2, <3>1, QuietStep DEF CheckBan
  <2>2. CASE ~(ban[v] > 0)
    BY <1>2, <2>2 DEF CheckBan, LateSlack
  <2>3. QED
    BY <2>1, <2>2
<1>3. ASSUME NEW t \in Tasks, Verify(t) PROVE LateSlack(v)'
  <2>1. PastCheck(v)' \subseteq PastCheck(v)
    BY <1>3 DEF Verify, Goto, Finish, PastCheck
  <2>2. ban'[v] = ban[v] /\ late'[v] = late[v]
    BY <1>3 DEF Verify, Goto, Finish
  <2>3. QED
    BY <2>1, <2>2, QuietStep
<1>4. ASSUME NEW t \in Tasks, Incr(t) PROVE LateSlack(v)'
  <2>1. CASE user[t] = v
    <3>1. t \in PastCheck(v) /\ PastCheck(v)' = PastCheck(v) \ {t}
      BY <1>4, <2>1 DEF Incr, AfterIncr, Finish, PastCheck
    <3>2. Cardinality(PastCheck(v)') = Cardinality(PastCheck(v)) - 1
      BY <3>1, CountingStep
    <3>3. ban'[v] = ban[v] /\ (ban[v] > 0 => late'[v] = late[v] + 1)
      BY <1>4, <2>1 DEF Incr
    <3>4. QED
      BY <3>2, <3>3, PastCheckFinite DEF LateSlack
  <2>2. CASE user[t] # v
    <3>1. PastCheck(v)' \subseteq PastCheck(v)
      BY <1>4, <2>2 DEF Incr, AfterIncr, Finish, PastCheck
    <3>2. ban'[v] = ban[v] /\ late'[v] = late[v]
      BY <1>4, <2>2, BusyServesUser DEF Incr
    <3>3. QED
      BY <3>1, <3>2, QuietStep
  <2>3. QED
    BY <2>1, <2>2
<1>5. ASSUME NEW t \in Tasks, Expire(t) PROVE LateSlack(v)'
  <2>1. PastCheck(v)' \subseteq PastCheck(v)
    BY <1>5 DEF Expire, AfterExpire, Continue, Goto, Finish, PastCheck
  <2>2. ban'[v] = ban[v] /\ late'[v] = late[v]
    BY <1>5 DEF Expire, AfterExpire, Continue, Goto, Finish
  <2>3. QED
    BY <2>1, <2>2, QuietStep
<1>6. ASSUME NEW t \in Tasks, SetBan(t) PROVE LateSlack(v)'
  <2>0. PastCheck(v)' \subseteq PastCheck(v)
    BY <1>6 DEF SetBan, Continue, Goto, Finish, PastCheck
  <2>1. CASE user[t] = v /\ ban[v] = 0
    <3>1. PastCheck(v)' \subseteq Tasks \ {t}
      BY <1>6 DEF SetBan, Continue, Goto, Finish, PastCheck
    <3>2. Cardinality(Tasks \ {t}) = Cardinality(Tasks) - 1 /\ IsFiniteSet(Tasks \ {t})
      BY FS_RemoveElement
    <3>3. Cardinality(PastCheck(v)') <= Cardinality(Tasks) - 1 /\ Cardinality(PastCheck(v)') \in Nat
      BY <3>1, <3>2, FS_Subset, FS_CardinalityType
    <3>4. late'[v] = 0
      BY <1>6, <2>1 DEF SetBan
    <3>5. QED
      BY <3>3, <3>4, PastCheckFinite DEF LateSlack
  <2>2. CASE ~(user[t] = v /\ ban[v] = 0)
    <3>1. late'[v] = late[v] /\ (ban'[v] > 0 => ban[v] > 0)
      BY <1>6, <2>2, BusyServesUser DEF SetBan
    <3>2. Cardinality(PastCheck(v)') \in Nat
          /\ Cardinality(PastCheck(v)') <= Cardinality(PastCheck(v))
      BY <2>0, PastCheckFinite, FS_Subset, FS_CardinalityType
    <3>3. QED
      BY <3>1, <3>2, PastCheckFinite DEF LateSlack
  <2>3. QED
    BY <2>1, <2>2
<1>7. ASSUME NEW t \in Tasks, ClearCounter(t) PROVE LateSlack(v)'
  <2>1. PastCheck(v)' \subseteq PastCheck(v)
    BY <1>7 DEF ClearCounter, DeleteCounter, Finish, PastCheck
  <2>2. ban'[v] = ban[v] /\ late'[v] = late[v]
    BY <1>7 DEF ClearCounter, DeleteCounter, Finish
  <2>3. QED
    BY <2>1, <2>2, QuietStep
<1>8. ASSUME NEW t \in Tasks, ResetCounter(t) PROVE LateSlack(v)'
  <2>1. PastCheck(v)' \subseteq PastCheck(v)
    BY <1>8 DEF ResetCounter, DeleteCounter, Goto, PastCheck
  <2>2. ban'[v] = ban[v] /\ late'[v] = late[v]
    BY <1>8 DEF ResetCounter, DeleteCounter, Goto
  <2>3. QED
    BY <2>1, <2>2, QuietStep
<1>9. ASSUME NEW t \in Tasks, SaveTokens(t) PROVE LateSlack(v)'
  <2>1. PastCheck(v)' \subseteq PastCheck(v)
    BY <1>9 DEF SaveTokens, Finish, PastCheck
  <2>2. ban'[v] = ban[v] /\ late'[v] = late[v]
    BY <1>9 DEF SaveTokens, Finish
  <2>3. QED
    BY <2>1, <2>2, QuietStep
<1>10. ASSUME NEW t \in Tasks, Interrupt(t) PROVE LateSlack(v)'
  <2>1. PastCheck(v)' \subseteq PastCheck(v)
    BY <1>10 DEF Interrupt, Finish, PastCheck
  <2>2. ban'[v] = ban[v] /\ late'[v] = late[v]
    BY <1>10 DEF Interrupt, Finish
  <2>3. QED
    BY <2>1, <2>2, QuietStep
<1>11. ASSUME NEW t \in Tasks, CloseRedis(t) PROVE LateSlack(v)'
  <2>1. PastCheck(v)' \subseteq PastCheck(v)
    BY <1>11 DEF CloseRedis, PastCheck
  <2>2. ban'[v] = ban[v] /\ late'[v] = late[v]
    BY <1>11 DEF CloseRedis
  <2>3. QED
    BY <2>1, <2>2, QuietStep
<1>12. ASSUME NEW t \in Tasks, Restart(t) PROVE LateSlack(v)'
  <2>1. PastCheck(v)' \subseteq PastCheck(v)
    BY <1>12 DEF Restart, Finish, PastCheck
  <2>2. ban'[v] = ban[v] /\ late'[v] = late[v]
    BY <1>12 DEF Restart, Finish
  <2>3. QED
    BY <2>1, <2>2, QuietStep
<1>13. ASSUME Tick PROVE LateSlack(v)'
  <2>1. PastCheck(v)' = PastCheck(v)
    BY <1>13 DEF Tick, PastCheck
  <2>2. ban'[v] > 0 => ban[v] > 0 /\ late'[v] = late[v]
    BY <1>13 DEF Tick
  <2>3. QED
    BY <2>1, <2>2 DEF LateSlack
<1>14. CASE UNCHANGED vars
  <2>1. PastCheck(v)' = PastCheck(v)
    BY <1>14 DEF vars, PastCheck
  <2>2. QED
    BY <1>14, <2>1, QuietStep DEF vars
<1>15. QED
  BY <1>1, <1>2, <1>3, <1>4, <1>5, <1>6, <1>7, <1>8, <1>9, <1>10, <1>11, <1>12, <1>13, <1>14
     DEF Next, TaskStep

(* During a ban at most one failure per other task is still counted. *)
THEOREM LateFailures == Spec => []LateFailuresBounded
<1>1. Init => LateInv
  BY DEF Init, LateInv, LateSlack
<1>2. TypeOK /\ LateInv => LateFailuresBounded
  BY PastCheckFinite DEF TypeOK, LateInv, LateSlack, LateFailuresBounded
<1>3. QED
  BY <1>1, <1>2, TypeCorrect, LateStep, PTL DEF Spec

----------------------------------------------------------------------------
(* The count after a ban.  A task that raises the ban goes on to delete    *)
(* the counter, and without a fault nothing keeps it from doing so.        *)

CleanInv == ClosedByFault /\ BanStartsCleanCount

LEMMA CleanStep == TypeOK /\ CleanInv /\ [Next]_vars => CleanInv'
<1> SUFFICES ASSUME TypeOK, CleanInv, [Next]_vars PROVE CleanInv'
  OBVIOUS
<1> USE GuardAssumption
    DEF CleanInv, ClosedByFault, BanStartsCleanCount, TypeOK, Steps, redis, run
<1>1. ASSUME NEW t \in Tasks, NEW u \in Users, NEW ok \in BOOLEAN, Begin(t, u, ok) PROVE CleanInv'
  BY <1>1 DEF Begin
<1>2. ASSUME NEW t \in Tasks, CheckBan(t) PROVE CleanInv'
  BY <1>2, BusyServesUser DEF CheckBan, Goto, Finish
<1>3. ASSUME NEW t \in Tasks, Verify(t) PROVE CleanInv'
  BY <1>3, BusyServesUser DEF Verify, Goto, Finish
<1>4. ASSUME NEW t \in Tasks, Incr(t) PROVE CleanInv'
  BY <1>4, BusyServesUser DEF Incr, AfterIncr, Finish
<1>5. ASSUME NEW t \in Tasks, Expire(t) PROVE CleanInv'
  BY <1>5, BusyServesUser DEF Expire, AfterExpire, Continue, Goto, Finish
<1>6. ASSUME NEW t \in Tasks, SetBan(t) PROVE CleanInv'
  BY <1>6, BusyServesUser DEF SetBan, Continue, Goto, Finish
<1>7. ASSUME NEW t \in Tasks, ClearCounter(t) PROVE CleanInv'
  BY <1>7, BusyServesUser DEF ClearCounter, DeleteCounter, Finish
<1>8. ASSUME NEW t \in Tasks, ResetCounter(t) PROVE CleanInv'
  BY <1>8, BusyServesUser DEF ResetCounter, DeleteCounter, Goto
<1>9. ASSUME NEW t \in Tasks, SaveTokens(t) PROVE CleanInv'
  BY <1>9, BusyServesUser DEF SaveTokens, Finish
<1>10. ASSUME NEW t \in Tasks, Interrupt(t) PROVE CleanInv'
  BY <1>10, BusyServesUser DEF Interrupt, Finish
<1>11. ASSUME NEW t \in Tasks, CloseRedis(t) PROVE CleanInv'
  BY <1>11, BusyServesUser DEF CloseRedis
<1>12. ASSUME NEW t \in Tasks, Restart(t) PROVE CleanInv'
  BY <1>12, BusyServesUser DEF Restart, Finish
<1>13. ASSUME Tick PROVE CleanInv'
  BY <1>13 DEF Tick
<1>14. CASE UNCHANGED vars
  BY <1>14 DEF vars
<1>15. QED
  BY <1>1, <1>2, <1>3, <1>4, <1>5, <1>6, <1>7, <1>8, <1>9, <1>10, <1>11, <1>12, <1>13, <1>14
     DEF Next, TaskStep

(* No failure from before a ban is counted after it. *)
THEOREM CleanCount == Spec => []BanStartsCleanCount
<1>1. Init => CleanInv
  BY DEF Init, CleanInv, ClosedByFault, BanStartsCleanCount
<1>2. CleanInv => BanStartsCleanCount
  BY DEF CleanInv
<1>3. QED
  BY <1>1, <1>2, TypeCorrect, CleanStep, PTL DEF Spec

----------------------------------------------------------------------------
(* The limit. *)

Closed == {t \in Tasks : ~connected[t]}

(* Tasks whose client was closed before the command they sent for u: the   *)
(* fault of closing it makes up for the ban they will not set.             *)
Doomed(u) ==
  {t \in Tasks : user[t] = u /\ ~connected[t] /\ pc[t] \in {"incr", "expire", "ban", "clear"}}

LimitSlack(u) ==
  attempts[u] + Cardinality(Doomed(u))
    <= (MaxAttempts - 1) + Cardinality(Closing(u)) + faults

ClosedPaid == Cardinality(Closed) <= faults

LimitInv == ClosedPaid /\ \A u \in Users : LimitSlack(u)

LEMMA CountsFinite ==
  ASSUME NEW u
  PROVE  /\ IsFiniteSet(Closed) /\ Cardinality(Closed) \in Nat
         /\ IsFiniteSet(Doomed(u)) /\ Cardinality(Doomed(u)) \in Nat
         /\ IsFiniteSet(Closing(u)) /\ Cardinality(Closing(u)) \in Nat
         /\ Cardinality(Doomed(u)) <= Cardinality(Closed)
<1>1. Closed \subseteq Tasks /\ Doomed(u) \subseteq Closed /\ Closing(u) \subseteq Tasks
  BY DEF Closed, Doomed, Closing
<1>2. QED
  BY <1>1, GuardAssumption, FS_Subset, FS_CardinalityType

LEMMA NextCountsFinite ==
  ASSUME NEW u
  PROVE  /\ IsFiniteSet(Closed') /\ Cardinality(Closed') \in Nat
         /\ IsFiniteSet(Doomed(u)') /\ Cardinality(Doomed(u)') \in Nat
         /\ IsFiniteSet(Closing(u)') /\ Cardinality(Closing(u)') \in Nat
         /\ Cardinality(Doomed(u)') <= Cardinality(Closed')
<1>1. Closed' \subseteq Tasks /\ Doomed(u)' \subseteq Closed' /\ Closing(u)' \subseteq Tasks
  BY DEF Closed, Doomed, Closing
<1>2. QED
  BY <1>1, GuardAssumption, FS_Subset, FS_CardinalityType

(* A counter below the limit needs no excuse. *)
LEMMA BelowLimit ==
  ASSUME TypeOK', ClosedPaid', NEW u \in Users, attempts'[u] <= MaxAttempts - 1
  PROVE  LimitSlack(u)'
BY NextCountsFinite, GuardAssumption DEF LimitSlack, ClosedPaid, TypeOK

(* A task may only stop to owe a ban when it was doomed. *)
LEMMA LimitQuiet ==
  ASSUME TypeOK, TypeOK', NEW u \in Users, LimitSlack(u), NEW t \in Tasks,
         attempts'[u] <= attempts[u], faults' = faults,
         \/ Closing(u)' = Closing(u) /\ Doomed(u)' = Doomed(u)
         \/ Closing(u)' = Closing(u) \ {t} /\ Doomed(u)' = Doomed(u) \ {t}
              /\ (t \in Closing(u) => t \in Doomed(u))
  PROVE  LimitSlack(u)'
<1>1. CASE Closing(u)' = Closing(u) /\ Doomed(u)' = Doomed(u)
  BY <1>1, CountsFinite, GuardAssumption DEF LimitSlack, TypeOK
<1>2. CASE /\ Closing(u)' = Closing(u) \ {t} /\ Doomed(u)' = Doomed(u) \ {t}
           /\ t \in Closing(u) => t \in Doomed(u)
  <2>1. Cardinality(Closing(u)') = IF t \in Closing(u) THEN Cardinality(Closing(u)) - 1
                                                        ELSE Cardinality(Closing(u))
    BY <1>2, CountsFinite, FS_RemoveElement
  <2>2. Cardinality(Doomed(u)') = IF t \in Doomed(u) THEN Cardinality(Doomed(u)) - 1
                                                      ELSE Cardinality(Doomed(u))
    BY <1>2, CountsFinite, FS_RemoveElement
  <2>3. QED
    BY <1>2, <2>1, <2>2, CountsFinite, GuardAssumption DEF LimitSlack, TypeOK
<1>3. QED
  BY <1>1, <1>2

(* A fault pays for one ban that is not set, or one client that is closed. *)
LEMMA LimitFault ==
  ASSUME TypeOK, TypeOK', NEW u \in Users, LimitSlack(u), NEW t \in Tasks,
         attempts'[u] = attempts[u], faults' = faults + 1,
         \/ Closing(u)' = Closing(u) \ {t} /\ Doomed(u)' = Doomed(u) \ {t}
         \/ Closing(u)' = Closing(u) /\ Doomed(u)' \subseteq Doomed(u) \cup {t}
  PROVE  LimitSlack(u)'
<1>1. CASE Closing(u)' = Closing(u) \ {t} /\ Doomed(u)' = Doomed(u) \ {t}
  <2>1. Cardinality(Closing(u)') = IF t \in Closing(u) THEN Cardinality(Closing(u)) - 1
                                                        ELSE Cardinality(Closing(u))
    BY <1>1, CountsFinite, FS_RemoveElement
  <2>2. Cardinality(Doomed(u)') <= Cardinality(Doomed(u))
    BY <1>1, CountsFinite, FS_Subset
  <2>3. QED
    BY <2>1, <2>2, CountsFinite, NextCountsFinite, GuardAssumption DEF LimitSlack, TypeOK
<1>2. CASE Closing(u)' = Closing(u) /\ Doomed(u)' \subseteq Doomed(u) \cup {t}
  <2>1. /\ IsFiniteSet(Doomed(u) \cup {t})
        /\ Cardinality(Doomed(u) \cup {t}) = IF t \in Doomed(u) THEN Cardinality(Doomed(u))
                                              ELSE Cardinality(Doomed(u)) + 1
    BY CountsFinite, FS_AddElement
  <2>2. Cardinality(Doomed(u)') <= Cardinality(Doomed(u) \cup {t})
    BY <1>2, <2>1, FS_Subset
  <2>3. QED
    BY <1>2, <2>1, <2>2, CountsFinite, NextCountsFinite, GuardAssumption DEF LimitSlack, TypeOK
<1>3. QED
  BY <1>1, <1>2

(* Each closed client stands for a fault of its own. *)
LEMMA ClosedStep == TypeOK /\ ClosedPaid /\ [Next]_vars => ClosedPaid'
<1> SUFFICES ASSUME TypeOK, ClosedPaid, [Next]_vars PROVE ClosedPaid'
  OBVIOUS
<1>1. CASE Closed' = Closed /\ (faults' = faults \/ faults' = faults + 1)
  <2>1. Cardinality(Closed') = Cardinality(Closed) /\ Cardinality(Closed) \in Nat
    BY <1>1, CountsFinite
  <2>2. faults \in Nat
    BY GuardAssumption DEF TypeOK
  <2>3. QED
    BY <1>1, <2>1, <2>2 DEF ClosedPaid
<1>2. ASSUME NEW t \in Tasks, CloseRedis(t) PROVE ClosedPaid'
  <2>1. Closed' = Closed \cup {t} /\ faults' = faults + 1
    BY <1>2 DEF CloseRedis, Closed, TypeOK
  <2>2. Cardinality(Closed') = IF t \in Closed THEN Cardinality(Closed)
                                              ELSE Cardinality(Closed) + 1
    BY <2>1, CountsFinite, FS_AddElement
  <2>3. faults \in Nat /\ Cardinality(Closed) \in Nat
    BY CountsFinite, GuardAssumption DEF TypeOK
  <2>4. QED
    BY <2>1, <2>2, <2>3 DEF ClosedPaid
<1>3. ASSUME NEW t \in Tasks, Restart(t) PROVE ClosedPaid'
  <2>1. Closed' \subseteq Closed /\ faults' = faults
    BY <1>3 DEF Restart, Closed, TypeOK
  <2>2. Cardinality(Closed') <= Cardinality(Closed)
    BY <2>1, CountsFinite, FS_Subset
  <2>3. faults \in Nat /\ Cardinality(Closed) \in Nat /\ Cardinality(Closed') \in Nat
    BY CountsFinite, NextCountsFinite, GuardAssumption DEF TypeOK
  <2>4. QED
    BY <2>1, <2>2, <2>3 DEF ClosedPaid
<1>4. ASSUME NEW t \in Tasks, TaskStep(t) \/ Interrupt(t)
      PROVE  connected' = connected /\ (faults' = faults \/ faults' = faults + 1)
  BY <1>4 DEF TaskStep, CheckBan, Verify, Incr, Expire, SetBan, ClearCounter, ResetCounter,
              SaveTokens, Interrupt
<1>5. CASE UNCHANGED <<connected, faults>>
  BY <1>1, <1>5 DEF Closed
<1>6. QED
  BY <1>1, <1>2, <1>3, <1>4, <1>5 DEF Next, Begin, Tick, vars, Closed

(* A task that finishes leaves both counts. *)
LEMMA FinishLeaves ==
  ASSUME TypeOK, NEW u \in Users, NEW t \in Tasks, Finish(t), connected' = connected
  PROVE  /\ Closing(u)' = Closing(u) \ {t}
         /\ Doomed(u)' = Doomed(u) \ {t}
BY DEF Finish, Closing, Doomed, TypeOK, Steps

LEMMA LimitStep == TypeOK /\ LimitInv /\ [Next]_vars => LimitInv'
<1> SUFFICES ASSUME TypeOK, LimitInv, [Next]_vars, NEW v \in Users PROVE LimitSlack(v)'
  BY ClosedStep DEF LimitInv
<1>0. TypeOK /\ TypeOK' /\ ClosedPaid' /\ LimitSlack(v)
  BY TypeStep, ClosedStep DEF LimitInv
<1>1. ASSUME NEW t \in Tasks, NEW u \in Users, NEW ok \in BOOLEAN, Begin(t, u, ok)
      PROVE  LimitSlack(v)'
  <2>1. Closing(v)' = Closing(v) /\ Doomed(v)' = Doomed(v)
    BY <1>0, <1>1 DEF Begin, Closing, Doomed, TypeOK, Steps
  <2>2. QED
    BY <1>0, <1>1, <2>1, LimitQuiet DEF Begin, redis, TypeOK
<1>2. ASSUME NEW t \in Tasks, CheckBan(t) PROVE LimitSlack(v)'
  <2>1. Closing(v)' = Closing(v) /\ Doomed(v)' = Doomed(v)
    BY <1>0, <1>2 DEF CheckBan, Goto, Finish, Closing, Doomed, TypeOK, Steps
  <2>2. attempts' = attempts /\ faults' = faults
    BY <1>2 DEF CheckBan, redis
  <2>3. QED
    BY <1>0, <2>1, <2>2, LimitQuiet DEF TypeOK
<1>3. ASSUME NEW t \in Tasks, Verify(t) PROVE LimitSlack(v)'
  <2>1. Closing(v)' = Closing(v) /\ Doomed(v)' = Doomed(v)
    BY <1>0, <1>3 DEF Verify, Goto, Finish, Closing, Doomed, TypeOK, Steps
  <2>2. attempts' = attempts /\ faults' = faults
    BY <1>3 DEF Verify, redis
  <2>3. QED
    BY <1>0, <2>1, <2>2, LimitQuiet DEF TypeOK
<1>4. ASSUME NEW t \in Tasks, Incr(t) PROVE LimitSlack(v)'
  <2>1. CASE user[t] = v /\ attempts[v] + 1 <= MaxAttempts - 1
    <3>1. attempts'[v] = attempts[v] + 1
      BY <1>0, <1>4, <2>1 DEF Incr, TypeOK
    <3>2. QED
      BY <1>0, <2>1, <3>1, BelowLimit
  <2>2. CASE user[t] = v /\ ~(attempts[v] + 1 <= MaxAttempts - 1) /\ connected[t]
    <3>1. attempts'[v] = attempts[v] + 1 /\ faults' = faults
      BY <1>0, <1>4, <2>2 DEF Incr, TypeOK
    <3>2. attempts[v] + 1 >= MaxAttempts
      BY <1>0, <2>2, GuardAssumption DEF TypeOK
    <3>3. AfterIncr(attempts[v] + 1) \in {"expire", "ban"}
      BY <3>2 DEF AfterIncr
    <3>4. /\ pc' = [pc EXCEPT ![t] = AfterIncr(attempts[v] + 1)]
          /\ seen' = [seen EXCEPT ![t] = attempts[v] + 1]
          /\ user' = user /\ connected' = connected
      BY <1>4, <2>2, <3>3 DEF Incr
    <3>5. Closing(v)' = Closing(v) \cup {t} /\ t \notin Closing(v)
      BY <1>0, <1>4, <2>2, <3>2, <3>3, <3>4 DEF Incr, Closing, TypeOK
    <3>6. Doomed(v)' = Doomed(v)
      BY <1>0, <1>4, <2>2, <3>4 DEF Incr, Doomed, TypeOK
    <3>7. Cardinality(Closing(v)') = Cardinality(Closing(v)) + 1
      BY <3>5, CountsFinite, FS_AddElement
    <3>8. QED
      BY <1>0, <3>1, <3>6, <3>7, CountsFinite, GuardAssumption DEF LimitSlack, TypeOK
  <2>3. CASE user[t] = v /\ ~connected[t]
    <3>1. Finish(t) /\ connected' = connected /\ faults' = faults
          /\ attempts'[v] = attempts[v] + 1
      BY <1>0, <1>4, <2>3 DEF Incr, TypeOK
    <3>2. t \in Doomed(v) /\ t \notin Closing(v)
      BY <1>4, <2>3 DEF Incr, Doomed, Closing
    <3>3. Closing(v)' = Closing(v) /\ Doomed(v)' = Doomed(v) \ {t}
      BY <1>0, <3>1, <3>2, FinishLeaves
    <3>4. Cardinality(Doomed(v)') = Cardinality(Doomed(v)) - 1
      BY <3>2, <3>3, CountsFinite, FS_RemoveElement
    <3>5. QED
      BY <1>0, <3>1, <3>3, <3>4, CountsFinite, GuardAssumption DEF LimitSlack, TypeOK
  <2>4. CASE user[t] # v
    <3>1. attempts'[v] = attempts[v] /\ faults' = faults
      BY <1>0, <1>4, <2>4, BusyServesUser DEF Incr, TypeOK
    <3>2. Closing(v)' = Closing(v) /\ Doomed(v)' = Doomed(v)
      BY <1>0, <1>4, <2>4 DEF Incr, Finish, Closing, Doomed, TypeOK
    <3>3. QED
      BY <1>0, <3>1, <3>2, LimitQuiet DEF TypeOK
  <2>5. QED
    BY <2>1, <2>2, <2>3, <2>4
<1>5. ASSUME NEW t \in Tasks, Expire(t) PROVE LimitSlack(v)'
  <2>1. attempts' = attempts /\ faults' = faults /\ connected' = connected
    BY <1>5 DEF Expire
  <2>2. CASE Finish(t)
    <3>1. t \in Closing(v) => t \in Doomed(v)
      BY <1>0, <1>5, <2>2 DEF Expire, AfterExpire, Continue, Goto, Finish, Closing, Doomed, TypeOK
    <3>2. QED
      BY <1>0, <2>1, <2>2, <3>1, FinishLeaves, LimitQuiet DEF TypeOK
  <2>3. CASE ~Finish(t)
    <3>1. Closing(v)' = Closing(v) /\ Doomed(v)' = Doomed(v)
      BY <1>0, <1>5, <2>3 DEF Expire, AfterExpire, Continue, Goto, Closing, Doomed, TypeOK
    <3>2. QED
      BY <1>0, <2>1, <3>1, LimitQuiet DEF TypeOK
  <2>4. QED
    BY <2>2, <2>3
<1>6. ASSUME NEW t \in Tasks, SetBan(t) PROVE LimitSlack(v)'
  <2>1. attempts' = attempts /\ faults' = faults /\ connected' = connected
    BY <1>6 DEF SetBan
  <2>2. CASE Finish(t)
    <3>1. t \in Closing(v) => t \in Doomed(v)
      BY <1>0, <1>6, <2>2 DEF SetBan, Continue, Goto, Finish, Closing, Doomed, TypeOK
    <3>2. QED
      BY <1>0, <2>1, <2>2, <3>1, FinishLeaves, LimitQuiet DEF TypeOK
  <2>3. CASE ~Finish(t)
    <3>1. Closing(v)' = Closing(v) /\ Doomed(v)' = Doomed(v)
      BY <1>0, <1>6, <2>3 DEF SetBan, Continue, Goto, Closing, Doomed, TypeOK
    <3>2. QED
      BY <1>0, <2>1, <3>1, LimitQuiet DEF TypeOK
  <2>4. QED
    BY <2>2, <2>3
<1>7. ASSUME NEW t \in Tasks, ClearCounter(t) PROVE LimitSlack(v)'
  <2>1. CASE user[t] = v
    <3>1. attempts'[v] = 0
      BY <1>0, <1>7, <2>1 DEF ClearCounter, DeleteCounter, TypeOK
    <3>2. QED
      BY <1>0, <3>1, BelowLimit, GuardAssumption
  <2>2. CASE user[t] # v
    <3>1. attempts'[v] = attempts[v] /\ faults' = faults /\ t \notin Closing(v)
      BY <1>0, <1>7, <2>2, BusyServesUser DEF ClearCounter, DeleteCounter, Closing, TypeOK
    <3>2. QED
      BY <1>0, <1>7, <3>1, FinishLeaves, LimitQuiet DEF ClearCounter, TypeOK
  <2>3. QED
    BY <2>1, <2>2
<1>8. ASSUME NEW t \in Tasks, ResetCounter(t) PROVE LimitSlack(v)'
  <2>1. Closing(v)' = Closing(v) /\ Doomed(v)' = Doomed(v)
    BY <1>0, <1>8 DEF ResetCounter, Goto, Closing, Doomed, TypeOK, Steps
  <2>2. attempts'[v] \in {attempts[v], 0} /\ faults' = faults
    BY <1>0, <1>8, BusyServesUser DEF ResetCounter, DeleteCounter, TypeOK
  <2>3. QED
    BY <1>0, <1>8, <2>1, <2>2, LimitQuiet DEF TypeOK
<1>9. ASSUME NEW t \in Tasks, SaveTokens(t) PROVE LimitSlack(v)'
  <2>1. attempts' = attempts /\ faults' = faults /\ connected' = connected /\ t \notin Closing(v)
    BY <1>9 DEF SaveTokens, redis, Closing
  <2>2. QED
    BY <1>0, <1>9, <2>1, FinishLeaves, LimitQuiet DEF SaveTokens, TypeOK
<1>10. ASSUME NEW t \in Tasks, Interrupt(t) PROVE LimitSlack(v)'
  BY <1>0, <1>10, FinishLeaves, LimitFault DEF Interrupt, redis
<1>11. ASSUME NEW t \in Tasks, CloseRedis(t) PROVE LimitSlack(v)'
  <2>1. Closing(v)' = Closing(v) /\ Doomed(v)' \subseteq Doomed(v) \cup {t}
    BY <1>0, <1>11 DEF CloseRedis, run, Closing, Doomed, TypeOK
  <2>2. QED
    BY <1>0, <1>11, <2>1, LimitFault DEF CloseRedis, redis
<1>12. ASSUME NEW t \in Tasks, Restart(t) PROVE LimitSlack(v)'
  <2>1. /\ Closing(v)' = Closing(v) \ {t} /\ Doomed(v)' = Doomed(v) \ {t}
        /\ t \in Closing(v) => t \in Doomed(v)
    BY <1>0, <1>12 DEF Restart, Finish, Closing, Doomed, TypeOK, Steps
  <2>2. attempts' = attempts /\ faults' = faults
    BY <1>12 DEF Restart, redis
  <2>3. QED
    BY <1>0, <2>1, <2>2, LimitQuiet DEF TypeOK
<1>13. ASSUME Tick PROVE LimitSlack(v)'
  <2>1. Closing(v)' = Closing(v) /\ Doomed(v)' = Doomed(v)
    BY <1>13 DEF Tick, run, Closing, Doomed
  <2>2. attempts'[v] \in {attempts[v], 0} /\ faults' = faults
    BY <1>13 DEF Tick
  <2>3. CASE attempts'[v] = 0
    BY <1>0, <2>3, BelowLimit, GuardAssumption
  <2>4. CASE attempts'[v] = attempts[v]
    BY <1>0, <2>1, <2>2, <2>4 DEF LimitSlack
  <2>5. QED
    BY <2>2, <2>3, <2>4
<1>14. CASE UNCHANGED vars
  <2>1. Closing(v)' = Closing(v) /\ Doomed(v)' = Doomed(v)
    BY <1>14 DEF vars, Closing, Doomed
  <2>2. QED
    BY <1>0, <1>14, <2>1 DEF vars, LimitSlack
<1>15. QED
  BY <1>1, <1>2, <1>3, <1>4, <1>5, <1>6, <1>7, <1>8, <1>9, <1>10, <1>11, <1>12, <1>13, <1>14
     DEF Next, TaskStep

(* The counter passes the limit only by attempts about to set the ban, or  *)
(* kept from it by a fault each.                                           *)
THEOREM LimitHolds == Spec => []LimitEnforced
<1>1. Init => LimitInv
  <2> SUFFICES ASSUME Init PROVE LimitInv
    OBVIOUS
  <2>1. Closed = {} /\ \A u \in Users : Doomed(u) = {} /\ Closing(u) = {}
    BY GuardAssumption DEF Init, Closed, Doomed, Closing
  <2>2. Cardinality({}) = 0
    BY FS_EmptySet
  <2>3. ClosedPaid
    BY <2>1, <2>2 DEF Init, ClosedPaid
  <2>4. ASSUME NEW u \in Users PROVE LimitSlack(u)
    <3>1. Cardinality(Doomed(u)) = 0 /\ Cardinality(Closing(u)) = 0
      BY <2>1, <2>2
    <3>2. attempts[u] = 0 /\ faults = 0
      BY DEF Init
    <3>3. QED
      BY <3>1, <3>2, GuardAssumption DEF LimitSlack
  <2>5. QED
    BY <2>3, <2>4 DEF LimitInv
<1>2. TypeOK /\ LimitInv => LimitEnforced
  BY CountsFinite, GuardAssumption DEF TypeOK, LimitInv, LimitSlack, LimitEnforced
<1>3. QED
  BY <1>1, <1>2, TypeCorrect, LimitStep, PTL DEF Spec

----------------------------------------------------------------------------
(* How long a ban can last *)

(* Tasks that may still set a ban of u, or set it again. *)
Arming(u) ==
  {t \in Tasks : user[t] = u
                 /\ (pc[t] \in {"incr", "expire", "ban"} \/ (pc[t] = "load" /\ connected[t]))}

(* The ticks a ban of u has left if each of these tasks sets it anew just  *)
(* before it ends.                                                         *)
BanRank(u) == ban[u] + LockTtl * Cardinality(Arming(u))

(* A ban may be prolonged, but only by attempts that had passed the check  *)
(* before it was set: no step adds to what it has left at most, new        *)
(* attempts do not either, and every tick takes from it.                   *)
BanRunsOut ==
  [][\A u \in Users :
       ban[u] > 0 => BanRank(u)' <= BanRank(u) /\ (Tick => BanRank(u)' < BanRank(u))]_vars

BanBounded == \A u \in Users : ban[u] > 0 => BanRank(u) <= LockTtl * Cardinality(Tasks)

LEMMA ArmingFinite ==
  ASSUME NEW u
  PROVE  /\ IsFiniteSet(Arming(u)) /\ Cardinality(Arming(u)) \in Nat
         /\ IsFiniteSet(Arming(u)') /\ Cardinality(Arming(u)') \in Nat
         /\ Cardinality(Tasks) \in Nat
<1>1. Arming(u) \subseteq Tasks /\ Arming(u)' \subseteq Tasks
  BY DEF Arming
<1>2. QED
  BY <1>1, GuardAssumption, FS_Subset, FS_CardinalityType

(* LockTtl times a smaller number. *)
LEMMA LockTtlTimes ==
  ASSUME NEW m \in Nat, NEW n \in Nat
  PROVE  /\ LockTtl * m \in Nat
         /\ m <= n => LockTtl * m <= LockTtl * n
         /\ m + 1 <= n => LockTtl * m + LockTtl <= LockTtl * n
<1>1. LockTtl \in Nat
  BY GuardAssumption
<1>2. LockTtl * m \in Nat /\ LockTtl * n \in Nat
  BY <1>1
<1>3. ASSUME NEW d \in Nat, n = m + d PROVE LockTtl * n = LockTtl * m + LockTtl * d
  BY <1>1, <1>3
<1>4. CASE m <= n
  <2>1. n - m \in Nat /\ n = m + (n - m)
    BY <1>4
  <2>2. LockTtl * n = LockTtl * m + LockTtl * (n - m)
    BY <1>3, <2>1
  <2>3. LockTtl * (n - m) >= 0
    BY <1>1, <2>1
  <2>4. LockTtl * (n - m) \in Nat
    BY <1>1, <2>1
  <2>5. m + 1 <= n => LockTtl * (n - m) >= LockTtl
    <3>1. SUFFICES ASSUME m + 1 <= n PROVE LockTtl * (n - m) >= LockTtl
      OBVIOUS
    <3>2. n - m - 1 \in Nat /\ n - m = (n - m - 1) + 1
      BY <3>1
    <3>3. LockTtl * (n - m) = LockTtl * (n - m - 1) + LockTtl
      BY <1>1, <3>2
    <3>4. LockTtl * (n - m - 1) >= 0
      BY <1>1, <3>2
    <3>5. QED
      BY <1>1, <3>2, <3>3, <3>4
  <2>6. QED
    BY <1>1, <1>2, <2>2, <2>3, <2>4, <2>5
<1>5. QED
  BY <1>2, <1>4

(* No task joins those that may set the ban, and the ban stays. *)
LEMMA RankKept ==
  ASSUME TypeOK, NEW u \in Users, Arming(u)' \subseteq Arming(u), ban'[u] <= ban[u], ban'[u] \in Nat
  PROVE  BanRank(u)' <= BanRank(u) /\ (ban'[u] < ban[u] => BanRank(u)' < BanRank(u))
<1>1. Cardinality(Arming(u)') <= Cardinality(Arming(u))
  BY ArmingFinite, FS_Subset
<1>2. /\ LockTtl * Cardinality(Arming(u)') <= LockTtl * Cardinality(Arming(u))
      /\ LockTtl * Cardinality(Arming(u)') \in Nat /\ LockTtl * Cardinality(Arming(u)) \in Nat
  BY <1>1, ArmingFinite, LockTtlTimes
<1>3. ban[u] \in Nat
  BY GuardAssumption DEF TypeOK
<1>4. QED
  BY <1>2, <1>3 DEF BanRank

(* The task that sets the ban is no longer one that may. *)
LEMMA RankSet ==
  ASSUME TypeOK, NEW u \in Users, NEW t \in Tasks, user[t] = u, SetBan(t)
  PROVE  /\ ban[u] > 0 => BanRank(u)' <= BanRank(u)
         /\ BanRank(u)' <= LockTtl * Cardinality(Tasks)
<1>1. t \in Arming(u) /\ Arming(u)' = Arming(u) \ {t} /\ ban'[u] = LockTtl
  BY GuardAssumption DEF SetBan, Continue, Goto, Finish, Arming, TypeOK
<1>2. Cardinality(Arming(u)') + 1 = Cardinality(Arming(u))
  <2>1. Cardinality(Arming(u) \ {t}) = Cardinality(Arming(u)) - 1
    BY <1>1, ArmingFinite, FS_RemoveElement
  <2>2. QED
    BY <1>1, <2>1, ArmingFinite
<1>3. Cardinality(Arming(u)) <= Cardinality(Tasks)
  <2>1. Arming(u) \subseteq Tasks
    BY DEF Arming
  <2>2. QED
    BY <2>1, GuardAssumption, FS_Subset
<1>4. /\ LockTtl * Cardinality(Arming(u)') + LockTtl <= LockTtl * Cardinality(Arming(u))
      /\ LockTtl * Cardinality(Arming(u)) <= LockTtl * Cardinality(Tasks)
      /\ LockTtl * Cardinality(Arming(u)') \in Nat /\ LockTtl * Cardinality(Arming(u)) \in Nat
      /\ LockTtl * Cardinality(Tasks) \in Nat
  BY <1>2, <1>3, ArmingFinite, LockTtlTimes
<1>5. LockTtl \in Nat /\ ban[u] \in Nat
  BY GuardAssumption DEF TypeOK
<1>6. QED
  BY <1>1, <1>4, <1>5 DEF BanRank

LEMMA RankStep ==
  ASSUME TypeOK, [Next]_vars, NEW v \in Users
  PROVE  \/ \E t \in Tasks : user[t] = v /\ SetBan(t)
         \/ ban[v] = 0 /\ ban'[v] = 0
         \/ Arming(v)' \subseteq Arming(v) /\ ban'[v] <= ban[v] /\ ban'[v] \in Nat
              /\ (Tick => ban'[v] < ban[v])
<1> DEFINE Kept == Arming(v)' \subseteq Arming(v) /\ ban'[v] = ban[v]
<1> USE GuardAssumption DEF TypeOK, redis, run
<1>0. ban[v] \in Nat
  OBVIOUS
<1>1. ASSUME NEW t \in Tasks, NEW u \in Users, NEW ok \in BOOLEAN, Begin(t, u, ok) PROVE Kept
  BY <1>1 DEF Begin, Arming
<1>2. ASSUME NEW t \in Tasks, CheckBan(t) PROVE Kept \/ (ban[v] = 0 /\ ban'[v] = 0)
  BY <1>2 DEF CheckBan, Goto, Finish, Arming
<1>3. ASSUME NEW t \in Tasks, Verify(t) PROVE Kept
  BY <1>3 DEF Verify, Goto, Finish, Arming
<1>4. ASSUME NEW t \in Tasks, Incr(t) PROVE Kept
  BY <1>4 DEF Incr, AfterIncr, Finish, Arming
<1>5. ASSUME NEW t \in Tasks, Expire(t) PROVE Kept
  BY <1>5 DEF Expire, AfterExpire, Continue, Goto, Finish, Arming
<1>6. ASSUME NEW t \in Tasks, SetBan(t), user[t] # v PROVE Kept
  BY <1>6 DEF SetBan, Continue, Goto, Finish, Arming
<1>7. ASSUME NEW t \in Tasks, ClearCounter(t) \/ ResetCounter(t) \/ SaveTokens(t) PROVE Kept
  BY <1>7 DEF ClearCounter, ResetCounter, SaveTokens, DeleteCounter, Goto, Finish, Arming
<1>8. ASSUME NEW t \in Tasks, Interrupt(t) \/ CloseRedis(t) \/ Restart(t) PROVE Kept
  BY <1>8 DEF Interrupt, CloseRedis, Restart, Finish, Arming
<1>9. CASE Tick
  BY <1>0, <1>9 DEF Tick, Arming
<1>10. CASE UNCHANGED vars
  BY <1>0, <1>10 DEF vars, Arming, Tick
<1>11. Tick => ban'[v] < ban[v] \/ (ban[v] = 0 /\ ban'[v] = 0)
  BY <1>0 DEF Tick
<1>12. QED
  BY <1>0, <1>1, <1>2, <1>3, <1>4, <1>5, <1>6, <1>7, <1>8, <1>9, <1>10, <1>11 DEF Next, TaskStep

(* A ban ends: whatever overlaps, repeats and fails, no step adds to the   *)
(* time it has left at most, and each tick takes from it.                  *)
THEOREM BansRunOut == Spec => BanRunsOut
<1>1. TypeOK /\ [Next]_vars
        => [\A u \in Users :
              ban[u] > 0 => BanRank(u)' <= BanRank(u) /\ (Tick => BanRank(u)' < BanRank(u))]_vars
  <2> SUFFICES ASSUME TypeOK, [Next]_vars, NEW u \in Users, ban[u] > 0
               PROVE  BanRank(u)' <= BanRank(u) /\ (Tick => BanRank(u)' < BanRank(u))
    OBVIOUS
  <2>1. CASE \E t \in Tasks : user[t] = u /\ SetBan(t)
    <3>1. ~Tick
      BY <2>1 DEF SetBan, Tick, Continue, Goto, Finish, run, TypeOK
    <3>2. QED
      BY <2>1, <3>1, RankSet
  <2>2. CASE Arming(u)' \subseteq Arming(u) /\ ban'[u] <= ban[u] /\ ban'[u] \in Nat
               /\ (Tick => ban'[u] < ban[u])
    BY <2>2, RankKept
  <2>3. QED
    BY <2>1, <2>2, RankStep
<1>2. QED
  BY <1>1, TypeCorrect, PTL DEF Spec, BanRunsOut

(* A ban, with all its prolongations, lasts at most as long as that many   *)
(* lock times as there are tasks.                                          *)
THEOREM BansBounded == Spec => []BanBounded
<1>1. Init => BanBounded
  BY DEF Init, BanBounded
<1>2. TypeOK /\ BanBounded /\ [Next]_vars => BanBounded'
  <2> SUFFICES ASSUME TypeOK, BanBounded, [Next]_vars, NEW u \in Users, ban'[u] > 0
               PROVE  BanRank(u)' <= LockTtl * Cardinality(Tasks)
    BY DEF BanBounded
  <2>1. CASE \E t \in Tasks : user[t] = u /\ SetBan(t)
    BY <2>1, RankSet
  <2>2. CASE Arming(u)' \subseteq Arming(u) /\ ban'[u] <= ban[u] /\ ban'[u] \in Nat
    <3>1. ban[u] > 0 /\ ban[u] \in Nat
      BY <2>2, GuardAssumption DEF TypeOK
    <3>2. BanRank(u)' <= BanRank(u) /\ BanRank(u) <= LockTtl * Cardinality(Tasks)
      BY <2>2, <3>1, RankKept DEF BanBounded
    <3>3. BanRank(u)' \in Nat /\ BanRank(u) \in Nat /\ LockTtl * Cardinality(Tasks) \in Nat
      BY <2>2, <3>1, ArmingFinite, LockTtlTimes DEF BanRank
    <3>4. QED
      BY <3>2, <3>3
  <2>3. QED
    BY <2>1, <2>2, RankStep
<1>3. QED
  BY <1>1, <1>2, TypeCorrect, PTL DEF Spec
=============================================================================
