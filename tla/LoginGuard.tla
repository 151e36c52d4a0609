----------------------------- MODULE LoginGuard -----------------------------
(***************************************************************************)
(* AuthService.issue_token (apps/auth_svc/services/auth_service.py): the   *)
(* brute-force guard in front of a login.  For each user Redis keeps a     *)
(* counter of failed attempts, which lives for a window, and a ban, which  *)
(* lives for the lock time.                                                *)
(*                                                                         *)
(* A task is one run of issue_token.  The listener's prefetch is 1, so the *)
(* runs that overlap belong to different auth_svc processes (or to a       *)
(* connection that was lost meanwhile), and each task has the Redis client *)
(* of its process.  Each action is one Redis or database command, together *)
(* with the code that runs until the next one is sent.                     *)
(***************************************************************************)
EXTENDS Naturals, FiniteSets

CONSTANTS
  Users,
  Tasks,
  NoUser,        \* "this task serves nobody"
  MaxAttempts,   \* BRUTEFORCE_MAX_ATTEMPTS
  WindowTtl,     \* BRUTEFORCE_WINDOW_TTL_SEC, in ticks
  LockTtl,       \* BRUTEFORCE_LOCK_TTL_SEC, in ticks
  MaxFaults      \* bound: runs cut short and Redis clients closed

ASSUME GuardAssumption ==
  /\ NoUser \notin Users
  /\ IsFiniteSet(Tasks)
  /\ MaxAttempts \in Nat \ {0}
  /\ WindowTtl \in Nat \ {0}
  /\ LockTtl \in Nat \ {0}
  /\ MaxFaults \in Nat

VARIABLES
  attempts,   \* [Users -> Nat]: the counter; 0 means that the key is absent
  window,     \* [Users -> 0..WindowTtl]: its remaining time; 0 means no TTL
  ban,        \* [Users -> 0..LockTtl]: remaining time of the ban; 0 means none
  pc,         \* [Tasks -> Steps]: the command a task waits for
  user,       \* [Tasks -> Users or NoUser]: the user name of its request
  good,       \* [Tasks -> BOOLEAN]: the request has the right password
  seen,       \* [Tasks -> Nat]: what INCR returned to the task
  connected,  \* [Tasks -> BOOLEAN]: CentralRedisClient.redis is not None
  late,       \* history, [Users -> Nat]: failures counted during this ban
  faults      \* faults so far, at most MaxFaults

redis == <<attempts, window, ban>>
run   == <<pc, user, good, seen>>
vars  == <<attempts, window, ban, pc, user, good, seen, connected, late, faults>>

Steps == {"idle", "check_ban", "load", "incr", "expire", "ban", "clear",
          "reset", "save"}

(* The run ends with a reply or an exception. *)
Finish(t) ==
  /\ pc'   = [pc EXCEPT ![t] = "idle"]
  /\ user' = [user EXCEPT ![t] = NoUser]
  /\ good' = [good EXCEPT ![t] = FALSE]
  /\ seen' = [seen EXCEPT ![t] = 0]

Goto(t, step) ==
  /\ pc' = [pc EXCEPT ![t] = step]
  /\ UNCHANGED <<user, good, seen>>

(* redis.delete(attempts_key); the TTL goes with the key. *)
DeleteCounter(u) ==
  /\ attempts' = [attempts EXCEPT ![u] = 0]
  /\ window'   = [window EXCEPT ![u] = 0]
  /\ UNCHANGED <<ban, late>>

----------------------------------------------------------------------------
(* A message with a non-empty user name and password reaches the service: a *)
(* new request or the redelivery of an old one.  On a closed client exists  *)
(* answers 0 without asking Redis.                                          *)
Begin(t, u, ok) ==
  /\ pc[t] = "idle"
  /\ pc'   = [pc EXCEPT ![t] = IF connected[t] THEN "check_ban" ELSE "load"]
  /\ user' = [user EXCEPT ![t] = u]
  /\ good' = [good EXCEPT ![t] = ok]
  /\ UNCHANGED <<redis, seen, connected, late, faults>>

(* Variant: the ban is looked up but the answer is not used. *)
BanIgnored(t) ==
  /\ pc[t] = "check_ban"
  /\ Goto(t, "load")
  /\ UNCHANGED <<redis, connected, late, faults>>

(* Variant: an attempt that meets the ban renews it. *)
BanRenewed(t) ==
  /\ pc[t] = "check_ban"
  /\ IF ban[user[t]] > 0 THEN Finish(t) ELSE Goto(t, "load")
  /\ ban' = [ban EXCEPT ![user[t]] = IF @ > 0 THEN LockTtl ELSE @]
  /\ UNCHANGED <<attempts, window, connected, late, faults>>

(* exists(ban_key): AUTH_FORBIDDEN for a banned user. *)
CheckBan(t) ==
  /\ pc[t] = "check_ban"
  /\ IF ban[user[t]] > 0 THEN Finish(t) ELSE Goto(t, "load")
  /\ UNCHANGED <<redis, connected, late, faults>>

(* The account is loaded and the password compared; a failure that finds   *)
(* the client closed is answered without being counted.                    *)
Verify(t) ==
  /\ pc[t] = "load"
  /\ \/ good[t] /\ Goto(t, IF connected[t] THEN "reset" ELSE "save")
     \/ ~good[t] /\ connected[t] /\ Goto(t, "incr")
     \/ ~good[t] /\ ~connected[t] /\ Finish(t)
  /\ UNCHANGED <<redis, connected, late, faults>>

(* Variant: the window is set on the failure after the first one. *)
AfterIncrOffByOne(n) ==
  IF n = 2 THEN "expire" ELSE IF n >= MaxAttempts THEN "ban" ELSE "idle"

(* Variant: the user is banned on the failure after the limit. *)
AfterIncrBanLate(n) ==
  IF n = 1 THEN "expire" ELSE IF n > MaxAttempts + 1 THEN "ban" ELSE "idle"

(* What a run does with the value INCR returned. *)
AfterIncr(n) ==
  IF n = 1 THEN "expire" ELSE IF n >= MaxAttempts THEN "ban" ELSE "idle"

AfterExpire(n) == IF n >= MaxAttempts THEN "ban" ELSE "idle"

(* The run goes on to the next command.  On a client that was closed       *)
(* meanwhile expire raises and set and delete do nothing: it is over.      *)
Continue(t, step) ==
  IF connected[t] /\ step # "idle" THEN Goto(t, step) ELSE Finish(t)

(* INCR attempts_key creates the key without a TTL or keeps the TTL it has. *)
Incr(t) ==
  LET u == user[t]
      n == attempts[u] + 1
      step == AfterIncr(n)
  IN /\ pc[t] = "incr"
     /\ attempts' = [attempts EXCEPT ![u] = n]
     /\ late' = [late EXCEPT ![u] = IF ban[u] > 0 THEN @ + 1 ELSE @]
     /\ IF connected[t] /\ step # "idle"
          THEN /\ pc' = [pc EXCEPT ![t] = step]
               /\ seen' = [seen EXCEPT ![t] = n]
               /\ UNCHANGED <<user, good>>
          ELSE Finish(t)
     /\ UNCHANGED <<window, ban, connected, faults>>

(* EXPIRE attempts_key; it has no effect when the key is gone. *)
Expire(t) ==
  LET u == user[t]
  IN /\ pc[t] = "expire"
     /\ window' = [window EXCEPT ![u] = IF attempts[u] > 0 THEN WindowTtl ELSE 0]
     /\ Continue(t, AfterExpire(seen[t]))
     /\ UNCHANGED <<attempts, ban, connected, late, faults>>

(* Variant: the counter is left to its window when the ban is set. *)
BanKeepsCounter(t) ==
  LET u == user[t]
  IN /\ pc[t] = "ban"
     /\ ban' = [ban EXCEPT ![u] = LockTtl]
     /\ late' = [late EXCEPT ![u] = IF ban[u] = 0 THEN 0 ELSE @]
     /\ Finish(t)
     /\ UNCHANGED <<attempts, window, connected, faults>>

(* SET ban_key with its expiry. *)
SetBan(t) ==
  LET u == user[t]
  IN /\ pc[t] = "ban"
     /\ ban' = [ban EXCEPT ![u] = LockTtl]
     /\ late' = [late EXCEPT ![u] = IF ban[u] = 0 THEN 0 ELSE @]
     /\ Continue(t, "clear")
     /\ UNCHANGED <<attempts, window, connected, faults>>

(* DELETE attempts_key after the ban, then AUTH_INVALID_CREDENTIALS. *)
ClearCounter(t) ==
  /\ pc[t] = "clear"
  /\ DeleteCounter(user[t])
  /\ Finish(t)
  /\ UNCHANGED <<connected, faults>>

(* DELETE attempts_key after the right password, before the tokens are saved. *)
ResetCounter(t) ==
  /\ pc[t] = "reset"
  /\ DeleteCounter(user[t])
  /\ Goto(t, "save")
  /\ UNCHANGED <<connected, faults>>

(* Refresh token and last login are written and committed. *)
SaveTokens(t) ==
  /\ pc[t] = "save"
  /\ Finish(t)
  /\ UNCHANGED <<redis, connected, late, faults>>

----------------------------------------------------------------------------
(* Redis drops keys whose time is up. *)
Tick ==
  /\ \E u \in Users : window[u] > 0 \/ ban[u] > 0
  /\ attempts' = [u \in Users |-> IF window[u] = 1 THEN 0 ELSE attempts[u]]
  /\ window' = [u \in Users |-> IF window[u] > 0 THEN window[u] - 1 ELSE 0]
  /\ ban' = [u \in Users |-> IF ban[u] > 0 THEN ban[u] - 1 ELSE 0]
  /\ late' = [u \in Users |-> IF ban[u] <= 1 THEN 0 ELSE late[u]]
  /\ UNCHANGED <<run, connected, faults>>

(* A Redis or database error, or a crash, before the pending command takes *)
(* effect; the message will be delivered again.                            *)
Interrupt(t) ==
  /\ pc[t] # "idle"
  /\ faults < MaxFaults
  /\ faults' = faults + 1
  /\ Finish(t)
  /\ UNCHANGED <<redis, connected, late>>

(* AuthContainer.shutdown closes the Redis client while the bus may still  *)
(* deliver; a command already sent takes its course.                       *)
CloseRedis(t) ==
  /\ connected[t]
  /\ faults < MaxFaults
  /\ faults' = faults + 1
  /\ connected' = [connected EXCEPT ![t] = FALSE]
  /\ UNCHANGED <<redis, run, late>>

(* The process that was shutting down is started again. *)
Restart(t) ==
  /\ ~connected[t]
  /\ connected' = [connected EXCEPT ![t] = TRUE]
  /\ Finish(t)
  /\ UNCHANGED <<redis, late, faults>>

----------------------------------------------------------------------------
Init ==
  /\ attempts  = [u \in Users |-> 0]
  /\ window    = [u \in Users |-> 0]
  /\ ban       = [u \in Users |-> 0]
  /\ pc        = [t \in Tasks |-> "idle"]
  /\ user      = [t \in Tasks |-> NoUser]
  /\ good      = [t \in Tasks |-> FALSE]
  /\ seen      = [t \in Tasks |-> 0]
  /\ connected = [t \in Tasks |-> TRUE]
  /\ late      = [u \in Users |-> 0]
  /\ faults    = 0

TaskStep(t) ==
  \/ CheckBan(t)
  \/ Verify(t)
  \/ Incr(t)
  \/ Expire(t)
  \/ SetBan(t)
  \/ ClearCounter(t)
  \/ ResetCounter(t)
  \/ SaveTokens(t)

Next ==
  \/ \E t \in Tasks, u \in Users, ok \in BOOLEAN : Begin(t, u, ok)
  \/ \E t \in Tasks : TaskStep(t)
  \/ \E t \in Tasks : Interrupt(t) \/ CloseRedis(t) \/ Restart(t)
  \/ Tick

Spec == Init /\ [][Next]_vars

(* Time passes, and a command that was sent is answered. *)
FairSpec == Spec /\ WF_vars(Tick) /\ \A t \in Tasks : WF_vars(TaskStep(t))

----------------------------------------------------------------------------
(* Properties *)

(* Every variable has its type, and a task serves a user while it runs. *)
TypeOK ==
  /\ attempts \in [Users -> Nat]
  /\ window \in [Users -> 0..WindowTtl]
  /\ ban \in [Users -> 0..LockTtl]
  /\ pc \in [Tasks -> Steps]
  /\ user \in [Tasks -> Users \cup {NoUser}]
  /\ good \in [Tasks -> BOOLEAN]
  /\ seen \in [Tasks -> Nat]
  /\ connected \in [Tasks -> BOOLEAN]
  /\ late \in [Users -> Nat]
  /\ faults \in 0..MaxFaults
  /\ \A t \in Tasks : pc[t] = "idle" <=> user[t] = NoUser

(* Some task is about to give the counter of u its window. *)
WindowPending(u) == \E t \in Tasks : user[t] = u /\ pc[t] = "expire"

(* A counter of failed attempts has its window, or will get it from a task *)
(* that is under way.  A crash between INCR and EXPIRE leaves one without. *)
CounterHasWindow ==
  \A u \in Users : attempts[u] > 0 /\ window[u] = 0 => WindowPending(u)

(* However the tasks interleave, only a fault can leave a counter without  *)
(* a window; with the window set, old failures are always forgotten.       *)
CounterHasWindowOrFault == CounterHasWindow \/ faults > 0

(* Tasks on their way from the failure that reached the limit to the end   *)
(* of the ban's bookkeeping.                                               *)
Closing(u) ==
  {t \in Tasks : user[t] = u /\ seen[t] >= MaxAttempts
                 /\ pc[t] \in {"expire", "ban", "clear"}}

(* The counter passes the limit only by attempts that are themselves about *)
(* to set the ban, or that a fault stopped from doing so: no interleaving  *)
(* of failures, bans and resets lets a user fail beyond the limit unseen.  *)
LimitEnforced ==
  \A u \in Users :
    attempts[u] <= (MaxAttempts - 1) + Cardinality(Closing(u)) + faults

(* The ban is checked before the password and the failure counted after    *)
(* it.  That race lets through at most the requests already past the check *)
(* when the ban was set: one per other task.                               *)
LateFailuresBounded ==
  \A u \in Users : ban[u] > 0 => late[u] + 1 <= Cardinality(Tasks)

(* A ban starts a clean count: once its bookkeeping is over, the counter   *)
(* holds no failure from before the ban, so the first mistake after it     *)
(* does not ban the user again.                                            *)
BanStartsCleanCount ==
  \A u \in Users :
    ban[u] > 0 /\ faults = 0
      /\ ~(\E t \in Tasks : user[t] = u /\ pc[t] \in {"ban", "clear"})
    => attempts[u] <= late[u]

(* A ban ends, however often the banned user tries again. *)
BanLapses == \A u \in Users : ban[u] > 0 ~> ban[u] = 0

(* Failures are forgotten in the end, unless a fault cost them their window. *)
CounterLapses == \A u \in Users : attempts[u] > 0 ~> attempts[u] = 0 \/ faults > 0
=============================================================================
