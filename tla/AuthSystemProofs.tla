------------------------- MODULE AuthSystemProofs -------------------------
(***************************************************************************)
(* Safety of AuthSystem for every number of requests, runs and faults, and *)
(* for both values of AccountLoads: type correctness, the contract of the  *)
(* gateway, what may end a session, how often a request takes effect, and  *)
(* the specifications the system shares with its components: SessionTable, *)
(* AccountRegistry and AtLeastOnce; and what AccountLoads = FALSE costs.   *)
(***************************************************************************)
EXTENDS AuthSystem, FiniteSetTheorems, TLAPS

(* A reply or verdict says what happened to q. *)
Truth(q, code) ==
  /\ code = "ok" => effects[q] > 0
  /\ code \in Refusals => effects[q] = 0 \/ q \in repeated
  /\ code = "common.internal_error" => route[q] = "register"

Issued(p) ==
  \/ p[1] = Earlier
  \/ p[1] \in Requests /\ effects[p[1]] > 0 /\ route[p[1]] \in {"login", "refresh"}

(* The tokens on their way with it are good for something. *)
Delivers(q, code, p) ==
  /\ p # NoPair => Issued(p) /\ p \in active \cup held
  /\ code = "ok" /\ route[q] = "refresh" => p # NoPair /\ p[1] = q

(* A run that is about to take effect, and one that is about to answer. *)
RunsRight ==
  \A r \in Runs :
    /\ pc[r] = "idle" => grant[r] = NoPair
    /\ pc[r] = "effect" =>
         /\ verdict[r] = "ok" /\ grant[r] = NoPair
         /\ effects[job[r]] = 0 \/ job[r] \in repeated
         /\ route[job[r]] = "login" => owner # Nobody
    /\ pc[r] = "reply" => Truth(job[r], verdict[r]) /\ Delivers(job[r], verdict[r], grant[r])

(* Two runs of one request, or one after it was handled, are a repetition. *)
RunsApart ==
  /\ \A r, s \in Runs : r # s /\ job[r] = job[s] /\ job[r] # Nobody => job[r] \in repeated
  /\ \A r \in Runs : job[r] \in handled => job[r] \in repeated

RepliesRight ==
  \A q \in Requests : \A m \in replies[q] :
    q \in handled /\ Truth(q, m.code) /\ Delivers(q, m.code, m.grant)

(* What a client was told, and what it knows nothing of. *)
StatusRight ==
  \A q \in Requests :
    /\ route[q] = "none" => status[q] = 0 /\ q \notin submitted /\ pair[q] = NoPair
    /\ q \notin submitted => effects[q] = 0
    /\ Told(q) = "refused" => q \in handled /\ (effects[q] = 0 \/ q \in repeated)
    /\ q \in submitted \ handled =>
         status[q] = 0 \/ status[q] = StatusOf(route[q], "rpc.timeout")

PairsRight ==
  /\ \A p \in held \cup active : Issued(p)
  /\ \A q \in Requests :
       /\ route[q] \in TokenRoutes => pair[q] \in held
       /\ route[q] \in {"login", "register"} => pair[q] = NoPair

SystemInv == TypeOK /\ RunsRight /\ RunsApart /\ RepliesRight /\ StatusRight /\ PairsRight

----------------------------------------------------------------------------
(* What StatusOf makes of the codes of the services. *)
LEMMA StatusTells ==
  ASSUME NEW r \in Routes, NEW code \in Codes
  PROVE  /\ StatusOf(r, code) \in Statuses \ {0}
         /\ StatusOf(r, code) = 200 /\ r # "logout" => code = "ok"
         /\ StatusOf(r, code) \in {401, 403, 409} /\ r # "validate" => code \in Refusals
<1>1. get_http_status(code) \in Statuses \ {0, 200}
  BY DEF get_http_status, Statuses, Codes, Refusals
<1>2. get_http_status(code) \in {401, 403, 409} /\ code # "ok" => code \in Refusals
  BY DEF get_http_status, Codes, Refusals
<1>3. QED
  BY <1>1, <1>2 DEF StatusOf, login, register, validate_token, refresh, logout, Routes, Statuses

(* An unanswered call ends in a status that promises nothing. *)
LEMMA TimeoutTells ==
  ASSUME NEW r \in Routes
  PROVE  /\ StatusOf(r, "rpc.timeout") \in Statuses \ {0}
         /\ StatusOf(r, "rpc.timeout") = 200 => r = "logout"
         /\ StatusOf(r, "rpc.timeout") \in {401, 403, 409} => r = "validate"
         /\ r = "refresh" => StatusOf(r, "rpc.timeout") = 504
<1>1. get_http_status("rpc.timeout") = 504
  BY DEF get_http_status
<1>2. QED
  BY <1>1 DEF StatusOf, login, register, validate_token, refresh, logout, Routes, Statuses

LEMMA VerdictType ==
  ASSUME NEW q \in Requests, NEW x, route[q] \in Routes,
         NEW v \in HandlerOf(RoutingKey[route[q]], q, x)
  PROVE  v \in Codes \ {"common.internal_error"}
<1>1. RoutingKey[route[q]] \in {"issue_token", "register", "validate_token", "refresh_token", "logout"}
  BY DEF Routes, RoutingKey
<1>2. QED
  BY <1>1 DEF HandlerOf, IssueToken, Register, ValidateToken, RefreshToken, Logout, Codes, Refusals

----------------------------------------------------------------------------
(* Type correctness *)

LEMMA TypeStep == SystemAssumption /\ TypeOK /\ [Next]_vars => TypeOK'
<1> SUFFICES ASSUME SystemAssumption, TypeOK, [Next]_vars PROVE TypeOK'
  OBVIOUS
<1> USE DEF TypeOK
<1>1. ASSUME NEW q \in Requests, NEW r \in Routes, NEW w \in {"right", "wrong", "none"},
             NEW p \in held \cup {NoPair}, Ask(q, r, w, p)
      PROVE  TypeOK'
  BY <1>1 DEF Ask, Open, Queue!Submit, run, rows, history
<1>2. ASSUME NEW q \in Requests, NEW r \in Routes, NEW w \in {"right", "wrong", "none"},
             NEW p \in held \cup {NoPair}, AskFails(q, r, w, p)
      PROVE  TypeOK'
  <2>1. faults' \in 0..MaxFaults
    BY <1>2 DEF AskFails, Fault, SystemAssumption
  <2>2. status' \in [Requests -> Statuses]
    BY <1>2, TimeoutTells DEF AskFails, Statuses
  <2>3. QED
    BY <1>2, <2>1, <2>2 DEF AskFails, Open, queue, run, rows, history
<1>3. ASSUME NEW q \in Requests, Answer(q)
      PROVE  TypeOK'
  <2>1. PICK m \in replies[q] :
          /\ status' = [status EXCEPT ![q] = StatusOf(route[q], m.code)]
          /\ held' = held \cup ({m.grant} \ {NoPair})
    BY <1>3 DEF Answer
  <2>2. m.code \in Codes /\ m.grant \in Pairs \cup {NoPair}
    BY <2>1
  <2>3. StatusOf(route[q], m.code) \in Statuses
    BY <1>3, <2>2, StatusTells DEF Answer, Waiting
  <2>4. QED
    BY <1>3, <2>1, <2>2, <2>3 DEF Answer, queue, run, rows, history
<1>4. ASSUME NEW q \in Requests, TimesOut(q)
      PROVE  TypeOK'
  <2>1. StatusOf(route[q], "rpc.timeout") \in Statuses
    BY <1>4, TimeoutTells DEF TimesOut, Waiting
  <2>2. QED
    BY <1>4, <2>1 DEF TimesOut, queue, run, rows, history
<1>5. ASSUME NEW q \in Requests, DeadLetter(q) \/ Settle(q)
      PROVE  TypeOK'
  BY <1>5 DEF DeadLetter, Settle, Queue!DeadLetter, Queue!Settle, client, run, rows, history
<1>6. ASSUME NEW r \in Runs, NEW q \in Requests, Take(r, q) \/ TakeAgain(r, q)
      PROVE  TypeOK'
  <2>1. Begin(r, q) /\ pending' = pending
    BY <1>6 DEF Take, TakeAgain
  <2>2. route[q] \in Routes
    BY <2>1 DEF Begin
  <2>3. PICK v \in HandlerOf(RoutingKey[route[q]], q, expired') :
          /\ verdict' = [verdict EXCEPT ![r] = v]
          /\ pc' = [pc EXCEPT ![r] = IF v = "ok" THEN "effect" ELSE "reply"]
    BY <2>1 DEF Begin
  <2>4. v \in Codes
    BY <2>2, <2>3, VerdictType
  <2>5. expired' \subseteq TokenKinds \X (Pairs \cup {NoPair})
    BY <2>1 DEF Begin, Clock, Token, TokenKinds
  <2>6. repeated' \subseteq Requests /\ faults' \in 0..MaxFaults
    BY <1>6 DEF Take, TakeAgain, Fault, SystemAssumption
  <2>7. QED
    BY <2>1, <2>2, <2>3, <2>4, <2>5, <2>6 DEF Begin, client
<1>7. ASSUME NEW r \in Runs, Effect(r)
      PROVE  TypeOK'
  <2> DEFINE q == job[r]
  <2>1. q \in submitted /\ q \in Requests
    BY <1>7 DEF Effect
  <2>2. NewPair(q) \in Pairs
    BY <2>1 DEF NewPair, Pairs
  <2>3. CASE CommitLogin(r, q) \/ CommitRegister(r, q) \/ CommitRefresh(r, q)
               \/ CommitLogout(r, q) \/ Validated(r, q)
    <3>1. PICK p \in Pairs \cup {NoPair} : Done(r, q, p)
      BY <2>2, <2>3 DEF CommitLogin, CommitRegister, CommitRefresh, CommitLogout, Validated
    <3>2. active' \subseteq Pairs /\ owner' \in Requests \cup {Earlier, Nobody}
      BY <2>1, <2>2, <2>3 DEF CommitLogin, CommitRegister, CommitRefresh, CommitLogout, Validated
    <3>3. QED
      BY <1>7, <2>1, <3>1, <3>2 DEF Effect, Done, client, queue
  <2>4. CASE RegisterLoses(r, q)
    BY <1>7, <2>1, <2>4 DEF Effect, RegisterLoses, client, queue, rows, history, Codes
  <2>5. CASE RefreshRaises(r, q)
    BY <1>7, <2>1, <2>5 DEF Effect, RefreshRaises, Finish, client, rows, history, Codes, Refusals
  <2>6. QED
    BY <1>7, <2>3, <2>4, <2>5 DEF Effect
<1>8. ASSUME NEW r \in Runs, Reply(r)
      PROVE  TypeOK'
  BY <1>8 DEF Reply, Queue!Handle, Finish, rows, history, Codes, Refusals
<1>9. ASSUME NEW r \in Runs, RegisterError(r) \/ Interrupt(r)
      PROVE  TypeOK'
  <2>1. faults' \in 0..MaxFaults
    BY <1>9 DEF RegisterError, Interrupt, Fault, SystemAssumption
  <2>2. CASE RegisterError(r)
    BY <2>1, <2>2 DEF RegisterError, client, queue, rows, history, Codes
  <2>3. CASE Interrupt(r)
    BY <2>1, <2>3 DEF Interrupt, Finish, client, rows, history, Codes, Refusals
  <2>4. QED
    BY <1>9, <2>2, <2>3
<1>10. ASSUME UNCHANGED vars
      PROVE  TypeOK'
  BY <1>10 DEF vars, client, queue, run, rows, history
<1>11. QED
  BY <1>1, <1>2, <1>3, <1>4, <1>5, <1>6, <1>7, <1>8, <1>9, <1>10 DEF Next, RunStep

THEOREM TypeCorrect == Spec => []TypeOK
<1>1. Init => TypeOK
  BY SystemAssumption
  DEF Init, TypeOK, Queue!Init, Pairs, NoPair, Statuses, Codes, Refusals
<1>2. QED
  BY <1>1, TypeStep, SystemAssumption, PTL DEF Spec

----------------------------------------------------------------------------
(* The invariant, action by action *)

LEMMA InvAsk ==
  ASSUME SystemInv, NEW q \in Requests, NEW r \in Routes, NEW w, NEW p \in held \cup {NoPair},
         Ask(q, r, w, p) \/ AskFails(q, r, w, p)
  PROVE  RunsRight' /\ RunsApart' /\ RepliesRight' /\ StatusRight' /\ PairsRight'
<1> USE DEF SystemInv
<1>1. /\ route[q] = "none" /\ Open(q, r, w, p) /\ q \notin submitted /\ effects[q] = 0
      /\ UNCHANGED <<replies, held, run, rows, history, handled>>
      /\ submitted \subseteq submitted' /\ submitted' \subseteq submitted \cup {q}
      /\ q \in submitted' => UNCHANGED status
  BY DEF Ask, AskFails, Open, Queue!Submit, StatusRight, queue, TypeOK
<1>2. route' = [route EXCEPT ![q] = r] /\ pair' = [pair EXCEPT ![q] = p]
  BY <1>1 DEF Open
<1>3. \A x : Issued(x) => Issued(x)'
  BY <1>1, <1>2 DEF Issued, history, TypeOK
<1>4. \A x \in submitted : \A c, g : /\ Truth(x, c) => Truth(x, c)'
                                     /\ Delivers(x, c, g) => Delivers(x, c, g)'
  BY <1>1, <1>2, <1>3 DEF Truth, Delivers, history, rows, TypeOK
<1>5. RunsRight'
  <2>1. UNCHANGED <<pc, job, verdict, grant, owner, effects, repeated>>
    BY <1>1 DEF run, rows, history
  <2>2. \A s \in Runs : pc[s] # "idle" => job[s] \in submitted /\ route'[job[s]] = route[job[s]]
    BY <1>1, <1>2 DEF TypeOK
  <2>3. ASSUME NEW s \in Runs, pc[s] = "reply"
        PROVE  Truth(job[s], verdict[s])' /\ Delivers(job[s], verdict[s], grant[s])'
    BY <1>4, <2>1, <2>2, <2>3 DEF RunsRight
  <2>4. QED
    BY <2>1, <2>2, <2>3 DEF RunsRight
<1>6. RunsApart'
  BY <1>1 DEF RunsApart, run, history
<1>7. RepliesRight'
  <2>1. UNCHANGED <<replies, handled>> /\ handled \subseteq submitted
    BY <1>1 DEF TypeOK
  <2>2. QED
    BY <1>4, <2>1 DEF RepliesRight
<1>8. StatusRight'
  <2>1. PICK st \in Statuses :
          status' = [status EXCEPT ![q] = st] /\ st \in {0, 500, StatusOf(r, "rpc.timeout")}
    <3>1. CASE Ask(q, r, w, p)
      <4>1. status[q] = 0 /\ status' = status
        BY <1>1, <3>1 DEF StatusRight, Ask
      <4>2. status' = [status EXCEPT ![q] = 0]
        BY <4>1 DEF TypeOK
      <4>3. QED
        BY <4>2 DEF Statuses
    <3>2. CASE AskFails(q, r, w, p)
      <4>1. StatusOf(r, "rpc.timeout") \in Statuses
        BY TimeoutTells
      <4>2. PICK st \in {500, StatusOf(r, "rpc.timeout")} : status' = [status EXCEPT ![q] = st]
        BY <3>2 DEF AskFails
      <4>3. st \in Statuses
        BY <4>1 DEF Statuses
      <4>4. QED
        BY <4>2, <4>3
    <3>3. QED
      BY <3>1, <3>2
  <2>2. QED
    BY <1>1, <1>2, <2>1, TimeoutTells DEF StatusRight, Told, history, TypeOK, Routes
<1>9. PairsRight'
  BY <1>1, <1>2, <1>3 DEF PairsRight, Open, Presents, rows, Routes, TokenRoutes, TypeOK
<1>10. QED
  BY <1>5, <1>6, <1>7, <1>8, <1>9

LEMMA InvAnswer ==
  ASSUME SystemInv, NEW q \in Requests, Answer(q)
  PROVE  RunsRight' /\ RunsApart' /\ RepliesRight' /\ StatusRight' /\ PairsRight'
<1> USE DEF SystemInv
<1>1. PICK m \in replies[q] :
        /\ status' = [status EXCEPT ![q] = StatusOf(route[q], m.code)]
        /\ held' = held \cup ({m.grant} \ {NoPair})
  BY DEF Answer
<1>2. /\ q \in submitted /\ route[q] \in Routes /\ q \in handled
      /\ m.code \in Codes /\ Truth(q, m.code) /\ Delivers(q, m.code, m.grant)
  BY <1>1 DEF Answer, Waiting, TypeOK, RepliesRight
<1>3. UNCHANGED <<route, pair, queue, run, rows, history>> /\ held \subseteq held'
  BY <1>1 DEF Answer
<1>4. \A x, c, g : /\ Truth(x, c) => Truth(x, c)'
                   /\ Delivers(x, c, g) => Delivers(x, c, g)'
                   /\ Issued(g) => Issued(g)'
  BY <1>3 DEF Truth, Delivers, Issued, history, rows
<1>5. RunsRight'
  BY <1>3, <1>4 DEF RunsRight, run, rows, history
<1>6. RunsApart' /\ RepliesRight'
  BY <1>3, <1>4 DEF RunsApart, RepliesRight, Answer, run, queue, history, TypeOK
<1>7. StatusRight'
  BY <1>1, <1>2, <1>3, StatusTells DEF StatusRight, Told, Truth, history, queue, TypeOK, Routes
<1>8. PairsRight'
  BY <1>1, <1>2, <1>3, <1>4 DEF PairsRight, Delivers, rows
<1>9. QED
  BY <1>5, <1>6, <1>7, <1>8

LEMMA InvTimesOut ==
  ASSUME SystemInv, NEW q \in Requests, TimesOut(q)
  PROVE  RunsRight' /\ RunsApart' /\ RepliesRight' /\ StatusRight' /\ PairsRight'
<1> USE DEF SystemInv
<1>1. UNCHANGED <<route, pair, held, queue, run, rows, history>> /\ q \in submitted /\ route[q] \in Routes
  BY DEF TimesOut, Waiting, TypeOK
<1>2. \A x, c, g : /\ Truth(x, c) => Truth(x, c)'
                   /\ Delivers(x, c, g) => Delivers(x, c, g)'
                   /\ Issued(g) => Issued(g)'
  BY <1>1 DEF Truth, Delivers, Issued, history, rows
<1>3. RunsRight'
  BY <1>1, <1>2 DEF RunsRight, run, rows, history
<1>4. RunsApart' /\ RepliesRight'
  BY <1>1, <1>2 DEF RunsApart, RepliesRight, TimesOut, run, queue, history, TypeOK
<1>5. StatusRight'
  BY <1>1, TimeoutTells DEF StatusRight, Told, TimesOut, history, queue, TypeOK, Routes
<1>6. PairsRight'
  BY <1>1, <1>2 DEF PairsRight, rows
<1>7. QED
  BY <1>3, <1>4, <1>5, <1>6

LEMMA InvQueue ==
  ASSUME SystemInv, NEW q \in Requests, DeadLetter(q) \/ Settle(q)
  PROVE  RunsRight' /\ RunsApart' /\ RepliesRight' /\ StatusRight' /\ PairsRight'
<1>1. UNCHANGED <<client, submitted, handled, run, rows, history>>
  BY DEF DeadLetter, Settle, Queue!DeadLetter, Queue!Settle
<1>2. QED
  BY <1>1 DEF SystemInv, RunsRight, RunsApart, RepliesRight, StatusRight, PairsRight, Truth,
    Delivers, Issued, Told, client, run, rows, history

LEMMA InvBegin ==
  ASSUME SystemInv, NEW r \in Runs, NEW q \in Requests, Take(r, q) \/ TakeAgain(r, q)
  PROVE  RunsRight' /\ RunsApart' /\ RepliesRight' /\ StatusRight' /\ PairsRight'
<1> USE DEF SystemInv
<1>1. /\ Begin(r, q) /\ repeated \subseteq repeated' /\ repeated' \subseteq repeated \cup {q}
      /\ q \notin repeated' => effects[q] = 0 /\ Serving(q) = {} /\ q \notin handled
  BY DEF Take, TakeAgain, TypeOK
<1>2. UNCHANGED <<client, grant, submitted, handled, owner, active, effects>> /\ q \in submitted
  BY <1>1 DEF Begin, TypeOK
<1>3. PICK v \in HandlerOf(RoutingKey[route[q]], q, expired') :
        /\ verdict' = [verdict EXCEPT ![r] = v]
        /\ pc' = [pc EXCEPT ![r] = IF v = "ok" THEN "effect" ELSE "reply"]
  BY <1>1 DEF Begin
<1>4. v \in Codes \ {"common.internal_error"} /\ route[q] \in Routes
  BY <1>2, <1>3, VerdictType DEF TypeOK
<1>5. pc[r] = "idle" /\ job' = [job EXCEPT ![r] = q]
  BY <1>1 DEF Begin, FirstIdle, Idle
<1>6. \A x, c, g : /\ Truth(x, c) => Truth(x, c)'
                   /\ Delivers(x, c, g) => Delivers(x, c, g)'
                   /\ Issued(g) => Issued(g)'
  BY <1>1, <1>2 DEF Truth, Delivers, Issued, client
<1>7. RunsRight'
  <2>1. route[q] = "login" /\ v = "ok" => owner # Nobody
    BY <1>3 DEF HandlerOf, RoutingKey, IssueToken
  <2>2. grant[r] = NoPair /\ grant' = grant
    BY <1>2, <1>5 DEF RunsRight
  <2>3. v # "ok" => Truth(q, v)' /\ Delivers(q, v, NoPair)'
    BY <1>1, <1>2, <1>4 DEF Truth, Delivers, Codes, TypeOK
  <2>4. v = "ok" => effects'[q] = 0 \/ q \in repeated'
    BY <1>1, <1>2
  <2>5. ASSUME NEW s \in Runs, s # r
        PROVE  pc'[s] = pc[s] /\ job'[s] = job[s] /\ verdict'[s] = verdict[s]
    BY <1>3, <1>5, <2>5 DEF TypeOK
  <2>6. pc'[r] = (IF v = "ok" THEN "effect" ELSE "reply") /\ job'[r] = q /\ verdict'[r] = v
    BY <1>3, <1>5 DEF TypeOK
  <2>7. QED
    BY <1>1, <1>2, <1>6, <2>1, <2>2, <2>3, <2>4, <2>5, <2>6 DEF RunsRight, client
<1>8. RunsApart'
  BY <1>1, <1>2, <1>5 DEF RunsApart, Serving, TypeOK
<1>9. RepliesRight' /\ StatusRight' /\ PairsRight'
  BY <1>1, <1>2, <1>6 DEF RepliesRight, StatusRight, PairsRight, Told, client
<1>10. QED
  BY <1>7, <1>8, <1>9

(* What the five commits have in common. *)
LEMMA InvCommit ==
  ASSUME SystemInv, NEW r \in Runs, NEW p, pc[r] = "effect", Done(r, job[r], p),
         active \ held \subseteq active', active' \subseteq active \cup {p} \cup {NoPair},
         active' \subseteq Pairs,
         owner # Nobody => owner' # Nobody,
         p = NoPair \/ /\ p = NewPair(job[r]) /\ p \in active'
                       /\ route[job[r]] \in {"login", "refresh"},
         route[job[r]] = "refresh" => p # NoPair
  PROVE  RunsRight' /\ RunsApart' /\ RepliesRight' /\ StatusRight' /\ PairsRight'
<1> USE DEF SystemInv
<1> DEFINE q == job[r]
<1>1. /\ q \in submitted /\ q \in Requests /\ route[q] \in Routes
      /\ verdict[r] = "ok"
      /\ effects[q] = 0 \/ q \in repeated
  BY DEF TypeOK, RunsRight
<1>2. /\ UNCHANGED <<client, queue, job, verdict, repeated>>
      /\ effects' = [effects EXCEPT ![q] = @ + 1] /\ effects'[q] > 0
      /\ pc' = [pc EXCEPT ![r] = "reply"] /\ grant' = [grant EXCEPT ![r] = p]
  BY <1>1 DEF Done, TypeOK
<1>3. \A x : Issued(x) => Issued(x)'
  BY <1>2 DEF Issued, client, TypeOK
<1>4. \A x, c, g : Delivers(x, c, g) => Delivers(x, c, g)'
  BY <1>2, <1>3 DEF Delivers, client
<1>5. \A x \in Requests : \A c : Truth(x, c) /\ (x = q => q \in repeated) => Truth(x, c)'
  BY <1>2 DEF Truth, client, TypeOK
<1>6. \A s \in Runs : s # r /\ job[s] = q => q \in repeated
  BY <1>1, SystemAssumption DEF RunsApart
<1>7. q \in handled => q \in repeated
  BY DEF RunsApart
<1>8. NoPair \notin Pairs
  BY SystemAssumption DEF NoPair, Pairs
<1>9. p # NoPair => p[1] = q /\ Issued(p)'
  BY <1>1, <1>2 DEF NewPair, Issued, client
<1>10. RunsRight'
  <2>1. Truth(q, "ok")' /\ Delivers(q, "ok", p)'
    BY <1>2, <1>9 DEF Truth, Delivers, Refusals, client
  <2>2. ASSUME NEW s \in Runs, s # r
        PROVE  /\ pc'[s] = pc[s] /\ grant'[s] = grant[s]
               /\ pc[s] # "idle" => job[s] \in Requests
    BY <1>2, <2>2 DEF TypeOK
  <2>3. ASSUME NEW s \in Runs, s # r
        PROVE  /\ pc'[s] = "idle" => grant'[s] = NoPair
               /\ pc'[s] = "effect" =>
                    /\ verdict'[s] = "ok" /\ grant'[s] = NoPair
                    /\ effects'[job'[s]] = 0 \/ job'[s] \in repeated'
                    /\ route'[job'[s]] = "login" => owner' # Nobody
               /\ pc'[s] = "reply" =>
                    Truth(job[s], verdict[s])' /\ Delivers(job[s], verdict[s], grant[s])'
    BY <1>2, <1>4, <1>5, <1>6, <2>2, <2>3 DEF RunsRight, client, TypeOK
  <2>4. pc'[r] = "reply" /\ grant'[r] = p
    BY <1>2 DEF TypeOK
  <2>5. verdict' = verdict /\ job' = job /\ verdict[r] = "ok"
    BY <1>1, <1>2
  <2>6. QED
    BY <2>1, <2>3, <2>4, <2>5 DEF RunsRight
<1>11. RunsApart'
  BY <1>2 DEF RunsApart, queue
<1>12. RepliesRight'
  BY <1>2, <1>4, <1>5, <1>7 DEF RepliesRight, client, queue, TypeOK
<1>13. StatusRight'
  BY <1>1, <1>2, <1>7 DEF StatusRight, Told, client, queue, TypeOK
<1>14. PairsRight'
  <2>1. ASSUME NEW x \in held' \cup active' PROVE Issued(x)'
    <3>1. x \in held \cup active \/ (x = p /\ p # NoPair)
      BY <1>2, <1>8, <2>1 DEF client
    <3>2. QED
      BY <1>3, <1>9, <3>1 DEF PairsRight
  <2>2. UNCHANGED <<route, pair, held>>
    BY <1>2 DEF client
  <2>3. QED
    BY <2>1, <2>2 DEF PairsRight
<1>15. QED
  BY <1>10, <1>11, <1>12, <1>13, <1>14

(* A run answers, fails, or finds that it must refuse: no row changes. *)
LEMMA InvFinish ==
  ASSUME SystemInv, NEW r \in Runs, Reply(r) \/ Interrupt(r) \/ (Effect(r) /\ RefreshRaises(r, job[r]))
  PROVE  RunsRight' /\ RunsApart' /\ RepliesRight' /\ StatusRight' /\ PairsRight'
<1> USE DEF SystemInv
<1> DEFINE q == job[r]
<1>1. /\ Finish(r) /\ q \in submitted /\ q \in Requests
      /\ UNCHANGED <<route, pair, status, held, submitted, rows, history>>
      /\ handled \subseteq handled' /\ handled' \subseteq handled \cup {q}
      /\ q \in handled' \ handled => Reply(r)
  BY DEF Reply, Interrupt, Effect, RefreshRaises, Queue!Handle, client, TypeOK
<1>2. \A x, c, g : /\ Truth(x, c) => Truth(x, c)'
                   /\ Delivers(x, c, g) => Delivers(x, c, g)'
                   /\ Issued(g) => Issued(g)'
  BY <1>1 DEF Truth, Delivers, Issued, history, rows
<1>3. RunsRight'
  <2>1. ASSUME NEW s \in Runs, s # r
        PROVE  pc'[s] = pc[s] /\ grant'[s] = grant[s] /\ job'[s] = job[s] /\ verdict'[s] = verdict[s]
    BY <1>1, <2>1 DEF Finish, TypeOK
  <2>2. pc'[r] = "idle" /\ grant'[r] = NoPair
    BY <1>1 DEF Finish, TypeOK
  <2>3. QED
    BY <1>1, <1>2, <2>1, <2>2 DEF RunsRight, rows, history
<1>4. RunsApart'
  <2>1. ASSUME NEW s \in Runs PROVE job'[s] = IF s = r THEN Nobody ELSE job[s]
    BY <1>1 DEF Finish, TypeOK
  <2>2. Nobody \notin handled'
    BY <1>1, SystemAssumption DEF TypeOK
  <2>3. QED
    BY <1>1, <2>1, <2>2, SystemAssumption DEF RunsApart, history
<1>5. RepliesRight'
  <2>1. CASE Reply(r)
    <3>1. Truth(q, verdict[r]) /\ Delivers(q, verdict[r], grant[r]) /\ q \in handled'
      BY <2>1 DEF Reply, RunsRight, Queue!Handle
    <3>2. QED
      BY <1>1, <1>2, <2>1, <3>1 DEF RepliesRight, Reply, TypeOK
  <2>2. CASE ~Reply(r)
    <3>1. UNCHANGED replies
      BY <2>2 DEF Interrupt, Effect, RefreshRaises, client
    <3>2. QED
      BY <1>1, <1>2, <3>1 DEF RepliesRight
  <2>3. QED
    BY <2>1, <2>2
<1>6. StatusRight'
  BY <1>1 DEF StatusRight, Told, history
<1>7. PairsRight'
  BY <1>1, <1>2 DEF PairsRight, rows
<1>8. QED
  BY <1>3, <1>4, <1>5, <1>6, <1>7

(* register puts its caught exception in place of its answer. *)
LEMMA InvInternalError ==
  ASSUME SystemInv, NEW r \in Runs, pc[r] # "idle",
         RegisterError(r) \/ RegisterLoses(r, job[r])
  PROVE  RunsRight' /\ RunsApart' /\ RepliesRight' /\ StatusRight' /\ PairsRight'
<1> USE DEF SystemInv
<1>1. /\ UNCHANGED <<client, queue, job, grant, rows, history>>
      /\ pc' = [pc EXCEPT ![r] = "reply"] /\ job[r] \in Requests
      /\ verdict' = [verdict EXCEPT ![r] = "common.internal_error"] /\ route[job[r]] = "register"
  BY DEF RegisterError, RegisterLoses, TypeOK
<1>2. \A x, c, g : /\ Truth(x, c) => Truth(x, c)'
                   /\ Delivers(x, c, g) => Delivers(x, c, g)'
                   /\ Issued(g) => Issued(g)'
  BY <1>1 DEF Truth, Delivers, Issued, history, rows, client
<1>3. RunsRight'
  <2>1. ASSUME NEW s \in Runs, s # r
        PROVE  pc'[s] = pc[s] /\ verdict'[s] = verdict[s]
    BY <1>1, <2>1 DEF TypeOK
  <2>2. pc'[r] = "reply" /\ verdict'[r] = "common.internal_error"
    BY <1>1 DEF TypeOK
  <2>3. Truth(job[r], "common.internal_error") /\ Delivers(job[r], "common.internal_error", grant[r])
    BY <1>1 DEF Truth, Delivers, RunsRight, Refusals, TypeOK
  <2>4. QED
    BY <1>1, <1>2, <2>1, <2>2, <2>3 DEF RunsRight, rows, history, client
<1>4. RunsApart' /\ RepliesRight' /\ StatusRight' /\ PairsRight'
  BY <1>1, <1>2 DEF RunsApart, RepliesRight, StatusRight, PairsRight, Told, rows, history, client, queue
<1>5. QED
  BY <1>3, <1>4

(* RegisterLoses and RefreshRaises apart, an effect is a commit. *)
LEMMA InvEffect ==
  ASSUME SystemInv, NEW r \in Runs, Effect(r)
  PROVE  RunsRight' /\ RunsApart' /\ RepliesRight' /\ StatusRight' /\ PairsRight'
<1> USE DEF SystemInv
<1> DEFINE q == job[r]
<1>1. /\ pc[r] = "effect" /\ q \in Requests /\ effects[q] \in Nat /\ active \subseteq Pairs
      /\ NewPair(q) \in Pairs /\ NewPair(q) # NoPair
  BY SystemAssumption DEF Effect, TypeOK, NewPair, Pairs, NoPair
<1>2. route[q] \in TokenRoutes => pair[q] \in held
  BY <1>1 DEF PairsRight
<1>3. CASE CommitLogin(r, q)
  BY <1>1, <1>3, InvCommit DEF CommitLogin
<1>4. CASE CommitRegister(r, q)
  BY <1>1, <1>4, InvCommit DEF CommitRegister
<1>5. CASE CommitRefresh(r, q)
  BY <1>1, <1>2, <1>5, InvCommit DEF CommitRefresh, TokenRoutes
<1>6. CASE CommitLogout(r, q)
  BY <1>1, <1>2, <1>6, InvCommit DEF CommitLogout, TokenRoutes
<1>7. CASE Validated(r, q)
  BY <1>1, <1>7, InvCommit DEF Validated
<1>8. CASE RegisterLoses(r, q)
  BY <1>1, <1>8, InvInternalError
<1>9. CASE RefreshRaises(r, q)
  BY <1>9, InvFinish
<1>10. QED
  BY <1>3, <1>4, <1>5, <1>6, <1>7, <1>8, <1>9 DEF Effect

LEMMA InvStep == SystemInv /\ [Next]_vars => SystemInv'
<1> SUFFICES ASSUME SystemInv, [Next]_vars PROVE SystemInv'
  OBVIOUS
<1>1. TypeOK'
  BY TypeStep, SystemAssumption DEF SystemInv
<1>2. RunsRight' /\ RunsApart' /\ RepliesRight' /\ StatusRight' /\ PairsRight'
  <2>1. CASE Next
    <3>1. ASSUME NEW q \in Requests, NEW r \in Routes, NEW w \in {"right", "wrong", "none"},
                 NEW p \in held \cup {NoPair}, Ask(q, r, w, p) \/ AskFails(q, r, w, p)
          PROVE  RunsRight' /\ RunsApart' /\ RepliesRight' /\ StatusRight' /\ PairsRight'
      BY <3>1, InvAsk
    <3>2. ASSUME NEW q \in Requests, Answer(q) \/ TimesOut(q) \/ DeadLetter(q) \/ Settle(q)
          PROVE  RunsRight' /\ RunsApart' /\ RepliesRight' /\ StatusRight' /\ PairsRight'
      BY <3>2, InvAnswer, InvTimesOut, InvQueue
    <3>3. ASSUME NEW r \in Runs, NEW q \in Requests, Take(r, q) \/ TakeAgain(r, q)
          PROVE  RunsRight' /\ RunsApart' /\ RepliesRight' /\ StatusRight' /\ PairsRight'
      BY <3>3, InvBegin
    <3>4. ASSUME NEW r \in Runs, RunStep(r) \/ RegisterError(r) \/ Interrupt(r)
          PROVE  RunsRight' /\ RunsApart' /\ RepliesRight' /\ StatusRight' /\ PairsRight'
      <4>1. RegisterError(r) => pc[r] # "idle"
        BY DEF RegisterError
      <4>2. QED
        BY <3>4, <4>1, InvEffect, InvFinish, InvInternalError DEF RunStep
    <3>5. QED
      BY <2>1, <3>1, <3>2, <3>3, <3>4 DEF Next
  <2>2. CASE UNCHANGED vars
    BY <2>2 DEF SystemInv, RunsRight, RunsApart, RepliesRight, StatusRight, PairsRight, Truth,
      Delivers, Issued, Told, vars, client, queue, run, rows, history
  <2>3. QED
    BY <2>1, <2>2
<1>3. QED
  BY <1>1, <1>2 DEF SystemInv

(* What was told, what was done and what is on its way agree in every      *)
(* reachable state.                                                        *)
THEOREM SystemInvariant == Spec => []SystemInv
<1>1. Init => SystemInv
  <2> SUFFICES ASSUME Init PROVE SystemInv
    OBVIOUS
  <2>1. TypeOK
    BY SystemAssumption
    DEF Init, TypeOK, Queue!Init, Pairs, NoPair, Statuses, Codes, Refusals
  <2>2. RunsRight /\ RunsApart /\ RepliesRight
    BY SystemAssumption DEF Init, RunsRight, RunsApart, RepliesRight, Queue!Init
  <2>3. StatusRight
    BY DEF Init, StatusRight, Told, Queue!Init
  <2>4. PairsRight
    BY DEF Init, PairsRight, Issued, TokenRoutes
  <2>5. QED
    BY <2>1, <2>2, <2>3, <2>4 DEF SystemInv
<1>2. QED
  BY <1>1, InvStep, PTL DEF Spec

----------------------------------------------------------------------------
(* The contract of the gateway *)

(* Steps that leave everything the contract speaks of as it is. *)
LEMMA ContractStutter ==
  ASSUME UNCHANGED <<route, pair, owner, effects, repeated, status>>
  PROVE  UNCHANGED Contract!contractVars
BY DEF Contract!contractVars, Told

LEMMA ContractAsk ==
  ASSUME SystemInv, NEW q \in Requests, NEW r \in Routes, NEW w, NEW p \in held \cup {NoPair},
         Ask(q, r, w, p) \/ AskFails(q, r, w, p)
  PROVE  Contract!Next
<1>1. /\ route[q] = "none" /\ Presents(r, w, p) /\ status[q] = 0
      /\ route' = [route EXCEPT ![q] = r] /\ pair' = [pair EXCEPT ![q] = p]
      /\ UNCHANGED <<owner, effects, repeated>>
  BY DEF Ask, AskFails, Open, SystemInv, StatusRight, rows, history
<1>2. IF r \in {"login", "register"} THEN p[1] = Nobody ELSE p[1] \in Contract!Issuers
  BY <1>1 DEF Presents, Routes, NoPair, Contract!Issuers, SystemInv, PairsRight, Issued
<1>3. \A x \in Requests : x # q => Told(x)' = Told(x)
  BY <1>1 DEF Told, Ask, AskFails, SystemInv, TypeOK
<1>4. PICK t \in {"nothing", "unknown"} : Told(q)' = t
  <2>1. CASE Ask(q, r, w, p)
    BY <1>1, <2>1 DEF Ask, Told
  <2>2. CASE AskFails(q, r, w, p)
    <3>1. PICK st \in {500, StatusOf(r, "rpc.timeout")} : status' = [status EXCEPT ![q] = st]
      BY <2>2 DEF AskFails
    <3>2. status'[q] = st /\ route'[q] = r
      BY <1>1, <3>1 DEF SystemInv, TypeOK
    <3>3. QED
      BY <3>1, <3>2, TimeoutTells DEF Told
  <2>3. QED
    BY <2>1, <2>2
<1>5. p[1] \in Requests \cup {Earlier, Nobody}
  BY DEF SystemInv, TypeOK, Pairs, NoPair
<1>6. Contract!Ask(q, r, p[1], t)
  <2>1. [x \in Requests |-> pair'[x][1]] = [[x \in Requests |-> pair[x][1]] EXCEPT ![q] = p[1]]
    BY <1>1 DEF SystemInv, TypeOK
  <2>2. [x \in Requests |-> Told(x)'] = [[x \in Requests |-> Told(x)] EXCEPT ![q] = t]
    BY <1>3, <1>4
  <2>3. QED
    BY <1>1, <1>2, <2>1, <2>2 DEF Contract!Ask
<1>7. QED
  BY <1>4, <1>5, <1>6 DEF Contract!Next, Contract!Routes, Routes

LEMMA ContractTell ==
  ASSUME SystemInv, NEW q \in Requests, Answer(q) \/ TimesOut(q)
  PROVE  Contract!Next
<1>1. /\ q \in submitted /\ route[q] \in Routes /\ status[q] = 0 /\ Told(q) = "nothing"
      /\ UNCHANGED <<route, pair, owner, effects, repeated>>
  BY DEF Answer, TimesOut, Waiting, Told, SystemInv, TypeOK, rows, history
<1>2. /\ Told(q)' \in {"done", "refused", "unknown"}
      /\ Told(q)' = "done" => effects[q] > 0
      /\ Told(q)' = "refused" => effects[q] = 0 \/ q \in repeated
      /\ \A x \in Requests : x # q => Told(x)' = Told(x)
  <2>1. CASE Answer(q)
    <3>1. PICK m \in replies[q] : status' = [status EXCEPT ![q] = StatusOf(route[q], m.code)]
      BY <2>1 DEF Answer
    <3>2. m.code \in Codes /\ Truth(q, m.code)
      BY <3>1 DEF SystemInv, TypeOK, RepliesRight
    <3>3. status'[q] = StatusOf(route[q], m.code) /\ \A x \in Requests : x # q => status'[x] = status[x]
      BY <3>1 DEF SystemInv, TypeOK
    <3>4. QED
      BY <1>1, <3>2, <3>3, StatusTells DEF Told, Truth
  <2>2. CASE TimesOut(q)
    <3>1. status'[q] = StatusOf(route[q], "rpc.timeout") /\ \A x \in Requests : x # q => status'[x] = status[x]
      BY <2>2 DEF TimesOut, SystemInv, TypeOK
    <3>2. QED
      BY <1>1, <3>1, TimeoutTells DEF Told
  <2>3. QED
    BY <2>1, <2>2
<1>3. route[q] # "none"
  BY <1>1 DEF Routes
<1>4. PICK t \in {"done", "refused", "unknown"} : Told(q)' = t
  BY <1>2
<1>5. [x \in Requests |-> Told(x)'] = [[x \in Requests |-> Told(x)] EXCEPT ![q] = t]
  BY <1>2, <1>4
<1>6. Contract!Tell(q, t)
  BY <1>1, <1>2, <1>3, <1>4, <1>5 DEF Contract!Tell
<1>7. QED
  BY <1>4, <1>6 DEF Contract!Next

LEMMA ContractTakeEffect ==
  ASSUME SystemInv, NEW r \in Runs, NEW p, pc[r] = "effect", Done(r, job[r], p),
         CASE route[job[r]] = "register" -> owner = Nobody /\ owner' = job[r]
           [] OTHER                      -> UNCHANGED owner
  PROVE  Contract!Next
<1>1. PICK q \in submitted : q = job[r] /\ q \in Requests /\ route[q] \in Routes /\ route[q] # "none"
  BY DEF SystemInv, TypeOK, Routes
<1>2. /\ UNCHANGED <<route, pair, repeated, status>> /\ effects' = [effects EXCEPT ![q] = @ + 1]
  BY <1>1 DEF Done, client
<1>3. {x \in Requests : effects'[x] > 0} = {x \in Requests : effects[x] > 0} \cup {q}
  BY <1>1, <1>2 DEF SystemInv, TypeOK
<1>4. Told(q) = "refused" => q \in repeated
  BY <1>1 DEF SystemInv, StatusRight, RunsApart
<1>5. route[q] = "login" => owner # Nobody
  BY <1>1 DEF SystemInv, RunsRight
<1>6. \A x \in Requests : Told(x)' = Told(x)
  BY <1>2 DEF Told
<1>7. Contract!TakeEffect(q)
  BY <1>1, <1>2, <1>3, <1>4, <1>5, <1>6 DEF Contract!TakeEffect
<1>8. QED
  BY <1>1, <1>7 DEF Contract!Next

LEMMA ContractTake ==
  ASSUME SystemInv, NEW r \in Runs, NEW q \in Requests, Take(r, q) \/ TakeAgain(r, q)
  PROVE  [Contract!Next]_Contract!contractVars
<1>1. /\ UNCHANGED <<route, pair, owner, effects, status>> /\ route[q] # "none"
      /\ repeated' = repeated \/ repeated' = repeated \cup {q}
  BY DEF Take, TakeAgain, Begin, client, SystemInv, TypeOK, Routes
<1>2. CASE repeated' = repeated
  BY <1>1, <1>2, ContractStutter
<1>3. CASE repeated' = repeated \cup {q}
  <2>1. \A x \in Requests : Told(x)' = Told(x)
    BY <1>1 DEF Told
  <2>2. Contract!Repeat(q)
    BY <1>1, <1>3, <2>1 DEF Contract!Repeat
  <2>3. QED
    BY <2>2 DEF Contract!Next
<1>4. QED
  BY <1>1, <1>2, <1>3

LEMMA ContractStep ==
  ASSUME SystemInv, [Next]_vars
  PROVE  [Contract!Next]_Contract!contractVars
<1>1. ASSUME NEW q \in Requests, NEW r \in Routes, NEW w \in {"right", "wrong", "none"},
             NEW p \in held \cup {NoPair}, Ask(q, r, w, p) \/ AskFails(q, r, w, p)
      PROVE  Contract!Next
  BY <1>1, ContractAsk
<1>2. ASSUME NEW q \in Requests, Answer(q) \/ TimesOut(q)
      PROVE  Contract!Next
  BY <1>2, ContractTell
<1>3. ASSUME NEW q \in Requests, DeadLetter(q) \/ Settle(q)
      PROVE  UNCHANGED Contract!contractVars
  BY <1>3, ContractStutter DEF DeadLetter, Settle, client, rows, history
<1>4. ASSUME NEW r \in Runs, NEW q \in Requests, Take(r, q) \/ TakeAgain(r, q)
      PROVE  [Contract!Next]_Contract!contractVars
  BY <1>4, ContractTake
<1>5. ASSUME NEW r \in Runs, Effect(r)
      PROVE  [Contract!Next]_Contract!contractVars
  <2> DEFINE q == job[r]
  <2>1. pc[r] = "effect"
    BY <1>5 DEF Effect
  <2>2. CASE CommitRegister(r, q)
    BY <2>1, <2>2, ContractTakeEffect DEF CommitRegister
  <2>3. CASE CommitLogin(r, q)
    BY <2>1, <2>3, ContractTakeEffect DEF CommitLogin
  <2>4. CASE CommitRefresh(r, q)
    BY <2>1, <2>4, ContractTakeEffect DEF CommitRefresh
  <2>5. CASE CommitLogout(r, q)
    BY <2>1, <2>5, ContractTakeEffect DEF CommitLogout
  <2>6. CASE Validated(r, q)
    BY <2>1, <2>6, ContractTakeEffect DEF Validated
  <2>7. CASE RegisterLoses(r, q) \/ RefreshRaises(r, q)
    BY <2>7, ContractStutter DEF RegisterLoses, RefreshRaises, client, rows, history
  <2>8. QED
    BY <1>5, <2>2, <2>3, <2>4, <2>5, <2>6, <2>7 DEF Effect
<1>6. ASSUME NEW r \in Runs, Reply(r) \/ RegisterError(r) \/ Interrupt(r)
      PROVE  UNCHANGED Contract!contractVars
  BY <1>6, ContractStutter DEF Reply, RegisterError, Interrupt, client, rows, history
<1>7. CASE UNCHANGED vars
  BY <1>7, ContractStutter DEF vars, client, rows, history
<1>8. QED
  BY <1>1, <1>2, <1>3, <1>4, <1>5, <1>6, <1>7 DEF Next, RunStep

(* Whatever is lost, late or delivered again between a client and the rows *)
(* of the database, the routes of the gateway keep their contract.         *)
THEOREM KeepsContract == Spec => ImplementsContract
<1>1. Init => Contract!Init
  <2> SUFFICES ASSUME Init PROVE Contract!Init
    OBVIOUS
  <2>1. {q \in Requests : effects[q] > 0} = {}
    BY DEF Init
  <2>2. \A q \in Requests : pair[q][1] = Nobody /\ Told(q) = "nothing"
    BY DEF Init, NoPair, Told
  <2>3. QED
    BY <2>1, <2>2 DEF Init, Contract!Init
<1>2. QED
  BY <1>1, ContractStep, SystemInvariant, PTL DEF Spec, ImplementsContract, Contract!Spec

----------------------------------------------------------------------------
(* Sessions *)

(* q is the call that ended session p. *)
Ended(p, q) ==
  /\ pair[q] = p /\ effects[q] > 0
  /\ \/ route[q] = "logout"
     \/ /\ route[q] = "refresh"
        /\ status[q] \in {0, 504} \/ q \in repeated \/ \E c \in held : c[1] = q

(* A request that was answered since is still to blame. *)
LEMMA EndedStays ==
  ASSUME SystemInv, [Next]_vars, NEW p, NEW q \in Requests, Ended(p, q)
  PROVE  Ended(p, q)'
<1> USE DEF SystemInv
<1>1. q \in submitted /\ route[q] \in {"logout", "refresh"}
  BY DEF Ended, StatusRight, TypeOK
<1>2. ASSUME UNCHANGED <<route, pair, status>>, held \subseteq held', repeated \subseteq repeated',
             effects'[q] > 0
      PROVE  Ended(p, q)'
  BY <1>2 DEF Ended
<1>3. ASSUME NEW x \in Requests, NEW r \in Routes, NEW w, NEW g \in held \cup {NoPair},
             Ask(x, r, w, g) \/ AskFails(x, r, w, g)
      PROVE  Ended(p, q)'
  <2>1. /\ x # q /\ UNCHANGED <<held, repeated, effects>>
        /\ route'[q] = route[q] /\ pair'[q] = pair[q] /\ status'[q] = status[q]
    BY <1>1, <1>3 DEF Ask, AskFails, Open, history, TypeOK
  <2>2. QED
    BY <2>1 DEF Ended
<1>4. ASSUME NEW x \in Requests, Answer(x)
      PROVE  Ended(p, q)'
  <2>1. UNCHANGED <<route, pair, repeated, effects>> /\ held \subseteq held'
    BY <1>4 DEF Answer, history
  <2>2. CASE x # q
    <3>1. status'[q] = status[q]
      BY <1>4, <2>2 DEF Answer, TypeOK
    <3>2. QED
      BY <2>1, <3>1 DEF Ended
  <2>3. CASE x = q
    <3>1. PICK m \in replies[q] : held' = held \cup ({m.grant} \ {NoPair})
      BY <1>4, <2>3 DEF Answer
    <3>2. m.code \in Codes /\ Truth(q, m.code) /\ Delivers(q, m.code, m.grant)
      BY <3>1 DEF TypeOK, RepliesRight
    <3>3. route[q] = "refresh" => q \in repeated \/ \E c \in held' : c[1] = q
      BY <3>1, <3>2 DEF Truth, Delivers, Codes, Ended, TypeOK
    <3>4. QED
      BY <2>1, <3>3 DEF Ended
  <2>4. QED
    BY <2>2, <2>3
<1>5. ASSUME NEW x \in Requests, TimesOut(x)
      PROVE  Ended(p, q)'
  <2>1. UNCHANGED <<route, pair, repeated, effects, held>>
    BY <1>5 DEF TimesOut, history
  <2>2. status'[q] = status[q] \/ (x = q /\ status'[q] = StatusOf(route[q], "rpc.timeout"))
    BY <1>5 DEF TimesOut, TypeOK
  <2>3. route[q] = "refresh" => StatusOf(route[q], "rpc.timeout") = 504
    BY TimeoutTells DEF Routes
  <2>4. QED
    BY <2>1, <2>2, <2>3 DEF Ended
<1>6. ASSUME NEW x \in Requests, DeadLetter(x) \/ Settle(x)
      PROVE  Ended(p, q)'
  BY <1>2, <1>6 DEF DeadLetter, Settle, client, history, Ended
<1>7. ASSUME NEW r \in Runs, NEW x \in Requests, Take(r, x) \/ TakeAgain(r, x)
      PROVE  Ended(p, q)'
  BY <1>2, <1>7 DEF Take, TakeAgain, Begin, client, Ended
<1>8. ASSUME NEW r \in Runs, Reply(r) \/ RegisterError(r) \/ Interrupt(r)
                             \/ RegisterLoses(r, job[r]) \/ RefreshRaises(r, job[r])
      PROVE  Ended(p, q)'
  BY <1>2, <1>8 DEF Reply, RegisterError, Interrupt, RegisterLoses, RefreshRaises, client, history, Ended
<1>9. ASSUME NEW r \in Runs, NEW g, Done(r, job[r], g)
      PROVE  Ended(p, q)'
  <2>1. effects'[q] > 0
    BY <1>9 DEF Done, Ended, TypeOK
  <2>2. QED
    BY <1>2, <1>9, <2>1 DEF Done, client
<1>10. CASE UNCHANGED vars
  BY <1>2, <1>10 DEF vars, client, history, Ended
<1>11. ASSUME NEW r \in Runs, Effect(r)
      PROVE  Ended(p, q)'
  BY <1>8, <1>9, <1>11 DEF Effect, CommitLogin, CommitRegister, CommitRefresh, CommitLogout, Validated
<1>12. QED
  BY <1>3, <1>4, <1>5, <1>6, <1>7, <1>8, <1>10, <1>11 DEF Next, RunStep

LEMMA SessionStep == SystemInv /\ SessionKept /\ [Next]_vars => SessionKept'
<1> SUFFICES ASSUME SystemInv, SessionKept, [Next]_vars,
                    NEW p, p \in held', p \notin active'
             PROVE  \E q \in Requests : Ended(p, q)'
  BY DEF SessionKept, Ended
<1> USE DEF SystemInv
<1>1. CASE p \in held \ active
  BY <1>1, EndedStays DEF SessionKept, Ended
<1>2. CASE p \in held \cap active
  <2>1. PICK r \in Runs : Effect(r) /\ active' # active
    BY <1>2 DEF Next, Ask, AskFails, Answer, TimesOut, DeadLetter, Settle, Take, TakeAgain, Begin,
      RunStep, Reply, RegisterError, Interrupt, rows, vars
  <2>2. PICK q \in submitted :
        /\ pc[r] = "effect" /\ q = job[r] /\ q \in Requests
        /\ CommitRefresh(r, q) \/ (CommitLogout(r, q) /\ pair[q] = p)
    BY <1>2, <2>1 DEF Effect, CommitLogin, CommitRegister, RegisterLoses, CommitRefresh, RefreshRaises,
      CommitLogout, Validated, rows, TypeOK
  <2>3. pair[q] = p
    BY <1>2, <2>2 DEF CommitRefresh
  <2>4. effects'[q] > 0 /\ UNCHANGED <<route, pair, status, repeated>>
    BY <2>2 DEF CommitRefresh, CommitLogout, Done, client, TypeOK
  <2>5. q \notin repeated => q \notin handled
    BY <2>2 DEF RunsApart
  <2>6. route[q] = "refresh" => q \in repeated \/ status[q] \in {0, 504}
    BY <2>2, <2>5, TimeoutTells DEF StatusRight, Routes
  <2>7. Ended(p, q)'
    BY <2>2, <2>3, <2>4, <2>6 DEF Ended, CommitRefresh, CommitLogout
  <2>8. QED
    BY <2>2, <2>7
<1>3. CASE p \notin held
  <2>1. PICK q \in Requests : Answer(q)
    BY <1>3 DEF Next, Ask, AskFails, TimesOut, DeadLetter, Settle, Take, TakeAgain, Begin, RunStep,
      Effect, CommitLogin, CommitRegister, RegisterLoses, CommitRefresh, RefreshRaises, CommitLogout,
      Validated, Done, Reply, RegisterError, Interrupt, client, vars
  <2>2. PICK m \in replies[q] : held' = held \cup ({m.grant} \ {NoPair})
    BY <2>1 DEF Answer
  <2>3. p = m.grant /\ p # NoPair /\ UNCHANGED active
    BY <1>3, <2>1, <2>2 DEF Answer, rows
  <2>4. p \in active \cup held
    BY <2>2, <2>3 DEF RepliesRight, Delivers
  <2>5. QED
    BY <1>3, <2>3, <2>4
<1>4. QED
  BY <1>1, <1>2, <1>3

(* A session the client holds ends by its own logout or refresh only.      *)
THEOREM SessionsSurvive == Spec => []SessionKept
<1>1. Init => SessionKept
  BY DEF Init, SessionKept
<1>2. QED
  BY <1>1, SessionStep, SystemInvariant, PTL DEF Spec

----------------------------------------------------------------------------
(* The table of sessions: look-up and commit of a request are steps of the *)
(* specification that the transactions of TokenRotation implement.         *)

(* The pairs of committed logins and refreshes, and the one from before. *)
Stored ==
  {p \in Pairs :
     IF p[1] = Earlier
       THEN owner = Earlier /\ p[2] = 1
       ELSE route[p[1]] \in {"login", "refresh"} /\ 1 <= p[2] /\ p[2] <= effects[p[1]]}

(* The pair whose token a run has looked up for this route. *)
Presented(r, key) == IF pc[r] = "effect" /\ route[job[r]] = key THEN pair[job[r]] ELSE NoPair

PresentedBy(key) == [r \in Runs |-> Presented(r, key)]

Sessions ==
  INSTANCE SessionTable WITH
    Tokens     <- Pairs,
    NoToken    <- NoPair,
    known      <- Stored,
    live       <- active,
    expired    <- {p \in Pairs : <<"refresh", p>> \in expired},
    exchanging <- PresentedBy("refresh"),
    leaving    <- PresentedBy("logout")

(* Every token a client or the database has was stored. *)
UsableStored == active \cup held \subseteq Stored

(* A step of one run leaves what the others have looked up. *)
LEMMA PresentedStep ==
  ASSUME NEW r \in Runs, NEW key, UNCHANGED <<route, pair>>,
         \A s \in Runs \ {r} : pc'[s] = pc[s] /\ job'[s] = job[s]
  PROVE  /\ PresentedBy(key)' = [PresentedBy(key) EXCEPT ![r] = Presented(r, key)']
         /\ Presented(r, key)' = Presented(r, key) => PresentedBy(key)' = PresentedBy(key)
BY DEF PresentedBy, Presented

(* Steps that look up and write nothing. *)
LEMMA SessionsQuiet ==
  ASSUME UNCHANGED <<active, expired, held>>, Stored' = Stored,
         \A key \in {"refresh", "logout"} : PresentedBy(key)' = PresentedBy(key)
  PROVE  UNCHANGED Sessions!sessionVars
<1>1. PresentedBy("refresh")' = PresentedBy("refresh") /\ PresentedBy("logout")' = PresentedBy("logout")
  OBVIOUS
<1>2. QED
  BY <1>1 DEF Sessions!sessionVars, Sessions!rowVars, Sessions!callVars

LEMMA StoredQuiet ==
  ASSUME UNCHANGED <<route, effects, owner>>
  PROVE  Stored' = Stored
BY DEF Stored

LEMMA SessionsAsk ==
  ASSUME SystemInv, NEW q \in Requests, NEW r \in Routes, NEW w, NEW p \in held \cup {NoPair},
         Ask(q, r, w, p) \/ AskFails(q, r, w, p)
  PROVE  UNCHANGED Sessions!sessionVars
<1>1. /\ route[q] = "none" /\ q \notin submitted /\ effects[q] = 0
      /\ UNCHANGED <<held, pc, job, owner, active, expired, effects>>
      /\ \A x \in Requests \ {q} : route'[x] = route[x] /\ pair'[x] = pair[x]
  BY DEF Ask, AskFails, Open, SystemInv, StatusRight, TypeOK, run, rows, history
<1>2. ASSUME NEW x \in Pairs PROVE x \in Stored' <=> x \in Stored
  <2>1. CASE x[1] = Earlier
    BY <1>1, <2>1 DEF Stored
  <2>2. CASE x[1] # Earlier /\ x[1] # q
    <3>1. x[1] \in Requests \ {q}
      BY <2>2 DEF Pairs
    <3>2. QED
      BY <1>1, <2>2, <3>1 DEF Stored
  <2>3. CASE x[1] # Earlier /\ x[1] = q
    <3>1. x[2] \in Nat /\ ~(1 <= x[2] /\ x[2] <= 0)
      BY DEF Pairs
    <3>2. QED
      BY <1>1, <2>3, <3>1 DEF Stored
  <2>4. QED
    BY <2>1, <2>2, <2>3
<1>3. Stored' = Stored
  BY <1>2 DEF Stored
<1>4. \A s \in Runs : pc[s] = "effect" => job[s] \in Requests \ {q}
  BY <1>1 DEF SystemInv, TypeOK
<1>5. \A key : PresentedBy(key)' = PresentedBy(key)
  BY <1>1, <1>4 DEF PresentedBy, Presented
<1>6. QED
  BY <1>1, <1>3, <1>5, SessionsQuiet

LEMMA SessionsAnswer ==
  ASSUME SystemInv, UsableStored, NEW q \in Requests, Answer(q)
  PROVE  [Sessions!Next]_Sessions!sessionVars
<1>1. PICK m \in replies[q] : held' = held \cup ({m.grant} \ {NoPair})
  BY DEF Answer
<1>2. UNCHANGED <<route, pair, effects, owner, pc, job, active, expired>>
  BY DEF Answer, run, rows, history
<1>3. Stored' = Stored /\ \A key : PresentedBy(key)' = PresentedBy(key)
  BY <1>2 DEF Stored, PresentedBy, Presented
<1>4. CASE m.grant = NoPair
  BY <1>1, <1>2, <1>3, <1>4, SessionsQuiet
<1>5. CASE m.grant # NoPair
  <2>1. PICK c \in Pairs : c = m.grant /\ c \in active \cup held
    BY <1>5 DEF SystemInv, RepliesRight, Delivers, TypeOK
  <2>2. Sessions!Hand(c)
    BY <1>1, <1>2, <1>3, <1>5, <2>1 DEF UsableStored, Sessions!Hand, Sessions!callVars
  <2>3. QED
    BY <2>2 DEF Sessions!Next
<1>6. QED
  BY <1>4, <1>5

LEMMA SessionsBegin ==
  ASSUME SystemInv, UsableStored, NEW r \in Runs, NEW q \in Requests, Take(r, q) \/ TakeAgain(r, q)
  PROVE  [Sessions!Next]_Sessions!sessionVars
<1>1. /\ Begin(r, q) /\ q \in submitted /\ route[q] \in Routes
      /\ UNCHANGED <<route, pair, held, owner, active, effects>>
      /\ pc[r] = "idle" /\ job' = [job EXCEPT ![r] = q]
  BY DEF Take, TakeAgain, Begin, client, FirstIdle, Idle, SystemInv, TypeOK
<1>2. PICK v \in HandlerOf(RoutingKey[route[q]], q, expired') :
        pc' = [pc EXCEPT ![r] = IF v = "ok" THEN "effect" ELSE "reply"]
  BY <1>1 DEF Begin
<1>3. expired' = expired \/ (expired' = expired \cup {Token(q)} /\ route[q] \in TokenRoutes)
  BY <1>1 DEF Begin, Clock
<1>4. Stored' = Stored
  BY <1>1, StoredQuiet
<1>5. \A s \in Runs \ {r} : pc'[s] = pc[s] /\ job'[s] = job[s]
  BY <1>1, <1>2 DEF SystemInv, TypeOK
<1>6. /\ pc'[r] = IF v = "ok" THEN "effect" ELSE "reply"
      /\ job'[r] = q
  BY <1>1, <1>2 DEF SystemInv, TypeOK
<1>7. \A key : /\ Presented(r, key) = NoPair
               /\ Presented(r, key)' = IF v = "ok" /\ route[q] = key THEN pair[q] ELSE NoPair
  BY <1>1, <1>6 DEF Presented
<1>8. CASE expired' = expired /\ ~(v = "ok" /\ route[q] \in {"refresh", "logout"})
  <2>1. \A key \in {"refresh", "logout"} : PresentedBy(key)' = PresentedBy(key)
    BY <1>1, <1>5, <1>7, <1>8, PresentedStep
  <2>2. QED
    BY <1>1, <1>4, <1>8, <2>1, SessionsQuiet
<1>9. CASE v = "ok" /\ route[q] \in {"refresh", "logout"}
  <2>1. Token(q) = <<"refresh", pair[q]>>
    BY <1>9 DEF Token
  <2>2. Token(q) \notin expired' /\ (route[q] = "refresh" => pair[q] \in active)
    BY <1>2, <1>9 DEF HandlerOf, RoutingKey, RefreshToken, Logout
  <2>3. expired' = expired
    BY <1>3, <2>2
  <2>4. PICK t \in Pairs : t = pair[q] /\ t \in held
    BY <1>9 DEF SystemInv, TypeOK, PairsRight, TokenRoutes
  <2>5. <<"refresh", t>> \notin expired
    BY <2>1, <2>2, <2>3, <2>4
  <2>6. CASE route[q] = "refresh"
    <3>1. Presented(r, "refresh")' = t /\ Presented(r, "logout")' = NoPair
      BY <1>7, <1>9, <2>4, <2>6
    <3>2. /\ PresentedBy("refresh")' = [PresentedBy("refresh") EXCEPT ![r] = t]
          /\ PresentedBy("logout")' = PresentedBy("logout")
      BY <1>1, <1>5, <1>7, <3>1, PresentedStep
    <3>3. Sessions!Free(r)
      BY <1>7 DEF Sessions!Free, PresentedBy
    <3>4. Sessions!Admit(r, t)
      BY <1>1, <1>4, <2>2, <2>3, <2>4, <2>5, <2>6, <3>2, <3>3 DEF Sessions!Admit, Sessions!rowVars
    <3>5. QED
      BY <3>4 DEF Sessions!Next
  <2>7. CASE route[q] = "logout"
    <3>1. Presented(r, "logout")' = t /\ Presented(r, "refresh")' = NoPair
      BY <1>7, <1>9, <2>4, <2>7
    <3>2. /\ PresentedBy("logout")' = [PresentedBy("logout") EXCEPT ![r] = t]
          /\ PresentedBy("refresh")' = PresentedBy("refresh")
      BY <1>1, <1>5, <1>7, <3>1, PresentedStep
    <3>3. Sessions!Free(r)
      BY <1>7 DEF Sessions!Free, PresentedBy
    <3>4. Sessions!Depart(r, t)
      BY <1>1, <1>4, <2>3, <2>4, <2>5, <3>2, <3>3 DEF Sessions!Depart, Sessions!rowVars
    <3>5. QED
      BY <3>4 DEF Sessions!Next
  <2>8. QED
    BY <1>9, <2>6, <2>7
<1>10. CASE expired' # expired /\ ~(v = "ok" /\ route[q] \in {"refresh", "logout"})
  <2>1. expired' = expired \cup {Token(q)}
    BY <1>3, <1>10
  <2>2. \A key \in {"refresh", "logout"} : PresentedBy(key)' = PresentedBy(key)
    BY <1>1, <1>5, <1>7, <1>10, PresentedStep
  <2>3. CASE route[q] = "validate"
    <3>1. \A p \in Pairs : <<"refresh", p>> \in expired' <=> <<"refresh", p>> \in expired
      BY <2>1, <2>3 DEF Token
    <3>2. {p \in Pairs : <<"refresh", p>> \in expired'} = {p \in Pairs : <<"refresh", p>> \in expired}
      BY <3>1
    <3>3. QED
      BY <1>1, <1>4, <2>2, <3>2 DEF Sessions!sessionVars, Sessions!rowVars, Sessions!callVars
  <2>4. CASE route[q] # "validate"
    <3>1. PICK t \in Pairs : t = pair[q] /\ t \in held
      BY <1>3, <1>10 DEF SystemInv, TypeOK, PairsRight
    <3>2. Token(q) = <<"refresh", t>>
      BY <2>4, <3>1 DEF Token
    <3>3. {p \in Pairs : <<"refresh", p>> \in expired'}
            = {p \in Pairs : <<"refresh", p>> \in expired} \cup {t}
      BY <2>1, <3>2
    <3>4. Sessions!Expire(t)
      BY <1>1, <1>4, <2>2, <3>1, <3>3 DEF Sessions!Expire, Sessions!callVars, UsableStored
    <3>5. QED
      BY <3>4 DEF Sessions!Next
  <2>5. QED
    BY <2>3, <2>4
<1>11. QED
  BY <1>8, <1>9, <1>10

(* The requests the listener stores a pair for. *)
LEMMA StoredGrows ==
  ASSUME SystemInv, NEW q \in Requests, UNCHANGED route,
         effects' = [effects EXCEPT ![q] = @ + 1],
         owner' = owner \/ (owner = Nobody /\ owner' = q)
  PROVE  /\ route[q] \in {"login", "refresh"} => Stored' = Stored \cup {NewPair(q)}
         /\ route[q] \notin {"login", "refresh"} => Stored' = Stored
         /\ NewPair(q) \notin Stored /\ NewPair(q) \in Pairs
<1>1. effects[q] \in Nat /\ effects'[q] = effects[q] + 1
  BY DEF SystemInv, TypeOK
<1>2. NewPair(q) \in Pairs /\ NewPair(q)[1] = q /\ NewPair(q)[2] = effects[q] + 1
  BY <1>1 DEF NewPair, Pairs
<1>3. (owner' = Earlier) <=> (owner = Earlier)
  BY SystemAssumption
<1>4. q # Earlier
  BY SystemAssumption
<1>5. NewPair(q) \notin Stored
  BY <1>1, <1>2, <1>4 DEF Stored
<1>6. ASSUME NEW p \in Pairs
      PROVE  p \in Stored' <=> p \in Stored \/ (route[q] \in {"login", "refresh"} /\ p = NewPair(q))
  <2>1. CASE p[1] = Earlier
    BY <1>2, <1>3, <1>4, <2>1 DEF Stored
  <2>2. CASE p[1] \in Requests \ {q} /\ p[1] # Earlier
    <3>1. effects'[p[1]] = effects[p[1]]
      BY <2>2 DEF SystemInv, TypeOK
    <3>2. QED
      BY <1>2, <2>2, <3>1 DEF Stored
  <2>3. CASE p[1] = q
    <3>1. p[2] \in Nat /\ p = <<q, p[2]>>
      BY <2>3 DEF Pairs
    <3>2. p[2] <= effects[q] + 1 <=> p[2] <= effects[q] \/ p[2] = effects[q] + 1
      BY <1>1, <3>1
    <3>3. p = NewPair(q) <=> p[2] = effects[q] + 1
      BY <3>1 DEF NewPair
    <3>4. p[2] = effects[q] + 1 => 1 <= p[2]
      BY <1>1, <3>1
    <3>5. QED
      BY <1>1, <1>4, <2>3, <3>2, <3>3, <3>4 DEF Stored
  <2>4. QED
    BY <2>1, <2>2, <2>3 DEF Pairs
<1>7. QED
  BY <1>2, <1>5, <1>6 DEF Stored

LEMMA SessionsEffect ==
  ASSUME SystemInv, NEW r \in Runs, Effect(r)
  PROVE  [Sessions!Next]_Sessions!sessionVars
<1> DEFINE q == job[r]
<1>1. pc[r] = "effect" /\ q \in Requests /\ pc'[r] # "effect" /\ UNCHANGED <<route, pair, held, expired>>
  BY DEF Effect, CommitLogin, CommitRegister, RegisterLoses, CommitRefresh, RefreshRaises, CommitLogout,
         Validated, Done, Finish, client, rows, SystemInv, TypeOK
<1>2. \A s \in Runs \ {r} : pc'[s] = pc[s] /\ job'[s] = job[s]
  BY DEF Effect, CommitLogin, CommitRegister, RegisterLoses, CommitRefresh, RefreshRaises, CommitLogout,
         Validated, Done, Finish, SystemInv, TypeOK
<1>3. \A key : /\ Presented(r, key) = IF route[q] = key THEN pair[q] ELSE NoPair
               /\ Presented(r, key)' = NoPair
  BY <1>1 DEF Presented
<1>4. \A key : /\ PresentedBy(key)' = [PresentedBy(key) EXCEPT ![r] = NoPair]
               /\ route[q] # key => PresentedBy(key)' = PresentedBy(key)
  BY <1>1, <1>2, <1>3, PresentedStep
<1>5. ASSUME NEW p, Done(r, q, p)
      PROVE  effects' = [effects EXCEPT ![q] = @ + 1]
  BY <1>5 DEF Done
<1>6. CASE CommitLogin(r, q)
  <2>1. PICK c \in Pairs : c = NewPair(q) /\ c \notin Stored /\ Stored' = Stored \cup {c}
    BY <1>1, <1>5, <1>6, StoredGrows DEF CommitLogin
  <2>2. Sessions!Issue(c)
    BY <1>1, <1>4, <1>6, <2>1 DEF CommitLogin, Sessions!Issue, Sessions!callVars
  <2>3. QED
    BY <2>2 DEF Sessions!Next
<1>7. CASE CommitRefresh(r, q)
  <2>1. PICK c \in Pairs : c = NewPair(q) /\ c \notin Stored /\ Stored' = Stored \cup {c}
    BY <1>1, <1>5, <1>7, StoredGrows DEF CommitRefresh
  <2>2. PresentedBy("refresh")[r] = pair[q] /\ pair[q] # NoPair
    <3>1. pair[q] \in Pairs /\ NoPair \notin Pairs
      BY <1>1, <1>7, SystemAssumption
         DEF CommitRefresh, SystemInv, PairsRight, TypeOK, TokenRoutes, Pairs, NoPair
    <3>2. QED
      BY <1>3, <1>7, <3>1 DEF CommitRefresh, PresentedBy
  <2>3. Sessions!Exchange(r, c)
    BY <1>1, <1>4, <1>7, <2>1, <2>2 DEF CommitRefresh, Sessions!Exchange
  <2>4. QED
    BY <2>3 DEF Sessions!Next
<1>8. CASE CommitLogout(r, q)
  <2>1. Stored' = Stored
    BY <1>1, <1>5, <1>8, StoredGrows DEF CommitLogout
  <2>2. PresentedBy("logout")[r] = pair[q] /\ pair[q] # NoPair
    <3>1. pair[q] \in Pairs /\ NoPair \notin Pairs
      BY <1>1, <1>8, SystemAssumption
         DEF CommitLogout, SystemInv, PairsRight, TypeOK, TokenRoutes, Pairs, NoPair
    <3>2. QED
      BY <1>3, <1>8, <3>1 DEF CommitLogout, PresentedBy
  <2>3. Sessions!Revoke(r)
    BY <1>1, <1>4, <1>8, <2>1, <2>2 DEF CommitLogout, Sessions!Revoke
  <2>4. QED
    BY <2>3 DEF Sessions!Next
<1>9. CASE CommitRegister(r, q) \/ Validated(r, q)
  <2>1. route[q] \notin {"login", "refresh", "logout"} /\ UNCHANGED active
    BY <1>9 DEF CommitRegister, Validated
  <2>2. Stored' = Stored
    BY <1>1, <1>5, <1>9, <2>1, StoredGrows DEF CommitRegister, Validated
  <2>3. QED
    BY <1>1, <1>4, <2>1, <2>2, SessionsQuiet
<1>10. CASE RegisterLoses(r, q)
  BY <1>1, <1>4, <1>10, StoredQuiet, SessionsQuiet DEF RegisterLoses, rows, history
<1>11. CASE RefreshRaises(r, q)
  <2>1. UNCHANGED <<active, Stored>>
    BY <1>1, <1>11, StoredQuiet DEF RefreshRaises, rows, history
  <2>2. Sessions!Dismiss(r)
    BY <1>1, <1>4, <2>1 DEF Sessions!Dismiss, Sessions!rowVars
  <2>3. QED
    BY <2>2 DEF Sessions!Next
<1>12. QED
  BY <1>6, <1>7, <1>8, <1>9, <1>10, <1>11 DEF Effect

LEMMA SessionsOther ==
  ASSUME SystemInv, NEW r \in Runs, Reply(r) \/ RegisterError(r) \/ Interrupt(r)
  PROVE  [Sessions!Next]_Sessions!sessionVars
<1>1. /\ pc'[r] # "effect" /\ UNCHANGED <<route, pair, held, owner, active, expired, effects>>
      /\ \A s \in Runs \ {r} : pc'[s] = pc[s] /\ job'[s] = job[s]
  BY DEF Reply, RegisterError, Interrupt, Finish, client, rows, history, SystemInv, TypeOK
<1>2. Stored' = Stored
  BY <1>1, StoredQuiet
<1>3. \A key : Presented(r, key)' = NoPair
  BY <1>1 DEF Presented
<1>4. \A key : PresentedBy(key)' = [PresentedBy(key) EXCEPT ![r] = NoPair]
  BY <1>1, <1>3, PresentedStep
<1>5. Sessions!Dismiss(r)
  BY <1>1, <1>2, <1>4 DEF Sessions!Dismiss, Sessions!rowVars
<1>6. QED
  BY <1>5 DEF Sessions!Next

LEMMA SessionsStep ==
  SystemInv /\ UsableStored /\ [Next]_vars
    => [Sessions!Next]_Sessions!sessionVars /\ UsableStored'
<1> SUFFICES ASSUME SystemInv, UsableStored, [Next]_vars
             PROVE  [Sessions!Next]_Sessions!sessionVars /\ UsableStored'
  OBVIOUS
<1>1. [Sessions!Next]_Sessions!sessionVars
  <2>1. ASSUME NEW q \in Requests, NEW r \in Routes, NEW w \in {"right", "wrong", "none"},
               NEW p \in held \cup {NoPair}, Ask(q, r, w, p) \/ AskFails(q, r, w, p)
        PROVE  UNCHANGED Sessions!sessionVars
    BY <2>1, SessionsAsk
  <2>2. ASSUME NEW q \in Requests, TimesOut(q) \/ DeadLetter(q) \/ Settle(q)
        PROVE  UNCHANGED Sessions!sessionVars
    <3>1. UNCHANGED <<route, pair, held, pc, job, owner, active, expired, effects>>
      BY <2>2 DEF TimesOut, DeadLetter, Settle, client, run, rows, history
    <3>2. \A key : PresentedBy(key)' = PresentedBy(key)
      BY <3>1 DEF PresentedBy, Presented
    <3>3. QED
      BY <3>1, <3>2, StoredQuiet, SessionsQuiet
  <2>3. CASE UNCHANGED vars
    <3>1. UNCHANGED <<route, pair, held, pc, job, owner, active, expired, effects>>
      BY <2>3 DEF vars, client, run, rows, history
    <3>2. \A key : PresentedBy(key)' = PresentedBy(key)
      BY <3>1 DEF PresentedBy, Presented
    <3>3. QED
      BY <3>1, <3>2, StoredQuiet, SessionsQuiet
  <2>4. QED
    BY <2>1, <2>2, <2>3, SessionsAnswer, SessionsBegin, SessionsEffect, SessionsOther DEF Next, RunStep
<1>2. UsableStored'
  BY <1>1 DEF UsableStored, Sessions!Next, Sessions!Admit, Sessions!Depart, Sessions!Exchange,
    Sessions!Dismiss, Sessions!Revoke, Sessions!Issue, Sessions!Hand, Sessions!Expire,
    Sessions!sessionVars, Sessions!rowVars
<1>3. QED
  BY <1>1, <1>2

(* From the REST routes down to the rows, through queues that repeat and   *)
(* runs that fail, tokens are issued, exchanged and revoked by the steps   *)
(* of the session table only.                                              *)
THEOREM KeepsSessionTable == Spec => Sessions!Spec
<1>1. Init => Sessions!Init /\ UsableStored
  <2> SUFFICES ASSUME Init PROVE Sessions!Init /\ UsableStored
    OBVIOUS
  <2>1. \A x \in Requests : route[x] = "none"
    BY DEF Init
  <2>2. ASSUME NEW p \in Pairs PROVE p \in Stored <=> owner = Earlier /\ p = <<Earlier, 1>>
    <3>1. p = <<p[1], p[2]>> /\ p[1] \in Requests \cup {Earlier}
      BY DEF Pairs
    <3>2. QED
      BY <2>1, <3>1 DEF Stored
  <2>3. owner = Earlier \/ owner = Nobody
    BY DEF Init
  <2>4. <<Earlier, 1>> \in Pairs
    BY DEF Pairs
  <2>5. active = Stored
    BY <2>2, <2>3, <2>4, SystemAssumption DEF Init, Stored
  <2>6. /\ PresentedBy("refresh") = [r \in Runs |-> NoPair]
        /\ PresentedBy("logout") = [r \in Runs |-> NoPair]
    BY DEF Init, PresentedBy, Presented
  <2>7. {p \in Pairs : <<"refresh", p>> \in expired} = {}
    BY DEF Init
  <2>8. Stored \subseteq Pairs /\ held = active
    BY DEF Stored, Init
  <2>9. QED
    BY <2>5, <2>6, <2>7, <2>8 DEF Sessions!Init, UsableStored
<1>2. QED
  BY <1>1, SystemInvariant, SessionsStep, PTL DEF Spec, Sessions!Spec

----------------------------------------------------------------------------
(* Tokens are spent once *)

(* A revoked refresh token never becomes active again. *)
RevokedForGood == [][\A p \in Stored \ active : p \in Stored' \ active']_vars

LEMMA RevokedStays ==
  ASSUME SystemInv, UsableStored, [Next]_vars, NEW p \in Stored \ active
  PROVE  p \in Stored' \ active'
<1>1. [Sessions!Next]_Sessions!sessionVars
  BY SessionsStep
<1>2. QED
  BY <1>1
  DEF Sessions!Next, Sessions!Admit, Sessions!Depart, Sessions!Exchange, Sessions!Dismiss,
      Sessions!Revoke, Sessions!Issue, Sessions!Hand, Sessions!Expire, Sessions!sessionVars,
      Sessions!rowVars

LEMMA TokensStored == Spec => [](SystemInv /\ UsableStored)
<1>1. Init => UsableStored
  <2> SUFFICES ASSUME Init, NEW p \in active PROVE p \in Stored
    BY DEF Init, UsableStored
  <2>1. p = <<Earlier, 1>> /\ owner = Earlier
    BY DEF Init
  <2>2. QED
    BY <2>1 DEF Stored, Pairs
<1>2. QED
  BY <1>1, SystemInvariant, SessionsStep, PTL DEF Spec

(* Whatever repeats and overlaps, no session comes back to life. *)
THEOREM RevocationFinal == Spec => RevokedForGood
<1>1. SystemInv /\ UsableStored /\ [Next]_vars => [\A p \in Stored \ active : p \in Stored' \ active']_vars
  BY RevokedStays
<1>2. QED
  BY <1>1, TokensStored, PTL DEF Spec, RevokedForGood

(* q has exchanged the token it presented or logged out with it. *)
Used(q) == effects[q] > 0 /\ route[q] \in {"refresh", "logout"}

UsedRevoked == \A q \in Requests : Used(q) => pair[q] \in Stored \ active

LEMMA UsedStep ==
  ASSUME SystemInv, UsableStored, UsedRevoked, [Next]_vars
  PROVE  UsedRevoked'
<1> SUFFICES ASSUME NEW q \in Requests, Used(q)'
             PROVE  pair'[q] \in Stored' \ active'
  BY DEF UsedRevoked
<1>1. CASE Used(q)
  <2>1. route[q] # "none"
    BY <1>1 DEF Used
  <2>2. pair'[q] = pair[q]
    BY <2>1 DEF Next, Ask, AskFails, Open, Answer, TimesOut, DeadLetter, Settle, Take, TakeAgain, Begin,
      RunStep, Effect, CommitLogin, CommitRegister, RegisterLoses, CommitRefresh, RefreshRaises,
      CommitLogout, Validated, Done, Reply, RegisterError, Interrupt, client, vars, SystemInv, TypeOK
  <2>3. QED
    BY <1>1, <2>2, RevokedStays DEF UsedRevoked
<1>2. CASE ~Used(q)
  <2>1. route[q] = "none" => effects[q] = 0
    BY DEF SystemInv, StatusRight
  <2>2. PICK r \in Runs : \E p : Effect(r) /\ Done(r, job[r], p) /\ job[r] = q
    <3>1. ASSUME UNCHANGED <<effects, route>> PROVE FALSE
      BY <1>2, <3>1 DEF Used
    <3>2. ASSUME NEW x \in Requests, NEW rt \in Routes, NEW w, NEW g \in held \cup {NoPair},
                 Ask(x, rt, w, g) \/ AskFails(x, rt, w, g)
          PROVE  FALSE
      <4>1. /\ effects' = effects /\ route[x] = "none"
            /\ \A y \in Requests \ {x} : route'[y] = route[y]
        BY <3>2 DEF Ask, AskFails, Open, history, SystemInv, TypeOK
      <4>2. CASE x = q
        BY <2>1, <4>1, <4>2 DEF Used
      <4>3. CASE x # q
        BY <1>2, <4>1, <4>3 DEF Used
      <4>4. QED
        BY <4>2, <4>3
    <3>3. PICK r \in Runs : Effect(r)
      BY <3>1, <3>2 DEF Next, Answer, TimesOut, DeadLetter, Settle, Take, TakeAgain, Begin, RunStep,
        Reply, RegisterError, Interrupt, client, rows, history, vars
    <3>4. PICK p : Done(r, job[r], p)
      BY <3>1, <3>3 DEF Effect, CommitLogin, CommitRegister, RegisterLoses, CommitRefresh, RefreshRaises,
        CommitLogout, Validated, client, rows, history
    <3>5. job[r] = q
      BY <1>2, <3>4 DEF Done, Used, client, SystemInv, TypeOK
    <3>6. QED
      BY <3>3, <3>4, <3>5
  <2>3. UNCHANGED <<route, pair>> /\ route[q] \in {"refresh", "logout"}
    BY <2>2 DEF Done, client, Used
  <2>4. pair[q] \in held
    BY <2>3 DEF SystemInv, PairsRight, TokenRoutes
  <2>5. CommitRefresh(r, q) \/ CommitLogout(r, q)
    <3>1. ~RegisterLoses(r, q) /\ ~RefreshRaises(r, q)
      BY <2>2, <2>3 DEF RegisterLoses, RefreshRaises, Done, Finish, history, SystemInv, TypeOK
    <3>2. QED
      BY <2>2, <2>3, <3>1 DEF Effect, CommitLogin, CommitRegister, Validated
  <2>6. NewPair(q) \notin Stored
    BY <2>2, <2>3, <2>5, StoredGrows DEF Done, CommitRefresh, CommitLogout
  <2>7. pair[q] \in Stored /\ pair[q] # NewPair(q)
    BY <2>4, <2>6 DEF UsableStored
  <2>8. pair[q] \notin active'
    BY <2>5, <2>7 DEF CommitRefresh, CommitLogout
  <2>9. UsableStored'
    BY SessionsStep
  <2>10. held' = held
    BY <2>2 DEF Done, client
  <2>11. QED
    BY <2>3, <2>4, <2>8, <2>9, <2>10 DEF UsableStored
<1>3. QED
  BY <1>1, <1>2

(* b can no longer refresh the session a has exchanged or ended. *)
Barred(a, b) ==
  /\ Used(a)
  /\ route[b] = "refresh" /\ pair[b] = pair[a] =>
       effects[b] = 0 /\ \A r \in Runs : job[r] = b => pc[r] # "effect"

LEMMA BarredStep ==
  ASSUME SystemInv, UsableStored, UsedRevoked, [Next]_vars,
         NEW a \in Requests, NEW b \in Requests, Barred(a, b)
  PROVE  Barred(a, b)'
<1>1. a \in submitted /\ route[a] # "none" /\ effects[a] > 0
  BY DEF Barred, Used, SystemInv, StatusRight
<1>2. pair[a] \notin active
  BY DEF Barred, UsedRevoked
<1>3. ASSUME UNCHANGED <<route, pair, effects>>,
             \A r \in Runs : job'[r] = b /\ pc'[r] = "effect" => job[r] = b /\ pc[r] = "effect"
      PROVE  Barred(a, b)'
  BY <1>3 DEF Barred, Used
<1>4. ASSUME NEW x \in Requests, NEW rt \in Routes, NEW w, NEW g \in held \cup {NoPair},
             Ask(x, rt, w, g) \/ AskFails(x, rt, w, g)
      PROVE  Barred(a, b)'
  <2>1. /\ UNCHANGED <<effects, job, pc>> /\ route[x] = "none" /\ x \notin submitted /\ effects[x] = 0
        /\ \A y \in Requests \ {x} : route'[y] = route[y] /\ pair'[y] = pair[y]
    BY <1>4 DEF Ask, AskFails, Open, run, history, SystemInv, StatusRight, TypeOK
  <2>2. \A r \in Runs : job[r] = x => pc[r] # "effect"
    BY <2>1, SystemAssumption DEF SystemInv, TypeOK
  <2>3. CASE x = b
    BY <1>1, <2>1, <2>2, <2>3 DEF Barred, Used
  <2>4. CASE x # b
    BY <1>1, <2>1, <2>4 DEF Barred, Used
  <2>5. QED
    BY <2>3, <2>4
<1>5. ASSUME NEW r \in Runs, NEW q \in Requests, Take(r, q) \/ TakeAgain(r, q)
      PROVE  Barred(a, b)'
  <2>1. Begin(r, q) /\ UNCHANGED <<route, pair, effects, active>> /\ job' = [job EXCEPT ![r] = q]
    BY <1>5 DEF Take, TakeAgain, Begin, client
  <2>2. PICK v \in HandlerOf(RoutingKey[route[q]], q, expired') :
          pc' = [pc EXCEPT ![r] = IF v = "ok" THEN "effect" ELSE "reply"]
    BY <2>1 DEF Begin
  <2>3. CASE q = b /\ route[b] = "refresh" /\ pair[b] = pair[a]
    <3>1. v # "ok"
      BY <1>2, <2>2, <2>3 DEF HandlerOf, RoutingKey, RefreshToken
    <3>2. \A s \in Runs : job'[s] = b => pc'[s] # "effect"
      BY <2>1, <2>2, <2>3, <3>1 DEF Barred, SystemInv, TypeOK
    <3>3. QED
      BY <2>1, <3>2 DEF Barred, Used
  <2>4. CASE q = b /\ ~(route[b] = "refresh" /\ pair[b] = pair[a])
    BY <2>1, <2>4 DEF Barred, Used
  <2>5. CASE q # b
    BY <1>3, <2>1, <2>2, <2>5 DEF SystemInv, TypeOK
  <2>6. QED
    BY <2>3, <2>4, <2>5
<1>6. ASSUME NEW r \in Runs, Effect(r)
      PROVE  Barred(a, b)'
  <2>1. CASE UNCHANGED <<route, pair, effects>> /\ pc'[r] # "effect" /\ \A s \in Runs \ {r} : pc'[s] = pc[s] /\ job'[s] = job[s]
    BY <1>3, <2>1
  <2>2. ASSUME NEW p, Done(r, job[r], p)
        PROVE  Barred(a, b)'
    <3>1. /\ UNCHANGED <<route, pair, job>> /\ pc' = [pc EXCEPT ![r] = "reply"]
          /\ effects' = [effects EXCEPT ![job[r]] = @ + 1] /\ pc[r] = "effect" /\ job[r] \in Requests
      BY <1>6, <2>2 DEF Done, Effect, client, SystemInv, TypeOK
    <3>2. \A s \in Runs : pc'[s] = "effect" => pc[s] = "effect"
      BY <3>1 DEF SystemInv, TypeOK
    <3>3. effects'[a] > 0
      BY <1>1, <3>1 DEF SystemInv, TypeOK
    <3>4. route[b] = "refresh" /\ pair[b] = pair[a] => job[r] # b
      BY <3>1 DEF Barred
    <3>5. route[b] = "refresh" /\ pair[b] = pair[a] => effects'[b] = effects[b]
      BY <3>1, <3>4 DEF SystemInv, TypeOK
    <3>6. QED
      BY <3>1, <3>2, <3>3, <3>5 DEF Barred, Used
  <2>3. CASE RegisterLoses(r, job[r]) \/ RefreshRaises(r, job[r])
    BY <2>1, <2>3 DEF RegisterLoses, RefreshRaises, Finish, client, history, SystemInv, TypeOK
  <2>4. QED
    BY <1>6, <2>2, <2>3 DEF Effect, CommitLogin, CommitRegister, CommitRefresh, CommitLogout, Validated
<1>7. ASSUME NEW r \in Runs, Reply(r) \/ RegisterError(r) \/ Interrupt(r)
      PROVE  Barred(a, b)'
  BY <1>3, <1>7 DEF Reply, RegisterError, Interrupt, Finish, client, history, SystemInv, TypeOK
<1>8. ASSUME NEW x \in Requests, Answer(x) \/ TimesOut(x) \/ DeadLetter(x) \/ Settle(x)
      PROVE  Barred(a, b)'
  BY <1>3, <1>8 DEF Answer, TimesOut, DeadLetter, Settle, client, run, history
<1>9. CASE UNCHANGED vars
  BY <1>3, <1>9 DEF vars, client, run, history
<1>10. QED
  BY <1>4, <1>5, <1>6, <1>7, <1>8, <1>9 DEF Next, RunStep

(* Once a token has been exchanged or logged out with, no request that is  *)
(* made afterwards refreshes with it, however often its message is         *)
(* delivered and whatever runs of the first request are still under way.   *)
THEOREM SpentTokensRefused ==
  Spec => \A a, b \in Requests :
    [](Used(a) /\ route[b] = "none"
         => [](route[b] = "refresh" /\ pair[b] = pair[a] => effects[b] = 0))
<1> SUFFICES ASSUME NEW a \in Requests, NEW b \in Requests
             PROVE  Spec => [](Used(a) /\ route[b] = "none"
                      => [](route[b] = "refresh" /\ pair[b] = pair[a] => effects[b] = 0))
  OBVIOUS
<1>1. Init => UsedRevoked
  BY DEF Init, UsedRevoked, Used
<1>2. Spec => [](SystemInv /\ UsableStored /\ UsedRevoked)
  BY <1>1, UsedStep, TokensStored, PTL DEF Spec
<1>3. Used(a) /\ route[b] = "none" => Barred(a, b)
  BY DEF Barred
<1>4. SystemInv /\ UsableStored /\ UsedRevoked /\ [Next]_vars /\ Barred(a, b) => Barred(a, b)'
  BY BarredStep
<1>5. Barred(a, b) => (route[b] = "refresh" /\ pair[b] = pair[a] => effects[b] = 0)
  BY DEF Barred
<1>6. QED
  BY <1>2, <1>3, <1>4, <1>5, PTL DEF Spec

----------------------------------------------------------------------------
(* The register of accounts: what the REST routes tell about registrations *)
(* is what AccountRegistry lets be told, as for the transactions of        *)
(* Registration.  All requests want one user name and e-mail here.         *)

(* A request whose message was never published has asked for nothing. *)
Registering(q) == q \in submitted /\ route[q] = "register"

Heard(q) ==
  IF ~Registering(q) THEN "none"
  ELSE CASE status[q] = 0   -> "none"
         [] status[q] = 200 -> "ok"
         [] status[q] = 409 -> "exists"
         [] status[q] = 504 -> "timeout"
         [] OTHER           -> "error"

Owner == {owner} \ {Nobody}

Askers == {q \in Requests : Registering(q)} \cup Owner

AskedFor == [q \in Requests \cup {Earlier} |-> IF q \in Askers THEN "it" ELSE "nothing"]

HeardBy == [q \in Requests \cup {Earlier} |-> Heard(q)]

Registry ==
  INSTANCE AccountRegistry WITH
    Requests <- Requests \cup {Earlier},
    Names    <- {"it"},      Mails  <- {"it"},
    NoName   <- "nothing",   NoMail <- "nothing",
    name     <- AskedFor,    mail   <- AskedFor,
    asked    <- Askers,
    accounts <- Owner,
    told     <- HeardBy,
    faulty   <- faults > 0

(* Why a registration is answered as it is: without a fault, a refusal is  *)
(* for somebody else's account.                                            *)
Due(q, code) ==
  route[q] = "register" =>
    /\ code \in {"ok", "auth.user_exists", "common.internal_error"}
    /\ code = "ok" => owner = q
    /\ code = "auth.user_exists" => owner # Nobody
    /\ code # "ok" => owner \notin {Nobody, q} \/ faults > 0

AnswersDue ==
  /\ \A r \in Runs : pc[r] = "reply" => Due(job[r], verdict[r])
  /\ \A q \in Requests : \A m \in replies[q] : Due(q, m.code)

HeardDue ==
  \A q \in Requests :
    /\ Heard(q) = "exists" => owner # Nobody
    /\ Heard(q) = "error" => owner # Nobody \/ faults > 0

OwnerRegistered ==
  /\ owner \in Requests => route[owner] = "register"
  /\ \A q \in Requests : route[q] = "register" => (owner = q <=> effects[q] > 0)

(* Only a fault has a registration delivered again; one that took effect   *)
(* is about to be answered until it is handled.                            *)
OnceRegistered ==
  /\ repeated \subseteq submitted
  /\ \A q \in Requests : route[q] = "register" /\ faults = 0 =>
       /\ q \notin repeated
       /\ effects[q] > 0 => q \in handled \/ \E r \in Runs : job[r] = q

RegisterInv == AnswersDue /\ HeardDue /\ OwnerRegistered /\ OnceRegistered

LEMMA DueStays ==
  ASSUME NEW q \in Requests, NEW code, Due(q, code), route'[q] = route[q],
         owner # Nobody => owner' = owner, faults > 0 => faults' > 0
  PROVE  Due(q, code)'
BY SystemAssumption DEF Due

(* What the steps of runs leave alone. *)
LEMMA HeardStays ==
  ASSUME HeardDue, UNCHANGED <<route, status, submitted>>,
         owner # Nobody => owner' = owner, faults > 0 => faults' > 0
  PROVE  HeardDue' /\ \A q \in Requests : Heard(q)' = Heard(q)
<1>1. \A q \in Requests : Heard(q)' = Heard(q)
  BY DEF Heard, Registering
<1>2. QED
  BY <1>1 DEF HeardDue

LEMMA RegisterAsk ==
  ASSUME SystemInv, RegisterInv, NEW q \in Requests, NEW r \in Routes, NEW w,
         NEW p \in held \cup {NoPair}, Ask(q, r, w, p) \/ AskFails(q, r, w, p)
  PROVE  RegisterInv'
<1> USE DEF RegisterInv
<1>1. /\ route[q] = "none" /\ q \notin submitted /\ effects[q] = 0 /\ owner # q
      /\ route' = [route EXCEPT ![q] = r]
      /\ UNCHANGED <<replies, handled, pc, job, verdict, owner, effects, repeated>>
      /\ submitted' \subseteq submitted \cup {q} /\ submitted \subseteq submitted'
      /\ faults > 0 => faults' > 0
      /\ faults' = 0 => faults = 0
  BY SystemAssumption
     DEF Ask, AskFails, Open, Fault, Queue!Submit, queue, run, rows, history, SystemInv, TypeOK,
         StatusRight, OwnerRegistered
<1>2. \A x \in Requests \ {q} : route'[x] = route[x]
  BY <1>1 DEF SystemInv, TypeOK
<1>3. AnswersDue'
  <2>1. \A s \in Runs : pc[s] = "reply" => job[s] \in Requests \ {q}
    BY <1>1 DEF SystemInv, TypeOK
  <2>2. \A x \in Requests : replies[x] # {} => x # q
    BY <1>1 DEF SystemInv, RepliesRight, TypeOK
  <2>3. \A x \in Requests \ {q} : \A c : Due(x, c) => Due(x, c)'
    BY <1>1, <1>2, DueStays
  <2>4. QED
    BY <1>1, <2>1, <2>2, <2>3 DEF AnswersDue
<1>4. HeardDue'
  <2>1. Heard(q)' = "none"
    <3>1. CASE Ask(q, r, w, p)
      BY <1>1, <3>1 DEF Ask, Heard, SystemInv, StatusRight
    <3>2. CASE AskFails(q, r, w, p)
      BY <1>1, <3>2 DEF AskFails, queue, Heard, Registering
    <3>3. QED
      BY <3>1, <3>2
  <2>2. ASSUME NEW x \in Requests \ {q} PROVE Heard(x)' = Heard(x)
    <3>1. status'[x] = status[x] /\ (x \in submitted' <=> x \in submitted)
      BY <1>1 DEF Ask, AskFails, SystemInv, TypeOK
    <3>2. QED
      BY <1>2, <3>1 DEF Heard, Registering
  <2>3. QED
    BY <1>1, <2>1, <2>2 DEF HeardDue
<1>5. OwnerRegistered'
  BY <1>1, <1>2, SystemAssumption DEF OwnerRegistered
<1>6. OnceRegistered'
  BY <1>1, <1>2 DEF OnceRegistered
<1>7. QED
  BY <1>3, <1>4, <1>5, <1>6

(* The status codes of the register route. *)
LEMMA RegisterStatus ==
  /\ StatusOf("register", "ok") = 200
  /\ StatusOf("register", "auth.user_exists") = 409
  /\ StatusOf("register", "common.internal_error") = 500
  /\ StatusOf("register", "rpc.timeout") = 504
BY DEF StatusOf, register, get_http_status

(* What its client hears of a registration when its request ends. *)
LEMMA HeardWhenTold ==
  ASSUME SystemInv, RegisterInv, NEW q \in Requests, Answer(q) \/ TimesOut(q)
  PROVE  /\ \A x \in Requests \ {q} : Heard(x)' = Heard(x)
         /\ route[q] # "register" => Heard(q)' = Heard(q)
         /\ route[q] = "register" =>
              /\ Heard(q) = "none" /\ Registering(q)
              /\ Heard(q)' \in {"ok", "exists", "error", "timeout"}
              /\ Heard(q)' = "ok" => owner = q
              /\ Heard(q)' = "exists" => owner # Nobody
              /\ Heard(q)' = "error" => owner # Nobody \/ faults > 0
              /\ Heard(q)' \in {"exists", "error"} => owner # q \/ faults > 0
<1>1. Waiting(q) /\ UNCHANGED <<route, submitted>>
  BY DEF Answer, TimesOut, queue
<1>2. PICK code : /\ status' = [status EXCEPT ![q] = StatusOf(route[q], code)]
                  /\ code = "rpc.timeout" \/ Due(q, code)
  BY DEF Answer, TimesOut, RegisterInv, AnswersDue
<1>3. \A x \in Requests \ {q} : Heard(x)' = Heard(x)
  BY <1>1, <1>2 DEF Heard, Registering, SystemInv, TypeOK
<1>4. route[q] # "register" => Heard(q)' = Heard(q)
  BY <1>1 DEF Heard, Registering
<1>5. ASSUME route[q] = "register"
      PROVE  /\ Heard(q) = "none" /\ Registering(q)
             /\ Heard(q)' \in {"ok", "exists", "error", "timeout"}
             /\ Heard(q)' = "ok" => owner = q
             /\ Heard(q)' = "exists" => owner # Nobody
             /\ Heard(q)' = "error" => owner # Nobody \/ faults > 0
             /\ Heard(q)' \in {"exists", "error"} => owner # q \/ faults > 0
  <2>1. Heard(q) = "none" /\ Registering(q) /\ Registering(q)'
    BY <1>1, <1>5 DEF Waiting, Heard, Registering
  <2>2. status'[q] = StatusOf("register", code)
    BY <1>2, <1>5 DEF SystemInv, TypeOK
  <2>3. CASE code = "rpc.timeout"
    BY <2>1, <2>2, <2>3, RegisterStatus DEF Heard
  <2>4. CASE Due(q, code)
    <3>1. code \in {"ok", "auth.user_exists", "common.internal_error"}
      BY <1>5, <2>4 DEF Due
    <3>2. Heard(q)' = CASE code = "ok"               -> "ok"
                        [] code = "auth.user_exists" -> "exists"
                        [] OTHER                     -> "error"
      BY <2>1, <2>2, <3>1, RegisterStatus DEF Heard
    <3>3. QED
      BY <1>5, <2>1, <2>4, <3>1, <3>2 DEF Due
  <2>5. QED
    BY <1>2, <2>3, <2>4
<1>6. QED
  BY <1>3, <1>4, <1>5

LEMMA RegisterTell ==
  ASSUME SystemInv, RegisterInv, NEW q \in Requests, Answer(q) \/ TimesOut(q)
  PROVE  RegisterInv'
<1> USE DEF RegisterInv
<1>1. UNCHANGED <<route, submitted, handled, pc, job, verdict, owner, effects, repeated, faults>>
  BY DEF Answer, TimesOut, queue, run, rows, history
<1>2. \A x \in Requests : \A c : Due(x, c) => Due(x, c)'
  BY <1>1, DueStays
<1>3. \A x \in Requests : replies'[x] \subseteq replies[x]
  BY DEF Answer, TimesOut, SystemInv, TypeOK
<1>4. AnswersDue'
  BY <1>1, <1>2, <1>3 DEF AnswersDue, SystemInv, TypeOK
<1>5. HeardDue'
  BY <1>1, HeardWhenTold DEF HeardDue
<1>6. OwnerRegistered' /\ OnceRegistered'
  BY <1>1 DEF OwnerRegistered, OnceRegistered
<1>7. QED
  BY <1>4, <1>5, <1>6

LEMMA RegisterBegin ==
  ASSUME SystemInv, RegisterInv, NEW r \in Runs, NEW q \in Requests, Take(r, q) \/ TakeAgain(r, q)
  PROVE  RegisterInv'
<1> USE DEF RegisterInv
<1>1. /\ Begin(r, q) /\ q \in submitted /\ route[q] \in Routes /\ pc[r] = "idle" /\ job[r] = Nobody
      /\ UNCHANGED <<route, status, replies, submitted, handled, owner, effects>>
      /\ job' = [job EXCEPT ![r] = q]
      /\ faults > 0 => faults' > 0
      /\ faults' = 0 => faults = 0
  BY SystemAssumption
     DEF Take, TakeAgain, Fault, Begin, client, FirstIdle, Idle, SystemInv, TypeOK
<1>2. PICK v \in HandlerOf(RoutingKey[route[q]], q, expired') :
        /\ verdict' = [verdict EXCEPT ![r] = v]
        /\ pc' = [pc EXCEPT ![r] = IF v = "ok" THEN "effect" ELSE "reply"]
  BY <1>1 DEF Begin
<1>3. \A s \in Runs \ {r} : pc'[s] = pc[s] /\ job'[s] = job[s] /\ verdict'[s] = verdict[s]
  BY <1>1, <1>2 DEF SystemInv, TypeOK
<1>4. /\ pc'[r] = (IF v = "ok" THEN "effect" ELSE "reply")
      /\ job'[r] = q /\ verdict'[r] = v
  BY <1>1, <1>2 DEF SystemInv, TypeOK
<1>5. \A x \in Requests : \A c : Due(x, c) => Due(x, c)'
  BY <1>1, DueStays
<1>6. route[q] = "register" /\ effects[q] > 0 => faults' # 0
  BY <1>1, SystemAssumption DEF Take, TakeAgain, Fault, Serving, OnceRegistered, SystemInv, TypeOK
<1>7. v # "ok" => Due(q, v)'
  <2> SUFFICES ASSUME v # "ok", route[q] = "register" PROVE Due(q, v)'
    BY <1>1 DEF Due
  <2>1. v = "auth.user_exists" /\ owner # Nobody
    BY <1>2 DEF HandlerOf, RoutingKey, Register
  <2>2. owner = q => faults' # 0
    BY <1>6 DEF OwnerRegistered
  <2>3. faults' \in Nat
    BY SystemAssumption DEF Take, TakeAgain, Fault, SystemInv, TypeOK
  <2>4. faults' # 0 => faults' > 0
    BY <2>3
  <2>5. QED
    BY <1>1, <2>1, <2>2, <2>4 DEF Due
<1>8. AnswersDue'
  <2>1. ASSUME NEW s \in Runs, pc'[s] = "reply" PROVE Due(job[s], verdict[s])'
    <3>1. CASE s = r
      BY <1>4, <1>7, <2>1, <3>1
    <3>2. CASE s # r
      BY <1>3, <1>5, <2>1, <3>2 DEF AnswersDue, SystemInv, TypeOK
    <3>3. QED
      BY <3>1, <3>2
  <2>2. QED
    BY <1>1, <1>5, <2>1 DEF AnswersDue
<1>9. HeardDue'
  BY <1>1, HeardStays
<1>10. OwnerRegistered'
  BY <1>1 DEF OwnerRegistered
<1>11. OnceRegistered'
  <2>1. repeated' \subseteq repeated \cup {q}
    BY DEF Take, TakeAgain
  <2>2. route[q] = "register" /\ faults' = 0 => repeated' = repeated
    <3>1. CASE Take(r, q)
      BY <1>6, <3>1 DEF Take
    <3>2. CASE TakeAgain(r, q)
      BY <3>2 DEF TakeAgain, Fault, SystemInv, TypeOK
    <3>3. QED
      BY <3>1, <3>2
  <2>3. \A x \in Requests : (\E s \in Runs : job[s] = x) => \E s \in Runs : job'[s] = x
    BY <1>1, <1>3, SystemAssumption
  <2>4. QED
    BY <1>1, <2>1, <2>2, <2>3 DEF OnceRegistered
<1>12. QED
  BY <1>8, <1>9, <1>10, <1>11

(* A step of one run, which answers q as it must or not at all. *)
LEMMA RegisterRun ==
  ASSUME SystemInv, RegisterInv, NEW r \in Runs, job[r] \in Requests,
         UNCHANGED <<route, status, submitted, repeated>>,
         \A s \in Runs \ {r} : pc'[s] = pc[s] /\ job'[s] = job[s] /\ verdict'[s] = verdict[s],
         \A q \in Requests : \A m \in replies'[q] :
           m \in replies[q] \/ (q = job[r] /\ m.code = verdict[r] /\ pc[r] = "reply"),
         pc'[r] = "reply" => Due(job[r], verdict[r])' /\ job'[r] = job[r],
         handled \subseteq handled',
         owner # Nobody => owner' = owner, faults > 0 => faults' > 0, faults' = 0 => faults = 0,
         OwnerRegistered',
         \A q \in Requests \ {job[r]} : effects'[q] = effects[q],
         route[job[r]] = "register" =>
           job[r] \in handled' \/ job'[r] = job[r] \/ faults' # 0
  PROVE  RegisterInv'
<1> USE DEF RegisterInv
<1>1. \A x \in Requests : \A c : Due(x, c) => Due(x, c)'
  BY DueStays
<1>2. AnswersDue'
  <2>1. ASSUME NEW s \in Runs, pc'[s] = "reply" PROVE Due(job[s], verdict[s])'
    <3>1. CASE s = r
      BY <2>1, <3>1
    <3>2. CASE s # r
      BY <1>1, <2>1, <3>2 DEF AnswersDue, SystemInv, TypeOK
    <3>3. QED
      BY <3>1, <3>2
  <2>2. ASSUME NEW q \in Requests, NEW m \in replies'[q] PROVE Due(q, m.code)'
    BY <1>1 DEF AnswersDue
  <2>3. QED
    BY <2>1, <2>2 DEF AnswersDue
<1>3. HeardDue'
  BY HeardStays
<1>4. OnceRegistered'
  <2>1. \A x \in Requests \ {job[r]} :
          (\E s \in Runs : job[s] = x) => \E s \in Runs : job'[s] = x
    OBVIOUS
  <2>2. QED
    BY <2>1 DEF OnceRegistered
<1>5. QED
  BY <1>2, <1>3, <1>4

LEMMA RegisterEffect ==
  ASSUME SystemInv, RegisterInv, NEW r \in Runs, Effect(r)
  PROVE  RegisterInv'
<1> DEFINE q == job[r]
<1>1. /\ pc[r] = "effect" /\ q \in Requests /\ effects[q] \in Nat
      /\ UNCHANGED <<route, status, replies, submitted, handled, repeated, faults>>
      /\ \A s \in Runs \ {r} : pc'[s] = pc[s] /\ job'[s] = job[s] /\ verdict'[s] = verdict[s]
      /\ owner # Nobody => owner' = owner
      /\ verdict[r] = "ok"
  BY DEF Effect, CommitLogin, CommitRegister, RegisterLoses, CommitRefresh, RefreshRaises, CommitLogout,
         Validated, Done, Finish, client, queue, rows, history, SystemInv, TypeOK, RunsRight
<1>2. \A x \in Requests \ {q} : effects'[x] = effects[x]
  BY <1>1 DEF Effect, CommitLogin, CommitRegister, RegisterLoses, CommitRefresh, RefreshRaises,
         CommitLogout, Validated, Done, history, SystemInv, TypeOK
<1>3. CASE route[q] # "register"
  <2>1. pc'[r] = "reply" => job'[r] = job[r]
    BY <1>1, <1>3, SystemAssumption DEF Effect, CommitLogin, CommitRegister, RegisterLoses, CommitRefresh,
       RefreshRaises, CommitLogout, Validated, Done, Finish, SystemInv, TypeOK
  <2>2. owner' = owner
    BY <1>3 DEF Effect, CommitLogin, CommitRegister, RegisterLoses, CommitRefresh, RefreshRaises,
       CommitLogout, Validated, rows
  <2>3. OwnerRegistered'
    BY <1>1, <1>2, <1>3, <2>2 DEF RegisterInv, OwnerRegistered
  <2>4. pc'[r] = "reply" => Due(job[r], verdict[r])'
    BY <1>1, <1>3, <2>1 DEF Due
  <2>5. QED
    BY <1>1, <1>2, <1>3, <2>1, <2>3, <2>4, RegisterRun
<1>4. CASE CommitRegister(r, q)
  <2>1. /\ route[q] = "register" /\ owner = Nobody /\ owner' = q /\ effects'[q] > 0
        /\ job' = job /\ verdict' = verdict
    BY <1>1, <1>4 DEF CommitRegister, Done, SystemInv, TypeOK
  <2>2. Due(job[r], verdict[r])'
    BY <1>1, <2>1 DEF Due
  <2>3. OwnerRegistered'
    BY <1>1, <1>2, <2>1, SystemAssumption DEF RegisterInv, OwnerRegistered
  <2>4. QED
    BY <1>1, <1>2, <2>1, <2>2, <2>3, RegisterRun
<1>5. CASE RegisterLoses(r, q)
  <2>1. /\ route[q] = "register" /\ owner # Nobody /\ UNCHANGED <<owner, effects, job>>
        /\ verdict'[r] = "common.internal_error"
    BY <1>5 DEF RegisterLoses, rows, history, SystemInv, TypeOK
  <2>2. owner = q => faults # 0
    BY <1>1, <2>1 DEF SystemInv, RunsRight, RegisterInv, OwnerRegistered, OnceRegistered
  <2>3. faults # 0 => faults > 0
    BY DEF SystemInv, TypeOK
  <2>4. Due(job[r], verdict[r])'
    BY <1>1, <2>1, <2>2, <2>3 DEF Due
  <2>5. OwnerRegistered'
    BY <1>1, <2>1 DEF RegisterInv, OwnerRegistered
  <2>6. QED
    BY <1>1, <1>2, <2>1, <2>4, <2>5, RegisterRun
<1>6. QED
  BY <1>3, <1>4, <1>5 DEF Effect, CommitLogin, CommitRefresh, RefreshRaises, CommitLogout, Validated

LEMMA RegisterOther ==
  ASSUME SystemInv, RegisterInv, NEW r \in Runs, Reply(r) \/ RegisterError(r) \/ Interrupt(r)
  PROVE  RegisterInv'
<1>1. /\ job[r] \in Requests
      /\ UNCHANGED <<route, status, submitted, repeated, owner, effects>>
      /\ \A s \in Runs \ {r} : pc'[s] = pc[s] /\ job'[s] = job[s] /\ verdict'[s] = verdict[s]
      /\ handled \subseteq handled'
      /\ faults > 0 => faults' > 0
      /\ faults' = 0 => faults = 0
  BY DEF Reply, RegisterError, Interrupt, Finish, Fault, Queue!Handle, client, queue, rows, history,
         SystemInv, TypeOK
<1>2. OwnerRegistered'
  BY <1>1 DEF RegisterInv, OwnerRegistered
<1>3. CASE Reply(r)
  <2>1. pc'[r] # "reply" /\ job[r] \in handled'
    BY <1>3 DEF Reply, Finish, Queue!Handle, SystemInv, TypeOK
  <2>2. \A q \in Requests : \A m \in replies'[q] :
          m \in replies[q] \/ (q = job[r] /\ m.code = verdict[r] /\ pc[r] = "reply")
    BY <1>1, <1>3 DEF Reply, SystemInv, TypeOK
  <2>3. QED
    BY <1>1, <1>2, <2>1, <2>2, RegisterRun
<1>4. CASE RegisterError(r)
  <2>1. replies' = replies /\ job' = job /\ verdict'[r] = "common.internal_error" /\ faults' > 0
    BY <1>4, SystemAssumption DEF RegisterError, Fault, client, SystemInv, TypeOK
  <2>2. Due(job[r], verdict[r])'
    BY <1>1, <2>1 DEF Due
  <2>3. QED
    BY <1>1, <1>2, <2>1, <2>2, RegisterRun
<1>5. CASE Interrupt(r)
  <2>1. replies' = replies /\ pc'[r] # "reply" /\ faults' # 0
    BY <1>5 DEF Interrupt, Finish, Fault, client, SystemInv, TypeOK
  <2>2. QED
    BY <1>1, <1>2, <2>1, RegisterRun
<1>6. QED
  BY <1>3, <1>4, <1>5

LEMMA RegisterStep == SystemInv /\ RegisterInv /\ [Next]_vars => RegisterInv'
<1> SUFFICES ASSUME SystemInv, RegisterInv, [Next]_vars PROVE RegisterInv'
  OBVIOUS
<1>1. ASSUME NEW q \in Requests, NEW r \in Routes, NEW w \in {"right", "wrong", "none"},
             NEW p \in held \cup {NoPair}, Ask(q, r, w, p) \/ AskFails(q, r, w, p)
      PROVE  RegisterInv'
  BY <1>1, RegisterAsk
<1>2. ASSUME UNCHANGED <<route, status, replies, submitted, handled, pc, job, verdict, owner, effects,
                         repeated, faults>>
      PROVE  RegisterInv'
  BY <1>2 DEF RegisterInv, AnswersDue, Due, HeardDue, Heard, Registering, OwnerRegistered, OnceRegistered
<1>3. ASSUME NEW q \in Requests, DeadLetter(q) \/ Settle(q) PROVE RegisterInv'
  BY <1>2, <1>3 DEF DeadLetter, Settle, Queue!DeadLetter, Queue!Settle, client, run, rows, history
<1>4. CASE UNCHANGED vars
  BY <1>2, <1>4 DEF vars, client, queue, run, rows, history
<1>5. QED
  BY <1>1, <1>3, <1>4, RegisterTell, RegisterBegin, RegisterEffect, RegisterOther DEF Next, RunStep

LEMMA RegistrationsDue == Spec => [](SystemInv /\ RegisterInv)
<1>1. Init => RegisterInv
  <2> SUFFICES ASSUME Init PROVE RegisterInv
    OBVIOUS
  <2>1. AnswersDue /\ HeardDue
    BY DEF Init, AnswersDue, HeardDue, Heard, Registering, Queue!Init
  <2>2. OwnerRegistered /\ OnceRegistered
    BY SystemAssumption DEF Init, OwnerRegistered, OnceRegistered, Queue!Init
  <2>3. QED
    BY <2>1, <2>2 DEF RegisterInv
<1>2. QED
  BY <1>1, SystemInvariant, RegisterStep, PTL DEF Spec

(* Steps that commit no account and answer no registration. *)
LEMMA RegistryUntouched ==
  ASSUME TypeOK, owner' = owner, \A q \in Requests : Registering(q)' = Registering(q),
         \A q \in Requests : Heard(q)' = Heard(q), Earlier \notin submitted',
         faults' = faults \/ faults' = faults + 1
  PROVE  [Registry!Next]_Registry!registryVars
<1>1. Askers' = Askers /\ Owner' = Owner
  BY DEF Askers, Owner
<1>2. Heard(Earlier) = "none" /\ Heard(Earlier)' = "none"
  BY SystemAssumption DEF Heard, Registering, TypeOK
<1>3. AskedFor' = AskedFor /\ HeardBy' = HeardBy
  BY <1>1, <1>2 DEF AskedFor, HeardBy
<1>4. CASE faults' = faults
  BY <1>1, <1>3, <1>4 DEF Registry!registryVars
<1>5. CASE faults' = faults + 1
  <2>1. faults' > 0
    BY <1>5, SystemAssumption DEF TypeOK
  <2>2. Registry!Fail
    BY <1>1, <1>3, <2>1 DEF Registry!Fail
  <2>3. QED
    BY <2>2 DEF Registry!Next
<1>6. QED
  BY <1>4, <1>5

LEMMA RegistryAsk ==
  ASSUME SystemInv, RegisterInv, NEW q \in Requests, NEW r \in Routes, NEW w,
         NEW p \in held \cup {NoPair}, Ask(q, r, w, p) \/ AskFails(q, r, w, p)
  PROVE  [Registry!Next]_Registry!registryVars
<1>1. /\ route[q] = "none" /\ q \notin submitted /\ status[q] = 0 /\ owner # q
      /\ route' = [route EXCEPT ![q] = r]
      /\ UNCHANGED owner
  BY SystemAssumption DEF Ask, AskFails, Open, rows, SystemInv, StatusRight, RegisterInv, OwnerRegistered
<1>2. /\ submitted' \subseteq Requests
      /\ \A x \in Requests \ {q} :
           route'[x] = route[x] /\ status'[x] = status[x] /\ (x \in submitted' <=> x \in submitted)
  BY <1>1 DEF Ask, AskFails, Queue!Submit, queue, SystemInv, TypeOK
<1>3. \A x \in Requests \ {q} : Registering(x)' = Registering(x) /\ Heard(x)' = Heard(x)
  BY <1>2 DEF Heard, Registering
<1>4. ~Registering(q) /\ Heard(q) = "none"
  BY <1>1 DEF Heard, Registering
<1>5. CASE Ask(q, r, w, p) /\ r = "register"
  <2>1. Registering(q)' /\ Heard(q)' = "none"
    BY <1>1, <1>5 DEF Ask, Queue!Submit, Heard, Registering, SystemInv, TypeOK
  <2>2. Askers' = Askers \cup {q} /\ q \notin Askers /\ Owner' = Owner
    BY <1>1, <1>3, <1>4, <2>1 DEF Askers, Owner
  <2>3. AskedFor' = [AskedFor EXCEPT ![q] = "it"]
    BY <2>2 DEF AskedFor
  <2>4. Heard(Earlier) = "none" /\ Heard(Earlier)' = "none"
    BY <1>2, SystemAssumption DEF Heard, Registering, SystemInv, TypeOK
  <2>5. HeardBy' = HeardBy
    BY <1>3, <1>4, <2>1, <2>4 DEF HeardBy
  <2>6. Registry!Ask(q, "it", "it")
    BY <1>5, <2>2, <2>3, <2>5 DEF Ask, Registry!Ask
  <2>7. QED
    BY <2>6 DEF Registry!Next
<1>6. CASE ~(Ask(q, r, w, p) /\ r = "register")
  <2>1. ~Registering(q)'
    BY <1>1, <1>6 DEF AskFails, queue, Registering, SystemInv, TypeOK
  <2>2. Heard(q)' = "none"
    BY <2>1 DEF Heard
  <2>3. faults' = faults \/ faults' = faults + 1
    BY DEF Ask, AskFails, Fault
  <2>4. \A x \in Requests : Registering(x)' = Registering(x) /\ Heard(x)' = Heard(x)
    BY <1>3, <1>4, <2>1, <2>2 DEF Registering
  <2>5. Earlier \notin submitted'
    BY <1>2, SystemAssumption
  <2>6. QED
    BY <1>1, <2>3, <2>4, <2>5, RegistryUntouched DEF SystemInv
<1>7. QED
  BY <1>5, <1>6

LEMMA RegistryTell ==
  ASSUME SystemInv, RegisterInv, NEW q \in Requests, Answer(q) \/ TimesOut(q)
  PROVE  [Registry!Next]_Registry!registryVars
<1>1. UNCHANGED <<route, submitted, owner, faults>>
  BY DEF Answer, TimesOut, queue, rows
<1>2. \A x \in Requests : Registering(x)' = Registering(x)
  BY <1>1 DEF Registering
<1>3. Earlier \notin submitted /\ Earlier \notin submitted'
  BY <1>1, SystemAssumption DEF SystemInv, TypeOK
<1>4. CASE route[q] # "register"
  <2>1. \A x \in Requests : Heard(x)' = Heard(x)
    BY <1>4, HeardWhenTold
  <2>2. QED
    BY <1>1, <1>2, <1>3, <2>1, RegistryUntouched DEF SystemInv
<1>5. CASE route[q] = "register"
  <2>1. /\ Heard(q) = "none" /\ Registering(q)
        /\ Heard(q)' \in {"ok", "exists", "error", "timeout"}
        /\ Heard(q)' = "ok" => owner = q
        /\ Heard(q)' = "exists" => owner # Nobody
        /\ Heard(q)' = "error" => owner # Nobody \/ faults > 0
        /\ Heard(q)' \in {"exists", "error"} => owner # q \/ faults > 0
        /\ \A x \in Requests \ {q} : Heard(x)' = Heard(x)
    BY <1>5, HeardWhenTold
  <2>2. PICK a \in {"ok", "exists", "error", "timeout"} : a = Heard(q)'
    BY <2>1
  <2>3. Askers' = Askers /\ Owner' = Owner /\ q \in Askers
    BY <1>1, <1>2, <2>1 DEF Askers, Owner
  <2>4. AskedFor' = AskedFor
    BY <2>3 DEF AskedFor
  <2>5. Heard(Earlier) = "none" /\ Heard(Earlier)' = "none"
    BY <1>3 DEF Heard, Registering
  <2>6. HeardBy[q] = "none" /\ HeardBy' = [HeardBy EXCEPT ![q] = a]
    BY <2>1, <2>2, <2>5, SystemAssumption DEF HeardBy
  <2>7. owner # Nobody => Registry!Owned(q)
    <3>1. owner # Nobody => owner \in Askers /\ owner \in Requests \cup {Earlier}
      BY DEF Askers, Owner, SystemInv, TypeOK
    <3>2. owner # Nobody => AskedFor[owner] = AskedFor[q]
      BY <2>3, <3>1 DEF AskedFor
    <3>3. QED
      BY <3>2 DEF Registry!Owned, Owner
  <2>8. (owner = q <=> q \in Owner) /\ q # Nobody
    BY SystemAssumption DEF Owner
  <2>9. Registry!Tell(q, a)
    BY <1>1, <2>1, <2>2, <2>3, <2>4, <2>6, <2>7, <2>8 DEF Registry!Tell
  <2>10. QED
    BY <2>9 DEF Registry!Next
<1>6. QED
  BY <1>4, <1>5

LEMMA RegistryClaim ==
  ASSUME SystemInv, RegisterInv, NEW r \in Runs, Effect(r), CommitRegister(r, job[r])
  PROVE  [Registry!Next]_Registry!registryVars
<1> DEFINE q == job[r]
<1>1. /\ q \in Requests /\ Registering(q) /\ owner = Nobody /\ owner' = q
      /\ UNCHANGED <<route, status, submitted, faults>>
  BY DEF Effect, CommitRegister, Done, client, queue, Registering, SystemInv, TypeOK
<1>2. \A x : Registering(x)' = Registering(x) /\ Heard(x)' = Heard(x)
  BY <1>1 DEF Heard, Registering
<1>3. Owner = {} /\ Owner' = {q}
  BY <1>1, SystemAssumption DEF Owner
<1>4. Askers' = Askers /\ q \in Askers
  BY <1>1, <1>2, <1>3 DEF Askers
<1>5. AskedFor' = AskedFor /\ HeardBy' = HeardBy
  BY <1>2, <1>4 DEF AskedFor, HeardBy
<1>6. HeardBy[q] = Heard(q)
  BY <1>1 DEF HeardBy
<1>7. Heard(q) \in {"exists", "error"} => faults > 0
  BY <1>1 DEF RegisterInv, HeardDue
<1>8. Registry!Claim(q)
  BY <1>1, <1>3, <1>4, <1>5, <1>6, <1>7 DEF Registry!Claim, Registry!Owned
<1>9. QED
  BY <1>1, <1>8 DEF Registry!Next

LEMMA RegistryStep ==
  SystemInv /\ RegisterInv /\ [Next]_vars => [Registry!Next]_Registry!registryVars
<1> SUFFICES ASSUME SystemInv, RegisterInv, [Next]_vars
             PROVE  [Registry!Next]_Registry!registryVars
  OBVIOUS
<1>1. ASSUME NEW q \in Requests, NEW r \in Routes, NEW w \in {"right", "wrong", "none"},
             NEW p \in held \cup {NoPair}, Ask(q, r, w, p) \/ AskFails(q, r, w, p)
      PROVE  [Registry!Next]_Registry!registryVars
  BY <1>1, RegistryAsk
<1>2. ASSUME UNCHANGED <<route, status, submitted, owner>>, faults' = faults \/ faults' = faults + 1
      PROVE  [Registry!Next]_Registry!registryVars
  <2>1. \A x \in Requests : Registering(x)' = Registering(x) /\ Heard(x)' = Heard(x)
    BY <1>2 DEF Heard, Registering
  <2>2. Earlier \notin submitted'
    BY <1>2, SystemAssumption DEF SystemInv, TypeOK
  <2>3. QED
    BY <1>2, <2>1, <2>2, RegistryUntouched DEF SystemInv
<1>3. ASSUME NEW q \in Requests, DeadLetter(q) \/ Settle(q)
      PROVE  [Registry!Next]_Registry!registryVars
  BY <1>2, <1>3 DEF DeadLetter, Settle, Queue!DeadLetter, Queue!Settle, client, rows
<1>4. ASSUME NEW r \in Runs, NEW q \in Requests, Take(r, q) \/ TakeAgain(r, q)
      PROVE  [Registry!Next]_Registry!registryVars
  BY <1>2, <1>4 DEF Take, TakeAgain, Begin, Fault, client
<1>5. ASSUME NEW r \in Runs, Effect(r)
      PROVE  [Registry!Next]_Registry!registryVars
  <2>1. CASE CommitRegister(r, job[r])
    BY <1>5, <2>1, RegistryClaim
  <2>2. CASE ~CommitRegister(r, job[r])
    BY <1>2, <1>5, <2>2
    DEF Effect, CommitLogin, RegisterLoses, CommitRefresh, RefreshRaises, CommitLogout, Validated, Done,
        client, queue, rows
  <2>3. QED
    BY <2>1, <2>2
<1>6. ASSUME NEW r \in Runs, Reply(r) \/ RegisterError(r) \/ Interrupt(r)
      PROVE  [Registry!Next]_Registry!registryVars
  BY <1>2, <1>6 DEF Reply, RegisterError, Interrupt, Fault, Queue!Handle, client, queue, rows
<1>7. CASE UNCHANGED vars
  BY <1>2, <1>7 DEF vars, client, queue, rows
<1>8. QED
  BY <1>1, <1>3, <1>4, <1>5, <1>6, <1>7, RegistryTell DEF Next, RunStep

(* What the status codes of the gateway tell of registrations is what the  *)
(* register of accounts lets be told: a 200 is for the owner, a 409 for    *)
(* somebody who is not, and without a fault nobody who was refused comes   *)
(* to own the account through a message that is still on its way.          *)
THEOREM KeepsAccountRegistry == Spec => Registry!Spec
<1>1. Init => Registry!Init
  <2> SUFFICES ASSUME Init PROVE Registry!Init
    OBVIOUS
  <2>1. Askers = Owner /\ Owner \subseteq {Earlier}
    BY DEF Init, Askers, Owner, Registering, Queue!Init
  <2>2. HeardBy = [q \in Requests \cup {Earlier} |-> "none"]
    BY DEF Init, HeardBy, Heard, Registering, Queue!Init
  <2>3. \A q \in Requests \cup {Earlier} : AskedFor[q] = IF q \in Owner THEN "it" ELSE "nothing"
    BY <2>1 DEF AskedFor
  <2>4. AskedFor \in [Requests \cup {Earlier} -> {"it"} \cup {"nothing"}]
    BY DEF AskedFor
  <2>5. ~(faults > 0)
    BY DEF Init
  <2>6. QED
    BY <2>1, <2>2, <2>3, <2>4, <2>5 DEF Registry!Init
<1>2. QED
  BY <1>1, RegistrationsDue, RegistryStep, PTL DEF Spec, Registry!Spec
----------------------------------------------------------------------------
(* How often a request can take effect *)

(* Runs of q that have decided to take effect, and have not yet. *)
Deciding(q) == {r \in Runs : job[r] = q /\ pc[r] = "effect"}

(* Each effect but one is paid for with a fault, also those to come. *)
Paid(q) ==
  /\ IsFiniteSet(Deciding(q))
  /\ effects[q] + Cardinality(Deciding(q)) <= faults + 1
  /\ q \notin handled /\ Serving(q) = {} => effects[q] <= faults

(* Steps without an effect on q. *)
LEMMA PaidStays ==
  ASSUME SystemInv, NEW q \in Requests, Paid(q), effects'[q] = effects[q],
         Deciding(q)' \subseteq Deciding(q), faults' \in Nat,
         \/ faults' = faults + 1
         \/ /\ faults' = faults
            /\ q \notin handled' /\ Serving(q)' = {} =>
                 (q \notin handled /\ Serving(q) = {}) \/ Deciding(q) # {}
  PROVE  Paid(q)'
<1>1. effects[q] \in Nat /\ faults \in Nat
  BY DEF SystemInv, TypeOK
<1>2. /\ IsFiniteSet(Deciding(q)') /\ Cardinality(Deciding(q)') \in Nat
      /\ Cardinality(Deciding(q)) \in Nat
      /\ Cardinality(Deciding(q)') <= Cardinality(Deciding(q))
  BY FS_Subset, FS_CardinalityType DEF Paid
<1>3. Deciding(q) # {} => Cardinality(Deciding(q)) # 0
  BY FS_EmptySet DEF Paid
<1>4. effects'[q] + Cardinality(Deciding(q)') <= faults' + 1
  BY <1>1, <1>2 DEF Paid
<1>5. q \notin handled' /\ Serving(q)' = {} => effects'[q] <= faults'
  BY <1>1, <1>2, <1>3 DEF Paid
<1>6. QED
  BY <1>2, <1>4, <1>5 DEF Paid

(* A delivery, which is the first, repeats what failed, or is a fault. *)
LEMMA PaidBegin ==
  ASSUME SystemInv, NEW q \in Requests, Paid(q), NEW r \in Runs, NEW p \in Requests,
         Take(r, p) \/ TakeAgain(r, p)
  PROVE  Paid(q)'
<1>1. /\ Begin(r, p) /\ pc[r] = "idle" /\ job[r] = Nobody /\ job' = [job EXCEPT ![r] = p]
      /\ \A s \in Runs \ {r} : pc'[s] = pc[s]
      /\ UNCHANGED <<handled, effects>>
      /\ faults' = faults \/ faults' = faults + 1
      /\ faults \in Nat /\ effects[q] \in Nat
  BY SystemAssumption
     DEF Take, TakeAgain, Fault, Begin, FirstIdle, Idle, SystemInv, TypeOK
<1>2. job'[r] = p /\ \A s \in Runs \ {r} : job'[s] = job[s]
  BY <1>1 DEF SystemInv, TypeOK
<1>3. CASE p # q
  <2>1. Deciding(q)' = Deciding(q) /\ Serving(q)' = Serving(q)
    BY <1>1, <1>2, <1>3, SystemAssumption DEF Deciding, Serving
  <2>2. QED
    BY <1>1, <2>1, PaidStays
<1>4. CASE p = q
  <2>1. Deciding(q)' \subseteq Deciding(q) \cup {r} /\ r \notin Deciding(q) /\ r \in Serving(q)'
    BY <1>1, <1>2, <1>4 DEF Deciding, Serving
  <2>2. /\ IsFiniteSet(Deciding(q)') /\ Cardinality(Deciding(q)') \in Nat
        /\ Cardinality(Deciding(q)) \in Nat
        /\ Cardinality(Deciding(q)') <= Cardinality(Deciding(q)) + 1
    <3>1. /\ IsFiniteSet(Deciding(q) \cup {r})
          /\ Cardinality(Deciding(q) \cup {r}) = Cardinality(Deciding(q)) + 1
      BY <2>1, FS_AddElement DEF Paid
    <3>2. QED
      BY <2>1, <3>1, FS_Subset, FS_CardinalityType DEF Paid
  <2>3. effects[q] + Cardinality(Deciding(q)) + 1 <= faults' + 1
    <3>1. CASE Take(r, p)
      <4>1. Serving(q) = {} /\ q \notin handled /\ faults' = faults
        BY <1>4, <3>1 DEF Take
      <4>2. Deciding(q) = {}
        BY <4>1 DEF Deciding, Serving
      <4>3. QED
        BY <1>1, <4>1, <4>2, FS_EmptySet DEF Paid
    <3>2. CASE TakeAgain(r, p)
      BY <1>1, <2>2, <3>2 DEF TakeAgain, Fault, Paid
    <3>3. QED
      BY <3>1, <3>2
  <2>4. QED
    BY <1>1, <2>1, <2>2, <2>3 DEF Paid
<1>5. QED
  BY <1>3, <1>4

LEMMA PaidEffect ==
  ASSUME SystemInv, NEW q \in Requests, Paid(q), NEW r \in Runs, Effect(r)
  PROVE  Paid(q)'
<1>1. /\ pc[r] = "effect" /\ pc'[r] # "effect" /\ job[r] \in Requests
      /\ \A s \in Runs \ {r} : pc'[s] = pc[s] /\ job'[s] = job[s]
      /\ UNCHANGED <<handled, faults>> /\ faults \in Nat /\ effects[q] \in Nat
  BY DEF Effect, CommitLogin, CommitRegister, RegisterLoses, CommitRefresh, RefreshRaises, CommitLogout,
         Validated, Done, Finish, queue, SystemInv, TypeOK
<1>2. Deciding(q)' = Deciding(q) \ {r}
  BY <1>1 DEF Deciding
<1>3. CASE job[r] # q
  <2>1. effects'[q] = effects[q]
    BY <1>1, <1>3
    DEF Effect, CommitLogin, CommitRegister, RegisterLoses, CommitRefresh, RefreshRaises, CommitLogout,
        Validated, Done, history, SystemInv, TypeOK
  <2>2. job'[r] = job[r] \/ job'[r] = Nobody
    BY DEF Effect, CommitLogin, CommitRegister, RegisterLoses, CommitRefresh, RefreshRaises, CommitLogout,
           Validated, Done, Finish, SystemInv, TypeOK
  <2>3. Serving(q)' = Serving(q)
    BY <1>1, <1>3, <2>2, SystemAssumption DEF Serving
  <2>4. QED
    BY <1>1, <1>2, <2>1, <2>3, PaidStays
<1>4. CASE job[r] = q
  <2>1. r \in Deciding(q)
    BY <1>1, <1>4 DEF Deciding
  <2>2. CASE effects'[q] = effects[q]
    BY <1>1, <1>2, <2>1, <2>2, PaidStays
  <2>3. CASE effects'[q] = effects[q] + 1 /\ job' = job
    <3>1. /\ IsFiniteSet(Deciding(q)') /\ Cardinality(Deciding(q)) \in Nat
          /\ Cardinality(Deciding(q)') = Cardinality(Deciding(q)) - 1
      BY <1>2, <2>1, FS_RemoveElement, FS_CardinalityType DEF Paid
    <3>2. r \in Serving(q)'
      BY <1>4, <2>3 DEF Serving
    <3>3. QED
      BY <1>1, <2>3, <3>1, <3>2 DEF Paid
  <2>4. effects'[q] = effects[q] \/ (effects'[q] = effects[q] + 1 /\ job' = job)
    BY <1>4
    DEF Effect, CommitLogin, CommitRegister, RegisterLoses, CommitRefresh, RefreshRaises, CommitLogout,
        Validated, Done, history, SystemInv, TypeOK
  <2>5. QED
    BY <2>2, <2>3, <2>4
<1>5. QED
  BY <1>3, <1>4

LEMMA PaidOther ==
  ASSUME SystemInv, NEW q \in Requests, Paid(q), NEW r \in Runs,
         Reply(r) \/ RegisterError(r) \/ Interrupt(r)
  PROVE  Paid(q)'
<1>1. /\ pc'[r] # "effect" /\ job[r] \in Requests /\ UNCHANGED effects
      /\ \A s \in Runs \ {r} : pc'[s] = pc[s] /\ job'[s] = job[s]
      /\ job'[r] = job[r] \/ job'[r] = Nobody
      /\ handled \subseteq handled'
      /\ faults \in Nat
  BY DEF Reply, RegisterError, Interrupt, Finish, Queue!Handle, history, queue, SystemInv, TypeOK
<1>2. Deciding(q)' \subseteq Deciding(q)
  BY <1>1 DEF Deciding
<1>3. CASE Reply(r)
  <2>1. faults' = faults /\ job[r] \in handled'
    BY <1>3 DEF Reply, Queue!Handle
  <2>2. job[r] # q => Serving(q)' = Serving(q)
    BY <1>1, SystemAssumption DEF Serving
  <2>3. QED
    BY <1>1, <1>2, <2>1, <2>2, PaidStays
<1>4. CASE RegisterError(r) \/ Interrupt(r)
  <2>1. faults' = faults + 1
    BY <1>4 DEF RegisterError, Interrupt, Fault
  <2>2. QED
    BY <1>1, <1>2, <2>1, PaidStays
<1>5. QED
  BY <1>3, <1>4

LEMMA PaidStep ==
  ASSUME SystemInv, [Next]_vars, NEW q \in Requests, Paid(q)
  PROVE  Paid(q)'
<1>1. ASSUME UNCHANGED <<effects, handled, pc, job>>, faults' = faults \/ faults' = faults + 1
      PROVE  Paid(q)'
  <2>1. Deciding(q)' = Deciding(q) /\ Serving(q)' = Serving(q)
    BY <1>1 DEF Deciding, Serving
  <2>2. faults' \in Nat
    BY <1>1 DEF SystemInv, TypeOK
  <2>3. QED
    BY <1>1, <2>1, <2>2, PaidStays
<1>2. ASSUME NEW x \in Requests, NEW r \in Routes, NEW w \in {"right", "wrong", "none"},
             NEW p \in held \cup {NoPair}, Ask(x, r, w, p) \/ AskFails(x, r, w, p)
      PROVE  Paid(q)'
  BY <1>1, <1>2 DEF Ask, AskFails, Fault, Queue!Submit, queue, run, history
<1>3. ASSUME NEW x \in Requests, Answer(x) \/ TimesOut(x) \/ DeadLetter(x) \/ Settle(x)
      PROVE  Paid(q)'
  BY <1>1, <1>3
  DEF Answer, TimesOut, DeadLetter, Settle, Queue!DeadLetter, Queue!Settle, queue, run, history
<1>4. CASE UNCHANGED vars
  BY <1>1, <1>4 DEF vars, queue, run, history
<1>5. QED
  BY <1>2, <1>3, <1>4, PaidBegin, PaidEffect, PaidOther DEF Next, RunStep

(* A request takes effect at most once more often than there were faults,  *)
(* so exactly once at most when nothing fails: no login issues a second    *)
(* pair of tokens and no refresh exchanges its token twice, whatever is    *)
(* delivered or answered late.                                             *)
EffectsBounded == \A q \in Requests : effects[q] <= 1 + faults

THEOREM EffectsPaidFor == Spec => []EffectsBounded
<1>1. Init => \A q \in Requests : Paid(q)
  <2> SUFFICES ASSUME Init, NEW q \in Requests PROVE Paid(q)
    OBVIOUS
  <2>1. Deciding(q) = {}
    BY DEF Init, Deciding
  <2>2. QED
    BY <2>1, FS_EmptySet DEF Init, Paid
<1>2. SystemInv /\ (\A q \in Requests : Paid(q)) /\ [Next]_vars => (\A q \in Requests : Paid(q))'
  BY PaidStep
<1>3. SystemInv /\ (\A q \in Requests : Paid(q)) => EffectsBounded
  BY FS_CardinalityType DEF Paid, EffectsBounded, SystemInv, TypeOK
<1>4. QED
  BY <1>1, <1>2, <1>3, SystemInvariant, PTL DEF Spec
----------------------------------------------------------------------------
(* The queue groups are used by their contract alone: whatever routes and  *)
(* handlers do, and whatever fails between them, each step of the system   *)
(* is one that RpcListener was shown to make, or is none of the queues'.   *)
THEOREM KeepsQueues == Spec => Queue!Spec
<1>1. Init => Queue!Init
  BY DEF Init
<1>2. SystemInv /\ [Next]_vars => [Queue!Next]_Queue!promiseVars
  <2> SUFFICES ASSUME SystemInv, [Next]_vars PROVE [Queue!Next]_Queue!promiseVars
    OBVIOUS
  <2>1. ASSUME NEW q \in Requests, NEW r \in Routes, NEW w, NEW p, Ask(q, r, w, p)
        PROVE  Queue!Next
    BY <2>1 DEF Ask, Queue!Next
  <2>2. ASSUME NEW q \in Requests, NEW r \in Routes, NEW w, NEW p, AskFails(q, r, w, p)
        PROVE  UNCHANGED Queue!promiseVars
    BY <2>2 DEF AskFails, queue, Queue!promiseVars
  <2>3. ASSUME NEW q \in Requests, Answer(q) \/ TimesOut(q)
        PROVE  UNCHANGED Queue!promiseVars
    BY <2>3 DEF Answer, TimesOut, queue, Queue!promiseVars
  <2>4. ASSUME NEW q \in Requests, DeadLetter(q) \/ Settle(q)
        PROVE  Queue!Next
    BY <2>4 DEF DeadLetter, Settle, Queue!Next
  <2>5. ASSUME NEW r \in Runs, NEW q \in Requests, Take(r, q) \/ TakeAgain(r, q)
        PROVE  UNCHANGED Queue!promiseVars
    BY <2>5 DEF Take, TakeAgain, Begin, Queue!promiseVars
  <2>6. ASSUME NEW r \in Runs, Effect(r) \/ RegisterError(r) \/ Interrupt(r)
        PROVE  UNCHANGED Queue!promiseVars
    BY <2>6
    DEF Effect, CommitLogin, CommitRegister, RegisterLoses, CommitRefresh, RefreshRaises, CommitLogout,
        Validated, Done, RegisterError, Interrupt, queue, Queue!promiseVars
  <2>7. ASSUME NEW r \in Runs, Reply(r) PROVE Queue!Next
    <3>1. job[r] \in Requests
      BY <2>7 DEF Reply, SystemInv, TypeOK
    <3>2. QED
      BY <2>7, <3>1 DEF Reply, Queue!Next
  <2>8. CASE UNCHANGED vars
    BY <2>8 DEF vars, queue, Queue!promiseVars
  <2>9. QED
    BY <2>1, <2>2, <2>3, <2>4, <2>5, <2>6, <2>7, <2>8 DEF Next, RunStep
<1>3. QED
  BY <1>1, <1>2, SystemInvariant, PTL DEF Spec, Queue!Spec
----------------------------------------------------------------------------
(* No refresh has done anything, and no client was told that one did. *)
RefreshIdle ==
  \A q \in Requests : route[q] = "refresh" => effects[q] = 0 /\ status[q] # 200

LEMMA IdleStep ==
  ASSUME SystemInv, ~AccountLoads, RefreshIdle, [Next]_vars
  PROVE  RefreshIdle'
<1>1. ASSUME UNCHANGED <<route, status>>,
             \A q \in Requests : effects'[q] = effects[q] \/ route[q] # "refresh"
      PROVE  RefreshIdle'
  BY <1>1 DEF RefreshIdle
<1>2. ASSUME NEW x \in Requests, NEW r \in Routes, NEW w \in {"right", "wrong", "none"},
             NEW p \in held \cup {NoPair}, Ask(x, r, w, p) \/ AskFails(x, r, w, p)
      PROVE  RefreshIdle'
  <2>1. /\ route[x] = "none" /\ status[x] = 0 /\ effects[x] = 0
        /\ route' = [route EXCEPT ![x] = r] /\ UNCHANGED effects
    BY <1>2 DEF Ask, AskFails, Open, SystemInv, StatusRight, history
  <2>2. \/ UNCHANGED status
        \/ \E s \in {500, StatusOf(r, "rpc.timeout")} : status' = [status EXCEPT ![x] = s]
    BY <1>2 DEF Ask, AskFails
  <2>3. r = "refresh" => StatusOf(r, "rpc.timeout") = 504
    BY TimeoutTells
  <2>4. QED
    BY <2>1, <2>2, <2>3 DEF RefreshIdle, SystemInv, TypeOK
<1>3. ASSUME NEW x \in Requests, Answer(x) PROVE RefreshIdle'
  <2>1. PICK m \in replies[x] : status' = [status EXCEPT ![x] = StatusOf(route[x], m.code)]
    BY <1>3 DEF Answer
  <2>2. UNCHANGED <<route, effects>> /\ route[x] \in Routes /\ m.code \in Codes
    BY <1>3 DEF Answer, Waiting, SystemInv, TypeOK, history
  <2>3. m.code = "ok" => effects[x] > 0
    BY DEF SystemInv, RepliesRight, Truth
  <2>4. route[x] = "refresh" => StatusOf(route[x], m.code) # 200
    BY <2>2, <2>3, StatusTells DEF RefreshIdle
  <2>5. QED
    BY <2>1, <2>2, <2>4 DEF RefreshIdle, SystemInv, TypeOK
<1>4. ASSUME NEW x \in Requests, TimesOut(x) PROVE RefreshIdle'
  <2>1. /\ status' = [status EXCEPT ![x] = StatusOf(route[x], "rpc.timeout")]
        /\ UNCHANGED <<route, effects>> /\ route[x] \in Routes
    BY <1>4 DEF TimesOut, Waiting, SystemInv, TypeOK, history
  <2>2. route[x] = "refresh" => StatusOf(route[x], "rpc.timeout") = 504
    BY <2>1, TimeoutTells
  <2>3. QED
    BY <2>1, <2>2 DEF RefreshIdle, SystemInv, TypeOK
<1>5. ASSUME NEW r \in Runs, Effect(r) PROVE RefreshIdle'
  <2>1. \A q \in Requests : effects'[q] = effects[q] \/ route[q] # "refresh"
    BY <1>5
    DEF Effect, CommitLogin, CommitRegister, RegisterLoses, CommitRefresh, RefreshRaises,
        CommitLogout, Validated, Done, history, SystemInv, TypeOK
  <2>2. UNCHANGED <<route, status>>
    BY <1>5
    DEF Effect, CommitLogin, CommitRegister, RegisterLoses, CommitRefresh, RefreshRaises,
        CommitLogout, Validated, Done, client
  <2>3. QED
    BY <1>1, <2>1, <2>2
<1>6. ASSUME NEW q \in Requests, DeadLetter(q) \/ Settle(q) PROVE RefreshIdle'
  BY <1>1, <1>6 DEF DeadLetter, Settle, client, history
<1>7. ASSUME NEW r \in Runs, NEW q \in Requests, Take(r, q) \/ TakeAgain(r, q)
      PROVE  RefreshIdle'
  BY <1>1, <1>7 DEF Take, TakeAgain, Begin, client
<1>8. ASSUME NEW r \in Runs, Reply(r) \/ RegisterError(r) \/ Interrupt(r)
      PROVE  RefreshIdle'
  BY <1>1, <1>8 DEF Reply, RegisterError, Interrupt, client, history
<1>9. CASE UNCHANGED vars
  BY <1>1, <1>9 DEF vars, client, history
<1>10. QED
  BY <1>2, <1>3, <1>4, <1>5, <1>6, <1>7, <1>8, <1>9 DEF Next, RunStep

(* auth_service.py, line 189, seen from the gateway: as nothing loads the  *)
(* account of the old token, no refresh takes effect, whatever is retried  *)
(* or delivered again, and no client of one is answered 200.               *)
THEOREM NoRefreshAnswered == ~AccountLoads /\ Spec => []RefreshIdle
<1>1. Init => RefreshIdle
  BY DEF Init, RefreshIdle
<1>2. CASE ~AccountLoads
  <2>1. SystemInv /\ RefreshIdle /\ [Next]_vars => RefreshIdle'
    BY <1>2, IdleStep
  <2>2. QED
    BY <1>1, <2>1, SystemInvariant, PTL DEF Spec
<1>3. CASE AccountLoads
  BY <1>3
<1>4. QED
  BY <1>2, <1>3
=============================================================================
