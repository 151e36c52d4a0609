----------------------------- MODULE AuthSystem -----------------------------
(***************************************************************************)
(* Authentication from end to end: a REST route of the gateway, the RPC it *)
(* sends, the queue group, the listener and handler in auth_svc, the rows  *)
(* of one account, the reply, and the HTTP status and tokens the client    *)
(* gets.                                                                   *)
(*                                                                         *)
(* The queue groups are composed by their contract, AtLeastOnce, which     *)
(* RpcListener implements.  Calls have a correlation id of their own; what *)
(* two calls that share one do to each other is RpcCalls' matter.  A       *)
(* transaction is its look-up and its commit: TokenRotation and            *)
(* Registration have the statements between them, LoginGuard has the ban.  *)
(***************************************************************************)
EXTENDS Naturals, FiniteSets

CONSTANTS
  Requests,       \* HTTP requests about one user name and e-mail address
  Runs,           \* bound: coroutines of the listeners under way together
  Earlier,        \* who registered and logged in before the first request
  Nobody,
  AccountLoads,   \* BOOLEAN: see TokenRotation; FALSE in the repository
  MaxFaults       \* bound: failed runs, repeated deliveries, lost brokers

ASSUME SystemAssumption ==
  /\ Earlier \notin Requests
  /\ Nobody \notin Requests \cup {Earlier}
  /\ AccountLoads \in BOOLEAN
  /\ MaxFaults \in Nat

VARIABLES
  route,      \* [Requests -> Routes \cup {"none"}]
  password,   \* [Requests -> {"right", "wrong", "none"}]
  pair,       \* [Requests -> Pairs \cup {NoPair}]: whose token it presents
  status,     \* [Requests -> Statuses]: the HTTP status, 0 while it waits
  replies,    \* [Requests -> replies on their way to the gateway]
  submitted, pending, handled, dead,   \* the queue groups: see AtLeastOnce
  pc,         \* [Runs -> {"idle", "effect", "reply"}]
  job,        \* [Runs -> Requests \cup {Nobody}]
  verdict,    \* [Runs -> Codes]: the answer it is about to give
  grant,      \* [Runs -> Pairs \cup {NoPair}]: the tokens in that answer
  owner,      \* who registered the account
  active,     \* pairs whose refresh token is stored and not revoked
  expired,    \* <<kind, pair>>: tokens whose exp has passed
  held,       \* pairs that reached the client
  effects,    \* history, [Requests -> Nat]: how often it took effect
  repeated,   \* history: delivered again although handled or under way
  failed,     \* requests a run of which has failed
  faults      \* faults so far, at most MaxFaults

client  == <<route, password, pair, status, replies, held>>
queue   == <<submitted, pending, handled, dead, failed>>
run     == <<pc, job, verdict, grant>>
rows    == <<owner, active, expired>>
history == <<effects, repeated>>
vars    == <<client, queue, run, rows, history, faults>>

Queue == INSTANCE AtLeastOnce WITH Msgs <- Requests

(* A pair is an access and a refresh token of one reply, named by the      *)
(* request that was granted it and how often that request took effect.     *)
Pairs == (Requests \cup {Earlier}) \X Nat
NoPair == <<Nobody, 0>>

Routes == {"login", "register", "validate", "refresh", "logout"}
TokenRoutes == {"validate", "refresh", "logout"}
TokenKinds == {"access", "refresh"}
Refusals == {"auth.invalid_credentials", "auth.forbidden", "auth.user_exists",
             "auth.refresh_invalid", "invalid"}
Codes == Refusals \cup {"ok", "common.internal_error"}
Statuses == {0, 200, 401, 403, 409, 500, 504}

Fault == faults < MaxFaults /\ faults' = faults + 1

Serving(q) == {r \in Runs : job[r] = q}

----------------------------------------------------------------------------
(* The gateway *)

get_http_status(code) ==
  CASE code \in {"auth.invalid_credentials", "auth.token_expired", "auth.invalid_token",
                 "auth.refresh_invalid", "auth.refresh_expired"} -> 401
    [] code = "auth.forbidden"                                   -> 403
    [] code = "auth.user_exists"                                 -> 409
    [] code = "validation.failed"                                -> 400
    [] code = "rpc.timeout"                                      -> 504
    [] code = "rpc.bad_response"                                 -> 502
    [] code = "common.not_implemented"                           -> 501
    [] OTHER                                                     -> 500

(* What a route makes of the outcome of its call; None is "rpc.timeout". *)
login(code) == IF code = "ok" THEN 200 ELSE get_http_status(code)
register(code) == IF code = "ok" THEN 200 ELSE get_http_status(code)
validate_token(code) == IF code = "ok" THEN 200 ELSE 401
refresh(code) == IF code = "ok" THEN 200 ELSE get_http_status(code)
logout(code) == 200

StatusOf(r, code) ==
  CASE r = "login"    -> login(code)
    [] r = "register" -> register(code)
    [] r = "validate" -> validate_token(code)
    [] r = "refresh"  -> refresh(code)
    [] r = "logout"   -> logout(code)

(* The routing key of the call, which is the name of a base queue. *)
RoutingKey ==
  [login    |-> "issue_token", register |-> "register",
   validate |-> "validate_token", refresh |-> "refresh_token", logout |-> "logout"]

(* A client sends a password, or the token a route takes from a pair it    *)
(* holds.                                                                  *)
Presents(r, w, p) ==
  CASE r = "login"    -> w \in {"right", "wrong"} /\ p = NoPair
    [] r = "register" -> w = "none" /\ p = NoPair
    [] OTHER          -> w = "none" /\ p \in held

Open(q, r, w, p) ==
  /\ route[q] = "none"
  /\ Presents(r, w, p)
  /\ route'    = [route EXCEPT ![q] = r]
  /\ password' = [password EXCEPT ![q] = w]
  /\ pair'     = [pair EXCEPT ![q] = p]

(* The HTTP request arrives, and call_rpc publishes its message. *)
Ask(q, r, w, p) ==
  /\ Open(q, r, w, p)
  /\ Queue!Submit(q)
  /\ UNCHANGED <<status, replies, held, failed, run, rows, history, faults>>

(* connect raises out of _ensure, which ends the request with 500; or the  *)
(* publish fails or cannot be routed, and call_rpc returns None.           *)
AskFails(q, r, w, p) ==
  /\ Open(q, r, w, p)
  /\ Fault
  /\ \E s \in {500, StatusOf(r, "rpc.timeout")} : status' = [status EXCEPT ![q] = s]
  /\ UNCHANGED <<replies, held, queue, run, rows, history>>

Waiting(q) == q \in submitted /\ status[q] = 0

(* _on_rpc_reply: the first reply ends the call; a route that succeeds     *)
(* hands the tokens to the client.                                         *)
Answer(q) ==
  /\ Waiting(q)
  /\ \E m \in replies[q] :
       /\ status' = [status EXCEPT ![q] = StatusOf(route[q], m.code)]
       /\ held' = held \cup ({m.grant} \ {NoPair})
  /\ replies' = [replies EXCEPT ![q] = {}]
  /\ UNCHANGED <<route, password, pair, queue, run, rows, history, faults>>

(* Variant: a login nobody answered is told like wrong credentials. *)
TimesOutAsRefusal(q) ==
  /\ Waiting(q)
  /\ status' = [status EXCEPT ![q] = 401]
  /\ UNCHANGED <<route, password, pair, replies, held, queue, run, rows, history, faults>>

(* RPC_TIMEOUT_MS passes, or the confirm of the publish fails.  A reply    *)
(* that is on its way finds no future any more.                            *)
TimesOut(q) ==
  /\ Waiting(q)
  /\ status' = [status EXCEPT ![q] = StatusOf(route[q], "rpc.timeout")]
  /\ replies' = [replies EXCEPT ![q] = {}]
  /\ UNCHANGED <<route, password, pair, held, queue, run, rows, history, faults>>

----------------------------------------------------------------------------
(* auth_svc: what the handlers decide from the token and the look-up *)

(* The token a request presents.  One of the other kind, or one that was   *)
(* not signed here, fails to decode like one that has expired.             *)
Token(q) == <<IF route[q] = "validate" THEN "access" ELSE "refresh", pair[q]>>

(* The clock may have passed the exp of a token when the token is looked   *)
(* at, and then has passed it for good.                                    *)
Clock(q) == {expired} \cup {expired \cup {Token(q)} : r \in TokenRoutes \cap {route[q]}}

(* issue_token: the ban comes before the password. *)
IssueToken(q) ==
  {"auth.forbidden",
   IF owner # Nobody /\ password[q] = "right" THEN "ok" ELSE "auth.invalid_credentials"}

Register(q) == {IF owner = Nobody THEN "ok" ELSE "auth.user_exists"}

(* The audience of the access tokens; revocation is not looked at. *)
ValidateToken(q, x) == {IF Token(q) \notin x THEN "ok" ELSE "invalid"}

(* decode_token knows the audience of refresh tokens only. *)
RefreshToken(q, x) ==
  {IF Token(q) \notin x /\ pair[q] \in active THEN "ok" ELSE "auth.refresh_invalid"}

(* A token that is not active is logged out already. *)
Logout(q, x) == {IF Token(q) \notin x THEN "ok" ELSE "auth.refresh_invalid"}

(* Each queue has one listener, which has one handler. *)
HandlerOf(key, q, x) ==
  CASE key = "issue_token"    -> IssueToken(q)
    [] key = "register"       -> Register(q)
    [] key = "validate_token" -> ValidateToken(q, x)
    [] key = "refresh_token"  -> RefreshToken(q, x)
    [] key = "logout"         -> Logout(q, x)

----------------------------------------------------------------------------
(* auth_svc: the listeners *)

(* Which idle coroutine takes a message makes no difference. *)
Idle == {r \in Runs : pc[r] = "idle"}

FirstIdle == CHOOSE r \in Idle : TRUE

(* The listener takes the message, decodes the token and looks up the row. *)
Begin(r, q) ==
  /\ Idle # {} /\ r = FirstIdle
  /\ q \in pending
  /\ expired' \in Clock(q)
  /\ \E v \in HandlerOf(RoutingKey[route[q]], q, expired') :
       /\ verdict' = [verdict EXCEPT ![r] = v]
       /\ pc' = [pc EXCEPT ![r] = IF v = "ok" THEN "effect" ELSE "reply"]
  /\ job' = [job EXCEPT ![r] = q]
  /\ UNCHANGED <<client, grant, submitted, handled, dead, failed, owner, active, effects>>

(* Variant: the broker considers a delivered message done (no ack). *)
TakeWithoutAck(r, q) ==
  /\ Serving(q) = {} /\ q \notin handled
  /\ Begin(r, q)
  /\ pending' = pending \ {q}
  /\ repeated' = IF effects[q] > 0 THEN repeated \cup {q} ELSE repeated
  /\ UNCHANGED faults

(* First delivery, or the next one after a run that failed; that run may   *)
(* have committed.                                                         *)
Take(r, q) ==
  /\ Serving(q) = {} /\ q \notin handled
  /\ Begin(r, q)
  /\ repeated' = IF effects[q] > 0 THEN repeated \cup {q} ELSE repeated
  /\ UNCHANGED <<pending, faults>>

(* The channel of a delivery is lost while its run goes on, or its ack is. *)
TakeAgain(r, q) ==
  /\ Serving(q) # {} \/ q \in handled
  /\ Fault
  /\ Begin(r, q)
  /\ repeated' = repeated \cup {q}
  /\ UNCHANGED pending

Finish(r) ==
  /\ pc'      = [pc EXCEPT ![r] = "idle"]
  /\ job'     = [job EXCEPT ![r] = Nobody]
  /\ verdict' = [verdict EXCEPT ![r] = "invalid"]
  /\ grant'   = [grant EXCEPT ![r] = NoPair]

(* The run of q has committed what it was asked to do. *)
Done(r, q, p) ==
  /\ pc' = [pc EXCEPT ![r] = "reply"]
  /\ grant' = [grant EXCEPT ![r] = p]
  /\ effects' = [effects EXCEPT ![q] = @ + 1]
  /\ UNCHANGED <<client, queue, job, verdict, expired, repeated, faults>>

NewPair(q) == <<q, effects[q] + 1>>

(* Variant: a login ends the sessions there are. *)
CommitLoginAlone(r, q) ==
  /\ route[q] = "login"
  /\ active' = {NewPair(q)}
  /\ Done(r, q, NewPair(q))
  /\ UNCHANGED owner

CommitLogin(r, q) ==
  /\ route[q] = "login"
  /\ active' = active \cup {NewPair(q)}
  /\ Done(r, q, NewPair(q))
  /\ UNCHANGED owner

CommitRegister(r, q) ==
  /\ route[q] = "register" /\ owner = Nobody
  /\ owner' = q
  /\ Done(r, q, NoPair)
  /\ UNCHANGED active

(* Another registration was committed since the look-up: IntegrityError. *)
RegisterLoses(r, q) ==
  /\ route[q] = "register" /\ owner # Nobody
  /\ pc' = [pc EXCEPT ![r] = "reply"]
  /\ verdict' = [verdict EXCEPT ![r] = "common.internal_error"]
  /\ UNCHANGED <<client, queue, job, grant, rows, history, faults>>

(* The old token is revoked whether or not another run did so meanwhile. *)
CommitRefresh(r, q) ==
  /\ route[q] = "refresh" /\ AccountLoads
  /\ active' = (active \ {pair[q]}) \cup {NewPair(q)}
  /\ Done(r, q, NewPair(q))
  /\ UNCHANGED owner

CommitLogout(r, q) ==
  /\ route[q] = "logout"
  /\ active' = active \ {pair[q]}
  /\ Done(r, q, NoPair)
  /\ UNCHANGED owner

(* A valid token is a valid token: nothing is written. *)
Validated(r, q) ==
  /\ route[q] = "validate"
  /\ Done(r, q, NoPair)
  /\ UNCHANGED <<owner, active>>

(* Reading old_token.account raises, the message is nacked for a retry. *)
RefreshRaises(r, q) ==
  /\ route[q] = "refresh" /\ ~AccountLoads
  /\ failed' = failed \cup {q}
  /\ Finish(r)
  /\ UNCHANGED <<client, submitted, pending, handled, dead, rows, history, faults>>

Effect(r) ==
  /\ pc[r] = "effect"
  /\ \/ CommitLogin(r, job[r]) \/ CommitRegister(r, job[r]) \/ RegisterLoses(r, job[r])
     \/ CommitRefresh(r, job[r]) \/ RefreshRaises(r, job[r]) \/ CommitLogout(r, job[r])
     \/ Validated(r, job[r])

(* register answers any other exception, also one of a COMMIT that took    *)
(* effect, with INTERNAL_ERROR.                                            *)
RegisterError(r) ==
  /\ pc[r] # "idle"
  /\ route[job[r]] = "register"
  /\ Fault
  /\ pc' = [pc EXCEPT ![r] = "reply"]
  /\ verdict' = [verdict EXCEPT ![r] = "common.internal_error"]
  /\ UNCHANGED <<client, queue, job, grant, rows, history>>

(* process_message publishes the reply and returns; a reply nobody waits   *)
(* for is dropped by _on_rpc_reply.                                        *)
Reply(r) ==
  /\ pc[r] = "reply"
  /\ Queue!Handle(job[r])
  /\ replies' =
       IF Waiting(job[r])
       THEN [replies EXCEPT ![job[r]] = @ \cup {[code |-> verdict[r], grant |-> grant[r]]}]
       ELSE replies
  /\ Finish(r)
  /\ UNCHANGED <<route, password, pair, status, held, failed, rows, history, faults>>

(* A crash, a database error or a failed publish of the reply: the message *)
(* is requeued or nacked.                                                  *)
Interrupt(r) ==
  /\ pc[r] # "idle"
  /\ Fault
  /\ failed' = failed \cup {job[r]}
  /\ Finish(r)
  /\ UNCHANGED <<client, submitted, pending, handled, dead, rows, history>>

(* RPC_MAX_RETRIES runs have failed: _on_message moves the message.  One   *)
(* that was handled comes back, to be exhausted then, if its ack was lost. *)
DeadLetter(q) ==
  /\ q \in pending \cap failed
  /\ q \in handled => q \in repeated
  /\ Serving(q) = {}
  /\ Queue!DeadLetter(q)
  /\ UNCHANGED <<client, failed, run, rows, history, faults>>

(* The delivery is acknowledged. *)
Settle(q) ==
  /\ Queue!Settle(q)
  /\ UNCHANGED <<client, failed, run, rows, history, faults>>

----------------------------------------------------------------------------
(* Either the database is empty, or somebody has registered and logged in. *)
Init ==
  /\ route   = [q \in Requests |-> "none"]
  /\ password = [q \in Requests |-> "none"]
  /\ pair    = [q \in Requests |-> NoPair]
  /\ status  = [q \in Requests |-> 0]
  /\ replies = [q \in Requests |-> {}]
  /\ Queue!Init
  /\ failed  = {}
  /\ pc      = [r \in Runs |-> "idle"]
  /\ job     = [r \in Runs |-> Nobody]
  /\ verdict = [r \in Runs |-> "invalid"]
  /\ grant   = [r \in Runs |-> NoPair]
  /\ \/ owner = Nobody /\ active = {}
     \/ owner = Earlier /\ active = {<<Earlier, 1>>}
  /\ expired  = {}
  /\ held     = active
  /\ effects  = [q \in Requests |-> 0]
  /\ repeated = {}
  /\ faults   = 0

RunStep(r) == Effect(r) \/ Reply(r)

Next ==
  \/ \E q \in Requests, r \in Routes, w \in {"right", "wrong", "none"}, p \in held \cup {NoPair} :
       Ask(q, r, w, p) \/ AskFails(q, r, w, p)
  \/ \E q \in Requests : Answer(q) \/ TimesOut(q) \/ DeadLetter(q) \/ Settle(q)
  \/ \E r \in Runs, q \in Requests : Take(r, q) \/ TakeAgain(r, q)
  \/ \E r \in Runs : RunStep(r) \/ RegisterError(r) \/ Interrupt(r)

Spec == Init /\ [][Next]_vars

(* Runs go on, and a message that waits is delivered (after its retry      *)
(* delay) although others take the idle coroutines in between.             *)
FairSpec ==
  /\ Spec
  /\ \A q \in Requests : SF_vars(\E r \in Runs : Take(r, q))
  /\ \A r \in Runs : WF_vars(RunStep(r))

----------------------------------------------------------------------------
(* Properties *)

(* Every variable has its type; a busy run has a message that was sent. *)
TypeOK ==
  /\ route \in [Requests -> Routes \cup {"none"}]
  /\ password \in [Requests -> {"right", "wrong", "none"}]
  /\ pair \in [Requests -> Pairs \cup {NoPair}]
  /\ status \in [Requests -> Statuses]
  /\ \A q \in Requests :
       \A m \in replies[q] : m.code \in Codes /\ m.grant \in Pairs \cup {NoPair}
  /\ DOMAIN replies = Requests
  /\ submitted \subseteq Requests /\ pending \subseteq submitted
  /\ handled \subseteq submitted /\ dead \subseteq submitted /\ failed \subseteq submitted
  /\ pc \in [Runs -> {"idle", "effect", "reply"}]
  /\ job \in [Runs -> Requests \cup {Nobody}]
  /\ verdict \in [Runs -> Codes]
  /\ grant \in [Runs -> Pairs \cup {NoPair}]
  /\ owner \in Requests \cup {Earlier, Nobody}
  /\ active \subseteq Pairs
  /\ expired \subseteq TokenKinds \X (Pairs \cup {NoPair})
  /\ held \subseteq Pairs
  /\ effects \in [Requests -> Nat]
  /\ repeated \subseteq Requests
  /\ faults \in 0..MaxFaults
  /\ \A q \in submitted : route[q] \in Routes
  /\ \A r \in Runs : IF pc[r] = "idle" THEN job[r] = Nobody ELSE job[r] \in submitted

(* What the status of a request tells its client for certain.  A 200 of    *)
(* logout and a 401 of validate are also given when nobody answered.       *)
Told(q) ==
  CASE status[q] = 0                                       -> "nothing"
    [] status[q] = 200 /\ route[q] # "logout"              -> "done"
    [] status[q] \in {401, 403, 409} /\ route[q] # "validate" -> "refused"
    [] OTHER                                               -> "unknown"

Contract ==
  INSTANCE GatewayContract WITH
    subject   <- [q \in Requests |-> pair[q][1]],
    effective <- {q \in Requests : effects[q] > 0},
    told      <- [q \in Requests |-> Told(q)]

(* Whatever is lost, late or delivered again, the routes keep the contract:  *)
(* a success is a committed one, the account has one owner, and a request    *)
(* that was refused never takes effect afterwards unless its message was     *)
(* delivered again, although the reply, the commit and the status are steps  *)
(* of three programs.                                                        *)
ImplementsContract == Contract!Spec

(* A client loses a session it holds by logging out, or by a refresh that  *)
(* gave it the next one, unless that call is open, was not answered or was *)
(* delivered again.  No other request ends it.                             *)
SessionKept ==
  \A p \in held \ active :
    \E q \in Requests :
      /\ pair[q] = p /\ effects[q] > 0
      /\ \/ route[q] = "logout"
         \/ /\ route[q] = "refresh"
            /\ status[q] \in {0, 504} \/ q \in repeated \/ \E c \in held : c[1] = q

(* The client of a logout is told 200 at once when nobody answers.  The    *)
(* logout takes place all the same: the session ends, or its token or its  *)
(* message has had its day.                                                *)
LogoutTakesPlace ==
  \A q \in Requests :
    route[q] = "logout" /\ q \in submitted ~>
      pair[q] \notin active \/ Token(q) \in expired \/ q \in dead
=============================================================================
