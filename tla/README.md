# Formal models of mmo_backend_server

TLA+ models of the program's own logic, the TLC configurations that check them
on small instances, and theorems about them that the TLA+ proof system checks
for every instance. Line numbers refer to the files under `src/`.

    tlc -config RpcListenerFaults.cfg MCRpcListener     # one run
    tlapm RpcListenerProofs.tla                         # one module of proofs

## 1. The system

Two services talk through RabbitMQ. The **gateway** (FastAPI) turns HTTP
requests into RPCs and keeps WebSocket connections; **auth_svc** (as many
processes as needed, see `docs/backlog/PERFORMANCE_TUNING.md:7`) serves five
RPC queues and keeps accounts and refresh tokens in PostgreSQL and login
counters in Redis. Both are asyncio programs: everything between two awaits is
atomic inside one process, nothing is atomic across processes.

| Component | State | Operations | Interacts through |
|---|---|---|---|
| Bus, calling side (`libs/messaging/rabbitmq_message_bus.py`) | connection, channel, `_rpc_futures`, `_reply_to_consumer_tag` | `connect`, `_ensure`, `call_rpc`, `_on_rpc_reply`, `publish`, `close` | RabbitMQ; futures shared by all HTTP requests |
| Listener (`base_listener.py`) on a queue group (`rabbitmq_topology.py`) | the coroutine of each delivery; base, retry and dead-letter queue, `x-death` counts | `start`, `_on_message`, `_move_to_dlq`, `stop` | deliveries, acks and nacks, copies in the DLQ |
| Login (`auth_service.py` `issue_token`) | Redis counter and ban per user name, refresh token row | check ban, verify, count, expire, ban, reset, save | Redis commands of several processes |
| Refresh and logout (`auth_service.py`, `auth_repository.py`) | rows of `auth.refresh_tokens` | `refresh_token`, `logout`, `issue_token_pair` | transactions on the same rows |
| Registration (`auth_service.py` `register`) | rows of `auth.accounts` | `register` | unique constraints |
| Token validation (`jwt_manager.py`, validate handler) | none | `decode_token`, `process` | claims and the account's status |
| REST routes, error mapping (`auth_routes.py`, `libs/app/errors.py`) | none | five routes, `map_error` | outcome of an RPC to an HTTP status |
| WebSockets (`client_connection_manager.py`, `unified_ws.py`, `gateway_main.py`) | `active_connections`, `client_types` | connect, disconnect, `update_activity`, idle checker | sockets, one dictionary shared by all coroutines |
| Event broadcast (`event_listener.py`) | none of its own | `process_message` | listener above, connection table |
| Lifecycle, health (`bootstrap.py`, `health.py`, containers) | listeners, background tasks, clients | start, readiness, stop | all of the above |
| Authentication end to end (the first five rows, the routes and `listeners/*_rpc.py` together) | what the client sent, holds and was told | a request from its route to its HTTP status | the messages, replies and rows above |

What is hard in each, and what makes it correct:

* **Listener.** A crash, a lost channel or a failed publish between handling a
  message and acknowledging it; the retry limit, which is kept in a header only
  nacks change; bodies nobody can parse. Correct: no message is lost, none is
  repeated without a fault, retries and dead-lettering happen when due, every
  message is settled in the end. Two kinds are not, which the models show: one
  that is not JSON, and one whose copy line 140 could not publish.
* **Calls.** A reply may come late, twice, never, or under an id two calls
  share; the channel may go away at each await. Correct: an answer reaches its
  own call or nobody, the table of futures holds the calls in progress and
  nothing else, every call returns.
* **Login.** Five Redis commands of which others see every intermediate state,
  from any number of processes, each of which may die in between. Correct: the
  limit holds up to the requests under way, counters and bans end, a ban starts
  a clean count.
* **Refresh and logout.** Read, revoke and insert without a lock. Correct: an
  exchange is atomic, a token's uses are bounded, no session is lost without a
  fault, clients hold committed tokens only, no deadlock.
* **Registration.** Two transactions past the look-up; a redelivery after the
  commit. Correct: one owner per name, the loser is told so.
* **WebSockets and broadcast.** Awaits between reading and changing the table;
  an idle checker and broadcasts with snapshots of their own. Correct: the
  table names the connections that are served and no others, only idle ones
  are closed for idleness, an event reaches every client that stays.
* **Lifecycle.** Start may fail half-way; stop cancels no consumer. Correct:
  what was started is stopped, in an order no handler notices; a running
  process consumes every queue once, or is about to again.
* **End to end.** The effect, the reply and the status are steps of three
  programs, and any of them may be lost, late or repeated. Correct: what a
  client was told is true, a refusal stays true, a session ends by its
  client's wish only.

`PROJECT.json` lists every hazard at its line with the properties that cover it.

## 2. The modules

Every module has a program counter per coroutine whose values name the await
(the broker, Redis or SQL command, the timer) it is suspended at; an action is
that command's effect plus all code up to the next await. Variables marked
*history* are read by properties only.

### RpcListener, refining AtLeastOnce

One queue group and the processes that consume it. `place` says which queue has
a message, `deaths` is `x-death[0].count`, `dlq` counts dead-letter copies;
`pc`, `msg` and `live` are the running `_on_message` coroutines, `live` saying
whether the delivery's channel is still open.

| Action | Code |
|---|---|
| `Publish` | `call_rpc` publishing to `core.rpc.v1` |
| `Deliver` (`FirstStep`, `Exhausted`) | delivery under prefetch, `_on_message` lines 93-126: retry count, exhausted messages to `_move_to_dlq`, `json.loads` |
| `HandlerDone`, `HandlerFails`, `HandlerRejects` | `process_message` returning, raising, raising `ValidationError` |
| `MoveToDlq`, `MoveToDlqFails` | `_move_to_dlq`; its exception ends in a nack on line 146, or, from the `ValidationError` branch, leaves the coroutine |
| `Ack`, `Nack`, `RetryExpires` | lines 115, 130, 140, 148; the queue arguments of `declare_rpc_queue_with_retry` |
| `ConnectionLost`, `Crash` | external: the broker requeues what was unacknowledged; coroutines survive the first and not the second |

A message is *malformed* (`json.loads` refuses the body), *invalid* (the try
block raises `ValidationError`) or ordinary. The order inside a queue is left
out: prefetch, several consumers and the retry queue permute it anyway.

`AtLeastOnce` is the contract: a submitted message stays pending until handled
or dead-lettered and never becomes pending again. `ImplementsAtLeastOnce` maps
`pending` to "in the base or retry queue, or unacknowledged".

### LoginGuard

`issue_token` from several processes against one Redis. `attempts`, `window`,
`ban` are the keys and their remaining times, `connected` is
`CentralRedisClient.redis is not None`, `seen` the value INCR returned. `Begin`,
`CheckBan`, `Verify`, `Incr`, `Expire`, `SetBan`, `ClearCounter`, `ResetCounter`
and `SaveTokens` are the steps of lines 108-164 in their order. `Interrupt` is
an error or a crash before the pending command; `CloseRedis` is
`AuthContainer.shutdown` while deliveries go on, after which `exists` answers 0,
`set` and `delete` do nothing and a failure is answered without being counted.
`Tick` lets time pass. The test-only branch of lines 99-106 is left out.

### TokenRotation, refining SessionTable

The refresh tokens of one account. `row` and `expired` are the table, each run
is one call of `issue_token` (from line 157), `refresh_token` or `logout` with a
transaction of its own: `Select`, `Flush` (the UPDATE that revokes, which waits
for a row lock another transaction holds, and the INSERT), `Commit`, `Reply`.
`held` is what clients received, `parent` and `logouts` record committed
exchanges and logouts. A stored hash is not compared, because the signature
ties a token to its jti.

`AccountLoads` is FALSE in the repository: line 189 reads `old_token.account`,
which nobody loaded, in an `AsyncSession`. What follows is proved: no refresh
succeeds (`NoRefreshSucceeds` here, `NoRefreshAnswered` for the whole system). The
properties are checked with TRUE, the same code with the relationship loaded; with
FALSE they would hold because no refresh ever gets past the look-up. The theorems
that state them hold for both.

`SessionTable` is the contract of the table, with no word about statements, row
locks or replies: a refresh is *admitted* while its token is live and *exchanges*
it in one later step, a logout likewise *departs* and *revokes*, a login *issues*,
and only stored tokens are *handed* to a client. `ImplementsSessionTable` maps
`known` and `live` to the rows, `exchanging` and `leaving` to the token a run has
selected and not yet dealt with. That calls admitted together may each exchange
one token is in the contract, because it is what the code does.

### RpcCalls

The calling side. `pc`, `corr`, `future`, `value` are the running `call_rpc`s
with their id (the client's `X-Request-ID`, so two calls may share it),
`futures` is `_rpc_futures`, `chan`, `open` and `tag` are the channel of the
bus, the open channels and the channel `_reply_to_consumer_tag` stems from.
`Call`, `Connect`, `ConnectFails`, `Send`, `SendRefused`, `Unroutable`,
`Confirm`, `ConfirmFails`, `TimerFires`, `Return` are `_ensure` and `call_rpc`;
`DeliverReply` is `_on_rpc_reply`; `Serve` is a listener that answers, again
when the message is delivered again; `ChannelLost` and `ChannelRestored` are
the broker and the robust channel. `TimerFires` and `Return` are two actions
because `wait_for` of Python 3.12 resumes the caller after the timer fired, and
a reply that arrives in between is set on nothing or dropped.

### Registration, refining AccountRegistry

`register` behind its listener. A run is one `_on_message`: `Deliver`, the
look-ups `ByName` and `ByMail`, `Insert` (the flush of `session.commit`, which
waits for an uncommitted row that would clash and fails on a committed one),
`Commit`, `Reply`, `Ack`. `accounts` are the committed rows, each named by its
request; `told` is what the client heard first (history). `DatabaseError` is an
exception of a statement, which the code answers with `INTERNAL_ERROR` instead
of a retry, and which may follow a COMMIT that took effect; `LoseChannel` and
`Interrupt` make the broker deliver the message again. Requests that fail
validation change nothing and are left out.

`AccountRegistry` is the contract: a request *claims* its account in one step,
only while nobody owns its user name or e-mail, and no account is given up; each
client is *told* one thing, success only as an owner, "exists" only when there is
an owner, who is somebody else as long as nothing has failed. A client that was
refused claims nothing later without a failure. `ImplementsRegistry` maps `asked`
to the requests that were submitted and `faulty` to `faults > 0`; the COMMIT is
the claim.

### WsGateway, refining EventAudience

The connection table of one gateway and the coroutines that share it.

| Action | Code |
|---|---|
| `Connect`, `Refuse`, `Accept`, `Write`, `Receive` (`Touch`), `BinaryFrame` | `unified_websocket_endpoint` up to each await; `connect`, `update_activity` |
| `WriteFails`, `CloseReturns`, `Disconnected` (`Leave`) | its except and finally branches |
| `Wake`, `Visit`, `VictimClosed` | `idle_connection_checker` |
| `Broadcast`, `Send`, `Broadcasted` | `EventBroadcastListener.process_message`, `send_message_to_client` |
| `ClientLeaves`, `ClientVanishes`, `Tick` | external |

A connection is named by its socket, because line 91 of `unified_ws.py` draws a
new id for each; the branch of `connect` that replaces an older connection is
therefore out of reach and left out. `age` is the time since `last_activity`,
capped one unit above the limit; `seen` is the idle checker's `now -
last_activity`, `now` being read once per round and `last_activity` afresh for
every key. The order in which a snapshot is visited is left open.

`DependenciesResolve` is FALSE in the repository: `dependencies.py` asks for a
`Request`, which FastAPI does not pass on a WebSocket route, so that no
handshake gets past its dependencies although `docs/ARCHITECTURE.md:31` says
that clients connect. With FALSE the table stays empty and every property holds
vacuously; the run therefore uses TRUE, the same code with dependencies that ask
for an `HTTPConnection`. The theorems hold for both values.

`EventAudience` is the contract of the broadcast, with no word about sockets or
the table: a client is admitted or refused once and for all, a member that is
gone does not come back, an event is announced to at least the members of that
moment, only they hear it, and the broadcast ends when each of them who is still
a member and still answers has heard it. `ImplementsAudience` maps `members` to
the entries of the table whose socket is open, `decided` to the endpoints past
the check of their token, and the audience to the snapshot of the broadcast.

### ServiceLifecycle

One process from `service_lifespan` on, and the connections its bus opens.

| Action | Code |
|---|---|
| `RedisConnected`, `RedisFails`, `Created` | the `create` of a container: Redis and the bus at the same time |
| `Declared`, `StartListener`, `Serve`, `StartFails` (`Abort`) | `service_lifespan` up to `yield`; `BaseMicroserviceListener.start` |
| `Stop`, `TasksEnded`, `Stopped` | its finally clause, container `shutdown` |
| `CloseChannel`, `CloseConnection`, `RedisClosed` | `RabbitMQMessageBus.close`, `CentralRedisClient.close` |
| `Notice`, `Dialled`, `Connected`, `ConnectFails` | `_ensure`, and `connect` up to `connect_robust`, up to `channel()`, or up to its timeout, by the lifespan, a request or a handler |
| `Request`, `Deliver`, `Finish`, `Lose`, `Restore` | external |

Every connection has one channel, and both are named by one number. `connect`
awaits the connection and then its channel, so coroutines inside it together may
leave the connection of one in `_conn` and the channel of another in `_chan`:
these are `conn` and `chan`, and `dialled` is the connection whose channel a
coroutine waits for. `connect` replaces what it finds without closing it. The
robust connection it leaves behind restores itself with its consumers, which is
what keeps listeners consuming (`ConsumesOnce`), and it is also why `DownIsSilent` speaks of runs without a
loss only: `close` knows the last connection, so after a loss the process stops
with consumers that its end must remove. uvicorn lets HTTP requests end before
`Stop`; it does not know of handlers, and `listener.stop` cancels no consumer,
so handlers meet a closed bus and may open another connection.
`RedisFails` leaves `bus.connect` running, as `asyncio.gather` does.

The probe `/health/ready` reads state and changes none, so it is an operator,
`readiness_check`, of the checks `bootstrap.py` registers: `rmq_check` for both
services, `redis_check` for auth_svc. PostgreSQL and the pings of Redis are
external and taken to answer. The probe asks for the connection of the bus only.
`ReadyConsumes` says what `docs/HEALTH.md` does of a positive answer, that the
service is ready, so that its queues are consumed; `ServiceLifecycleReady` refutes
it. Of the two, `ReadyAgain` promises a positive answer after a loss and
`ConsumesAgain` that all queues are consumed again; neither implies the other,
because the bus and the listeners may be on different connections.

Whether the client library cancels the coroutines of a channel that closes
depends on its version. `RpcListener` covers both (`ConnectionLost`: they go on,
`Crash`: they end); here they go on.

### AuthSystem, refining GatewayContract, SessionTable and AccountRegistry

The whole way of a request about one user name: route, call, queue group,
listener, handler, rows, reply, status. The queue groups are not modelled again:
`Queue` is an instance of `AtLeastOnce`, which `RpcListener` was shown to
implement, and the actions of this module say when a message is handled,
settled or dead-lettered. In the same way a transaction is its look-up and its
commit, because `TokenRotation` and `Registration` have the statements between
them, and a call has a correlation id of its own, because `RpcCalls` has the
others.

| Action | Code |
|---|---|
| `Ask`, `AskFails` (`Open`, `Presents`, `RoutingKey`) | the five routes up to `call_rpc`, with its exceptions and its `None` |
| `Answer`, `TimesOut` (`StatusOf`, `get_http_status`) | `_on_rpc_reply`, the timeout, and what `login`, `register`, `validate_token`, `refresh`, `logout` make of the outcome |
| `Take`, `TakeAgain` (`Begin`, `HandlerOf`) | a delivery, the listener of its queue, the handler's decision from the token and the look-up |
| `Effect`: `CommitLogin`, `CommitRegister`, `RegisterLoses`, `CommitRefresh`, `RefreshRaises`, `CommitLogout`, `Validated` | the second half of the handlers |
| `Reply` | `publish_rpc_response` and the end of `process_message` |
| `RegisterError`, `Interrupt` | the `except` branches of `register`; a crash, a lost channel, any other exception |
| `DeadLetter`, `Settle` | `_on_message` after the last retry; its ack |

`status` is the HTTP status, 0 while the client waits; `replies` are on their way
to the gateway; `held` are the pairs of tokens clients have, `active` the pairs
whose refresh token is stored and not revoked, `expired` the tokens whose `exp`
has passed, which may happen whenever a token is looked at. `effects` and
`repeated` are history.

What is left out, and why nothing is lost by it: requests that FastAPI's
validation or the check of the `Authorization` header refuses never reach a
service; a token of the other kind or of another issuer fails to decode exactly
as an expired one does; `issue_token` may answer `auth.forbidden` at any time,
because the ban is `LoginGuard`'s; `RPC_MAX_RETRIES` is "some run has failed",
which allows every number of retries and covers a message that was handled and
comes back because its ack was lost; other accounts have other rows.

`GatewayContract` is what the routes promise, with no word about messages. A
request takes effect or not, now or later; its client is told *done*, *refused*
or something it cannot rely on. *Done* is true when it is said. *Refused* is true
and binds: the request does not take effect afterwards, unless its message was
delivered again. `ImplementsContract` maps `told` to what a status says for
certain. It says little for three statuses, which is what the code gives:
`logout` answers 200 and `validate` answers 401 also when nobody answered the RPC,
although `docs/ERROR_MODEL.md:51` maps `rpc.timeout` to 504, and a 500 or 504
leaves open what happened.

The abstraction of a transaction to its look-up and commit is held together from
both sides: `AuthSystem` also implements `SessionTable` (`Sessions` in
`AuthSystemProofs`, where `exchanging` and `leaving` are the pairs a run between
its two steps was given) and `AccountRegistry` (`Registry` there, where a client is
told what its HTTP status says, and a request whose message was never published
has asked for nothing). These are the specifications that the statements of
`TokenRotation` and `Registration` implement. With `AtLeastOnce` for the queues,
each of the three components is used here through what was shown of it.

## 3. Runs

| Run | Question | Instance | Why it is enough |
|---|---|---|---|
| `RpcListenerFaults` | Nothing lost, repeated, retried or dead-lettered wrongly; every JSON message settled, also next to one that circles, unless line 140 holds it; does the group implement `AtLeastOnce`? | 2 processes of 1 slot, prefetch 1, one message of each kind, 2 retries, 2 incidents | three messages compete for two slots; the coroutine of a lost channel overlaps the redelivery in the other process; both incidents can hit one message; the proofs cover larger instances |
| `RpcListenerPoison` | Does an exhausted message always reach the DLQ? Violated | 1 message that is not JSON | |
| `LoginGuardRaces` | Limit, window, ban under races and faults; do bans and counters end? | 3 processes, limit 2, window 2, ban 3 ticks, 1 fault | more processes than the limit, so that all race past the check; the ban outlives the window |
| `TokenRotationRaces` | Bounded, session-keeping exchanges without deadlock; do the transactions implement `SessionTable`? | 2 overlapping runs, 3 tokens, 1 fault | an exchange of an exchange, and two exchanges of one token |
| `RpcCallsRaces` | Answers, table and termination under late, repeated and misdirected replies | 2 calls, 2 ids, 2 replies each, 2 channels, 2 faults | with shared and with different ids, before and after a reconnection |
| `RpcCallsReconnect` | Does a reconnected bus have its reply consumer? Violated | 2 calls, 1 id, 1 fault | |
| `RegistrationRaces` | Who owns what, what are clients told, is every message settled; do the transactions implement `AccountRegistry`? | 2 requests, 2 runs, 2 names, 2 e-mails, 2 faults | equal names, equal e-mails, both or neither; a redelivery beside its own first run; a fault for each run |
| `RegistrationLoser` | Is the loser told that the name is taken? Violated | 2 requests, 1 name, no fault | |
| `WsGatewayRaces` | Does the table name the served connections; do events arrive; who is closed for idleness; does the gateway implement `EventAudience`? | 2 connections, 1 event, limit 1 | one connection makes the checker or the broadcast wait while the other changes; the proofs cover more events |
| `ServiceLifecycleRuns` | Does a running service consume each queue once, again after a loss, and nothing when it is down? Does "ready" return after a loss? | 2 listeners, Redis, 2 users of the bus, 4 connections, 3 losses | startup and both users can replace the connection and its channel, one of them again; each connection the listeners or the bus moved to can be lost; a start that fails between the two listeners; the proofs cover more |
| `ServiceLifecycleReady` | Does a service that answers "ready" consume its queues? Violated | 1 listener, 1 user of the bus, 2 connections, 1 loss | |
| `AuthSystemRuns` | Is every client told the truth, in time and for good? Does a session end by its client's wish only? Does a logout take place although its answer does not wait for it? | 2 requests of any route, 2 runs, with and without an earlier account, 1 fault | every pair of routes overlaps, on one session or two; both runs may serve one request; the fault is a repeated delivery, a failed run, an error after a commit or an unreachable broker; timeouts are not bounded; the proofs cover more |

The bounds on faults (`MaxIncidents`, `MaxFaults`, `MaxLosses`), on replies
(`MaxServes`) and on channels (`MaxChannels`, `MaxConnections`) limit what the environment does, never the code;
the counters they bound are the only unbounded ones. Symmetry is used only in
runs that check no liveness. Deadlock is checked where clients may always send
another request (`LoginGuard`, `TokenRotation`); `ServiceLifecycle` ends with the
process; in `AuthSystem` a request that was told and settled is over; the other
modules have a finite set of messages, calls, requests or
sockets and stop when all are settled.

**Fairness.** Each step of a coroutine is weakly fair: the event loop resumes a
coroutine whose await completed, and every await on the broker, Redis or the
database completes or raises (`wait_for`, publisher confirms, closed channels).
`RetryExpires` and `Tick` are weakly fair because Redis and the broker's TTL
follow the clock. `Deliver` is strongly fair per message: the broker serves a
queue in turn, but a slot may be taken by another message each time it is free.
Nothing is fair that clients, faults or operators decide, and `HandlerFails`
and `HandlerDone` are alternatives of one fair step: liveness does not assume
that a handler ever succeeds. In `WsGateway` the frames of a client are not fair,
nor its leaving: `VanishedRemoved` rests on the checker, the clock and the end
of each `close`, to which uvicorn gives a timeout. `Broadcasted` and the sends are
one fair process, as they are one coroutine. In `ServiceLifecycle` the steps of
startup and shutdown, `connect` (which has a timeout) and `Restore` are fair: the
client library never gives up restoring a connection. In `AuthSystem` each run
is weakly fair and `Take` strongly fair per request, as `Deliver` above; the
gateway is not fair at all, because what `LogoutTakesPlace` promises does not
depend on anyone waiting for the answer.

One liveness caveat: an exception of `_move_to_dlq` in the `ValidationError`
branch leaves a delivery neither acked nor nacked until the channel closes
(line 140). `EverySubmittedSettles` speaks of every message whose body is JSON and
names this as the one way for a message to remain (`HeldForGood`); as it is a
leads-to, it also says that such a message goes on, to be settled or held again,
once the channel of its consumer is gone. With prefetch 1 and a single process
the rest of the queue would stand still meanwhile; in the run the other process
goes on.

## 4. Findings

* **A body that is not JSON circles forever** (`RpcListenerPoison`).
  `_move_to_dlq` parses the body again and raises, the message is nacked into
  the retry queue, and so on, against `docs/MESSAGING.md:28`.
* **No refresh succeeds** (theorems `NoRefreshSucceeds` and `NoRefreshAnswered`).
  The lazy load on line 189 of `auth_service.py` raises for every active token:
  `refresh_token.py:47` keeps the default loading and `auth_repository.py:100` adds
  no option. `README.md:19` promises the whole life cycle of refresh tokens.
* **A reconnected bus cannot call** (`RpcCallsReconnect`). The tag of the old
  channel keeps `_setup_reply_to_consumer` from consuming on the new one.
* **The loser of a registration race is told "internal error"**
  (`RegistrationLoser`). `e.orig` is SQLAlchemy's class, never asyncpg's, against
  `docs/ERROR_MODEL.md:13`.
* **A deaf service says it is ready** (`ServiceLifecycleReady`). When a connection
  is lost, the next request or handler makes the bus open another one, while the
  consumers of the listeners stay on the lost one. The probe asks for that of the
  bus and answers 200 until the other is restored, with no queue consumed, against
  `docs/HEALTH.md:16`. There is no other way to it, which is proved
  (`DeafOnlyBehindLoss`), and it ends, which is checked (`ConsumesAgain`).

Not a finding, because no line of the repository promises otherwise: a crash
between INCR and EXPIRE leaves a login counter without a window, and no later
failure gives it one (`auth_service.py:134-138`). `CounterHasWindowOrFault`
says that nothing but a fault does this.

## 5. Proofs

All theorems are about `Spec` and hold for every value of the constants that
satisfies the module's named assumptions: `MessageAssumption`, `SizeAssumption`
(RpcListener), `GuardAssumption`, `RotationAssumption`, `CallAssumption`,
`RegistrationAssumption`, `GatewayAssumption`, `LifecycleAssumption`,
`SystemAssumption`. These say
that null values are not members of the sets they extend, that processes, tasks
or runs are finite sets, and that limits are natural numbers.

* `RpcListenerProofs`: `TypeCorrect`, `NoMessageLost`, `DeadOnlyWhenDue`,
  `RunsBounded`, `OnceWithoutFault` and `Implementation` (the refinement of
  `AtLeastOnce`). The properties are not inductive, because they speak of the
  outcome and not of the coroutine that brings it about. The invariant adds:
  two open deliveries never hold the same message (`LiveUnique`) and hold it
  exactly while it is unacknowledged (`LiveUnacked`), a coroutine that is about to
  ack has a handled or dead-lettered message (`AckEarned`), one that is about
  to dead-letter has cause to (`DlqDue`), and every open delivery has its run
  counted against deaths and incidents (`BudgetInv`, `RepeatInv`). `NoCircling`
  is the safety half of `EverySubmittedSettles`: `RoundsLeft`, the retries and
  incidents a message has left, and one more round if an incident kept it from the
  dead-letter queue, never grows and shrinks with each delivery that leaves the
  message unsettled. It speaks of JSON bodies; for the others it is false, which is
  the finding of `RpcListenerPoison`.
* `LoginGuardProofs`: `TypeCorrect`, `WindowSet`, `LateFailures`, `CleanCount`,
  `LimitHolds`. `WindowInv`
  couples a missing window with the task that is about to set it; `LateInv` bounds
  the failures counted in a ban together with the tasks past the check
  (`PastCheck`), one fewer than all because one of them set the ban. `LimitInv` needs
  two counts more: clients that are closed, each of which cost a fault
  (`ClosedPaid`), and tasks with a closed client that will count a failure or
  have, but will not set its ban (`Doomed`): the counter and they together stay
  below the limit but for the tasks in `Closing` and the faults. `BansRunOut` and
  `BansBounded` are the safety half of `BanLapses`. An attempt that had passed
  the check before the ban was set may prolong it; `BanRank` adds a whole
  `LockTtl` to the remaining time for each such attempt (`Arming`). No step adds
  to it, every tick takes from it, and it starts at `LockTtl` per task at most.
* `TokenRotationProofs`: `TypeCorrect`, `ExchangeAtomic`, `HeldCommitted`,
  `SessionSurvives`, `UsesAtMostRuns`. `RowInv` says what the rows of a run's old and
  new token are at each step; `UseInv` bounds a token's uses together with the
  runs that have selected it while it was active (`Selected`).
  `ImplementsSessions` is the refinement of `SessionTable`; beside `RowInv` it
  needs that a request presents a token its client holds (`OldHeld`).
  `NoRefreshSucceeds` assumes `AccountLoads` FALSE, as in the repository: no token
  is exchanged for another, because a refresh never gets past its look-up
  (`RefreshFutile`).
* `RpcCallsProofs`: `TypeCorrect`, `TableCorrect`, `AnswersBelong`,
  `AnswersFinal`. `TypeInv` and `TableExact` are inductive together;
  `AnswerInv` adds that a reply in flight has been served and that a done future's
  entry cannot be resolved again. `DeafAfterReconnect` says how long the finding
  of `RpcCallsReconnect` lasts: a call that begins after the bus connected anew is
  cut off from the reply consumer (`CutOff`), which no step of anyone undoes.
* `RegistrationProofs`: `TypeCorrect`, `SuccessIsOwnership`, `RefusalsTrue`,
  `WinnerExists`. `OwnerInv` keeps committed rows apart from each other
  (`OwnersApart`) and inserted rows apart from both (`InsertedApart`), and ties
  every `ok` on its way to a committed row (`OkOwns`). `QuietInv` speaks of
  histories without a fault: one run per request (`OneRun`), no row while it
  is undecided (`Undecided`), and the cause of each decision (`Decided`).
  `ImplementsAccountRegistry` is the refinement; it adds the cause of every
  refusal on its way, with or without faults (`RefusalDue`).
* `WsGatewayProofs`: `TypeCorrect`, `NoGhostEntries`, `NoOrphanSockets`,
  `BroadcastComplete`, `IdleClosesOnlyIdle`. `TableInv` adds that the socket the
  checker is about to remove is closed for good (`VictimShut`). `SnapshotInv`
  says what a snapshot is still good for: its sockets never enter the table
  again (`SnapshotsEntered`), the checker's `seen` is not ahead of the age of
  an entry (`SeenNotAhead`), and the clients a broadcast is done with have the
  event or are gone (`ServedSoFar`). `KeepsAudience` is the refinement of
  `EventAudience`; it adds that what is being sent goes to the snapshot it was
  taken for (`SendsAsAimed`).
* `ServiceLifecycleProofs`: `TypeCorrect`, `EachQueueOnce`, `SilentWhenDown`,
  `DeafOnlyBehindLoss`.
  `HomeInv` gives each started listener exactly one connection to consume on,
  which nothing closes before the shutdown (`PhaseInv` says when that is), and
  the others none. `QuietInv` says that without a loss all consumers are on the
  connection of the bus until `close` closes its channel, and that nobody opens
  another one before. `DeafOnlyBehindLoss` follows from `EachQueueOnce`: the
  one connection a listener is on is either open or lost, and when the probe
  answers, a lost one is not that of the channel of the bus.
* `AuthSystemProofs`: `TypeCorrect`, `SystemInvariant`, `KeepsContract`,
  `SessionsSurvive`. The contract speaks of what clients were told, so the
  invariant follows a verdict on its way to them: a run that is about to answer
  "ok" has taken effect, and one that is about to refuse a request has not, or
  the request was repeated (`RunsRight`); the same for replies in flight
  (`RepliesRight`) and for statuses (`StatusRight`). Two runs serve one request
  only if it was repeated (`RunsApart`), and a pair of tokens comes from a
  request that took effect (`PairsRight`). Each action then is a step of the
  contract or a stutter: `TakeEffect` for a commit, `Repeat` for a repeated
  delivery, `Tell` for an answer or a timeout. `SessionsSurvive` shows that a
  session leaves `active` by a call of its own only, and that this call stays
  to blame when its client is answered later (`EndedStays`).
  `KeepsSessionTable`, `KeepsAccountRegistry` and `KeepsQueues` are the
  refinements that tie the system to its components. The first needs that every
  token in use was stored (`UsableStored`); the second `RegisterInv`: a refusal on
  its way has its cause (`Due`), the owner is the request that took effect
  (`OwnerRegistered`), and without a fault no registration is delivered again
  after it was committed (`OnceRegistered`). From the session table follow
  `RevocationFinal` (no pair becomes active again) and `SpentTokensRefused` (a
  refresh requested after its token was used never takes effect, although runs
  that looked the token up earlier may still be under way: `Barred`).
  `EffectsPaidFor` bounds how often a request takes effect by one more than the
  faults; inductively, the effects and the runs that have decided on one
  (`Deciding`) are paid for together (`Paid`). `NoRefreshAnswered` is
  `NoRefreshSucceeds` as a client sees it: `RefreshIdle` is inductive, because a
  reply says "ok" only of what took effect.

The type invariants are not listed in the runs, because they are proved.

Model-checked only: liveness and deadlock freedom, because fairness and ENABLED
are out of the prover's reach. Of two liveness properties the ranking functions
are proved (`BansRunOut`, `NoCircling`); that the steps which lower them are taken
is left to TLC.

## 6. Not modelled

`OutboundWebSocketDispatcher`, `libs/infra/di.py`, `worker_db_utils.py`,
`transactional_decorator.py`, `send_message_to_client_type` and the JSON, hash
and publish helpers of the Redis client have no caller. Formatting of logs, DTO
declarations, settings, migrations and the schema script have no state of
their own. Password hashing and JWT signatures are taken for what they promise.
Publishers of events are left out because no service publishes one yet, so
`WsGateway` lets `Broadcast` start at any time. The dependencies of the WebSocket
endpoint are a constant (`DependenciesResolve`), because what breaks them is how
FastAPI resolves parameters and nothing a state can show.

## 7. Plan

In order of importance; 1-11 are done.

1. `RpcListener` with `AtLeastOnce`: every request depends on it.
2. `LoginGuard`. 3. `TokenRotation`. 4. `RpcCalls`.
5. `Registration`. 6. `WsGateway`.
7. `ServiceLifecycle`, with readiness.
8. `AuthSystem` with `GatewayContract`: the parts around one request, its
   routes, handlers and error mapping among them.
9. Proofs of every safety property the runs check.
10. `SessionTable`, `AccountRegistry`, `EventAudience`: what the components
    promise, implemented by their modules and, the first two, by `AuthSystem`.
11. Proofs of these refinements, and ranking functions for bans and retries.
12. Ranking functions for the other liveness properties: the end of a
    registration that waits for a row, of a startup, of a connection gone silent.
13. The connections a process leaves open when it ends, counted against its
    losses and the coroutines that used the bus.
14. The run count of `AuthSystem` against `RPC_TIMEOUT_MS`: how long the retries
    of a message may outlive the request, which needs a clock in the module.
