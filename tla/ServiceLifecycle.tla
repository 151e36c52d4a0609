-------------------------- MODULE ServiceLifecycle --------------------------
(***************************************************************************)
(* The life of one service process: service_lifespan                       *)
(* (libs/app/bootstrap.py) with the container it creates and shuts down,   *)
(* the listeners it starts (libs/messaging/base_listener.py), and the      *)
(* connections to RabbitMQ that RabbitMQMessageBus opens and closes on     *)
(* behalf of everybody (libs/messaging/rabbitmq_message_bus.py).           *)
(*                                                                         *)
(* Every connection has one channel and is named by its number; _conn and  *)
(* _chan of the bus may belong to different ones, because connect() awaits *)
(* each in turn.  Users are the coroutines that use the bus: HTTP          *)
(* requests, which uvicorn lets end before it stops the lifespan, and the  *)
(* handlers of messages, which it does not know of.                        *)
(***************************************************************************)
EXTENDS Naturals, FiniteSets

CONSTANTS
  Listeners,
  Users,
  Life,            \* the coroutine service_lifespan
  HasRedis,        \* BOOLEAN: auth_svc connects to Redis, gateway does not
  MaxConnections,  \* bound: connections opened in the life of the process
  MaxLosses        \* bound: connections the network or the broker takes away

ASSUME LifecycleAssumption ==
  /\ Life \notin Users
  /\ HasRedis \in BOOLEAN
  /\ MaxConnections \in Nat \ {0}
  /\ MaxLosses \in Nat

VARIABLES
  phase,       \* the await the lifespan is suspended at
  started,     \* listeners whose _started is set
  redis,       \* "none", "up" or "closed"
  closing,     \* what bus.close closes next: "no", "channel", "connection", "done"
  conn,        \* the connection in bus._conn, the last one opened; 0 before the first
  chan,        \* the connection whose channel is bus._chan, 0 before the first
  link,        \* [Connections -> Links]
  shut,        \* connections whose channel bus.close has closed
  consumers,   \* [Connections -> SUBSET Listeners]: consumers of its channel
  connecting,  \* coroutines inside connect()
  dialled,     \* [Callers -> 0..conn]: the connection whose channel one waits for
  busy,        \* [Users -> {"no", "http", "handler"}]
  losses       \* connections lost so far, at most MaxLosses

lifespan == <<phase, started, redis>>
bus      == <<conn, chan>>
channels == <<link, shut, consumers>>
users    == <<connecting, dialled, busy>>
vars     == <<lifespan, closing, bus, channels, users, losses>>

Connections == 1..MaxConnections
Callers     == Users \cup {Life}
Phases      == {"create", "declare", "start", "running", "cancel", "close", "down"}
Links       == {"none", "open", "lost", "closed"}

(* bus._chan is there and not closed. *)
Usable == chan > 0 /\ link[chan] = "open" /\ chan \notin shut

(* A connection that delivers, or will when the client library has         *)
(* restored it, whether the bus still knows it or not.                     *)
Kept(c) == link[c] \in {"open", "lost"} /\ c \notin shut

(* The lifespan goes on past an await on the bus. *)
LifeReady(step) == phase = step /\ Life \notin connecting

(* A robust connection is closed by close() only. *)
is_connected == Usable /\ link[conn] # "closed"

rmq_check == is_connected

(* The client is there and the ping is answered; gateway has no client. *)
redis_check == HasRedis => redis = "up"

(* /health/ready answers 200; PostgreSQL answers too. *)
readiness_check == rmq_check /\ redis_check

(* The topology is declared, or listeners are still to be started. *)
Starting == LifeReady("declare") \/ (LifeReady("start") /\ started # Listeners)

(* The finally clause after a failure at startup: background tasks were    *)
(* not created yet, listeners are stopped, the container is shut down.     *)
Abort ==
  /\ phase' = "close"
  /\ closing' = "channel"
  /\ started' = {}
  /\ UNCHANGED redis

----------------------------------------------------------------------------
(* RabbitMQMessageBus *)

(* _ensure finds the channel closed and calls connect(). *)
Notice(u) ==
  /\ ~Usable
  /\ u \notin connecting
  /\ \/ u \in Users /\ busy[u] # "no"
     \/ u = Life /\ Starting
  /\ connecting' = connecting \cup {u}
  /\ UNCHANGED <<lifespan, closing, bus, channels, dialled, busy, losses>>

(* The connection u opened in connect() can give it a channel. *)
HasLink(u) == \E c \in Connections : c = dialled[u] /\ link[c] = "open"

(* Variant: connect closes the connection it replaces. *)
DialledClosesOld(u) ==
  /\ u \in connecting /\ ~HasLink(u)
  /\ conn < MaxConnections
  /\ conn' = conn + 1
  /\ link' = [c \in Connections |->
               IF c = conn' THEN "open" ELSE IF c = conn THEN "closed" ELSE link[c]]
  /\ dialled' = [dialled EXCEPT ![u] = conn']
  /\ UNCHANGED <<lifespan, closing, chan, shut, consumers, connecting, busy, losses>>

(* connect_robust returns, in the first round of the loop or because the   *)
(* connection of the last one was gone before it gave a channel: _conn is  *)
(* replaced, and what it replaces is not closed.                           *)
Dialled(u) ==
  /\ u \in connecting /\ ~HasLink(u)
  /\ conn < MaxConnections
  /\ conn' = conn + 1
  /\ link' = [link EXCEPT ![conn'] = "open"]
  /\ dialled' = [dialled EXCEPT ![u] = conn']
  /\ UNCHANGED <<lifespan, closing, chan, shut, consumers, connecting, busy, losses>>

(* connect() ends, one way or the other. *)
EndConnect(u) ==
  /\ connecting' = connecting \ {u}
  /\ dialled' = [dialled EXCEPT ![u] = 0]

(* channel() returns: _chan is replaced, while _conn may be that of a      *)
(* coroutine that called connect() in between.                             *)
Connected(u) ==
  /\ u \in connecting /\ HasLink(u)
  /\ chan' = dialled[u]
  /\ EndConnect(u)
  /\ UNCHANGED <<lifespan, closing, conn, channels, busy, losses>>

(* Variant: connect closes the old channel before it knows of a new one. *)
ConnectFailsClosed(u) ==
  /\ u \in connecting \cap Users
  /\ EndConnect(u)
  /\ busy' = [busy EXCEPT ![u] = "no"]
  /\ shut' = shut \cup {chan}
  /\ UNCHANGED <<lifespan, closing, bus, link, consumers, losses>>

(* RABBITMQ_CONNECT_TIMEOUT is over: connect raises into its caller, at    *)
(* startup the lifespan; without a container there is nothing to close.    *)
ConnectFails(u) ==
  /\ u \in connecting
  /\ EndConnect(u)
  /\ \/ /\ u \in Users
        /\ busy' = [busy EXCEPT ![u] = "no"]
        /\ UNCHANGED <<lifespan, closing>>
     \/ /\ u = Life /\ phase = "create"
        /\ phase' = "down"
        /\ UNCHANGED <<started, redis, closing, busy>>
     \/ /\ u = Life /\ phase \in {"declare", "start"}
        /\ Abort
        /\ UNCHANGED busy
     \/ /\ u = Life /\ phase = "down"
        /\ UNCHANGED <<lifespan, closing, busy>>
  /\ UNCHANGED <<bus, channels, losses>>

----------------------------------------------------------------------------
(* service_lifespan: startup *)

(* AuthContainer.create: Redis answers the ping. *)
RedisConnected ==
  /\ HasRedis
  /\ phase = "create"
  /\ redis = "none"
  /\ redis' = "up"
  /\ UNCHANGED <<phase, started, closing, bus, channels, users, losses>>

(* It does not: gather raises at once, and bus.connect goes on unheeded. *)
RedisFails ==
  /\ HasRedis
  /\ phase = "create"
  /\ redis = "none"
  /\ phase' = "down"
  /\ UNCHANGED <<started, redis, closing, bus, channels, users, losses>>

Created ==
  /\ LifeReady("create")
  /\ HasRedis => redis = "up"
  /\ phase' = "declare"
  /\ UNCHANGED <<started, redis, closing, bus, channels, users, losses>>

(* The topology is declared and the factories have made the listeners. *)
Declared ==
  /\ LifeReady("declare")
  /\ Usable
  /\ phase' = "start"
  /\ UNCHANGED <<started, redis, closing, bus, channels, users, losses>>

(* listener.start: one consumer on the channel of the moment. *)
StartListener(l) ==
  /\ LifeReady("start")
  /\ Usable
  /\ l \in Listeners \ started
  /\ consumers' = [consumers EXCEPT ![chan] = @ \cup {l}]
  /\ started' = started \cup {l}
  /\ UNCHANGED <<phase, redis, closing, bus, link, shut, users, losses>>

(* Variant: the application is served before every listener is started. *)
ServeEarly ==
  /\ LifeReady("start")
  /\ phase' = "running"
  /\ UNCHANGED <<started, redis, closing, bus, channels, users, losses>>

(* Background tasks are created and the application is served. *)
Serve ==
  /\ LifeReady("start")
  /\ started = Listeners
  /\ phase' = "running"
  /\ UNCHANGED <<started, redis, closing, bus, channels, users, losses>>

(* Variant: the container is shut down after yield only, not in finally. *)
StartFailsOnly ==
  /\ Starting
  /\ phase' = "down"
  /\ started' = {}
  /\ UNCHANGED <<redis, closing, bus, channels, users, losses>>

(* A declaration or a consume raises. *)
StartFails ==
  /\ Starting
  /\ Abort
  /\ UNCHANGED <<bus, channels, users, losses>>

----------------------------------------------------------------------------
(* service_lifespan: the finally clause *)

(* uvicorn has let the requests end; background tasks are cancelled. *)
Stop ==
  /\ phase = "running"
  /\ \A u \in Users : busy[u] # "http"
  /\ phase' = "cancel"
  /\ UNCHANGED <<started, redis, closing, bus, channels, users, losses>>

(* The tasks have ended.  listener.stop resets a flag and cancels nothing; *)
(* container.shutdown begins.                                              *)
TasksEnded ==
  /\ phase = "cancel"
  /\ Abort
  /\ UNCHANGED <<bus, channels, users, losses>>

(* bus.close closes the channel of the moment, if it is open ... *)
CloseChannel ==
  /\ phase = "close"
  /\ closing = "channel"
  /\ closing' = "connection"
  /\ IF Usable
       THEN shut' = shut \cup {chan} /\ consumers' = [consumers EXCEPT ![chan] = {}]
       ELSE UNCHANGED <<shut, consumers>>
  /\ UNCHANGED <<lifespan, bus, link, users, losses>>

(* ... and then the connection of the moment. *)
CloseConnection ==
  /\ phase = "close"
  /\ closing = "connection"
  /\ closing' = "done"
  /\ link' = [link EXCEPT ![conn] = "closed"]
  /\ UNCHANGED <<lifespan, bus, shut, consumers, users, losses>>

(* CentralRedisClient.close, at the same time. *)
RedisClosed ==
  /\ phase = "close"
  /\ redis = "up"
  /\ redis' = "closed"
  /\ UNCHANGED <<phase, started, closing, bus, channels, users, losses>>

Stopped ==
  /\ phase = "close"
  /\ closing = "done"
  /\ redis # "up"
  /\ phase' = "down"
  /\ UNCHANGED <<started, redis, closing, bus, channels, users, losses>>

----------------------------------------------------------------------------
(* Requests, messages and the network *)

Request(u) ==
  /\ phase = "running"
  /\ busy[u] = "no"
  /\ busy' = [busy EXCEPT ![u] = "http"]
  /\ UNCHANGED <<lifespan, closing, bus, channels, connecting, dialled, losses>>

Deliver(u) ==
  /\ busy[u] = "no"
  /\ \E c \in Connections : link[c] = "open" /\ consumers[c] # {}
  /\ busy' = [busy EXCEPT ![u] = "handler"]
  /\ UNCHANGED <<lifespan, closing, bus, channels, connecting, dialled, losses>>

Finish(u) ==
  /\ busy[u] # "no"
  /\ u \notin connecting
  /\ busy' = [busy EXCEPT ![u] = "no"]
  /\ UNCHANGED <<lifespan, closing, bus, channels, connecting, dialled, losses>>

Lose(c) ==
  /\ link[c] = "open"
  /\ losses < MaxLosses
  /\ losses' = losses + 1
  /\ link' = [link EXCEPT ![c] = "lost"]
  /\ UNCHANGED <<lifespan, closing, bus, shut, consumers, users>>

(* The robust connection is there again, with its channel and consumers. *)
Restore(c) ==
  /\ link[c] = "lost"
  /\ link' = [link EXCEPT ![c] = "open"]
  /\ UNCHANGED <<lifespan, closing, bus, shut, consumers, users, losses>>

----------------------------------------------------------------------------
Init ==
  /\ phase      = "create"
  /\ started    = {}
  /\ redis      = "none"
  /\ closing    = "no"
  /\ conn       = 0
  /\ chan       = 0
  /\ link       = [c \in Connections |-> "none"]
  /\ shut       = {}
  /\ consumers  = [c \in Connections |-> {}]
  /\ connecting = {Life}
  /\ dialled    = [u \in Callers |-> 0]
  /\ busy       = [u \in Users |-> "no"]
  /\ losses     = 0

StartupStep ==
  \/ RedisConnected \/ RedisFails \/ Created \/ Declared
  \/ \E l \in Listeners : StartListener(l)
  \/ Serve \/ StartFails

ShutdownStep == TasksEnded \/ CloseChannel \/ CloseConnection \/ RedisClosed \/ Stopped

BusStep(u) == Notice(u) \/ Dialled(u) \/ Connected(u) \/ ConnectFails(u)

Next ==
  \/ \E u \in Callers : BusStep(u)
  \/ StartupStep
  \/ Stop
  \/ ShutdownStep
  \/ \E u \in Users : Request(u) \/ Deliver(u) \/ Finish(u)
  \/ \E c \in Connections : Lose(c) \/ Restore(c)

Spec == Init /\ [][Next]_vars

(* Awaits of startup and shutdown end, connect() gives up after its        *)
(* timeout, and the client library keeps trying to restore a connection.   *)
(* Nobody has to stop the service or to use it.                            *)
FairSpec ==
  /\ Spec
  /\ WF_vars(StartupStep)
  /\ WF_vars(ShutdownStep)
  /\ \A u \in Callers : WF_vars(BusStep(u))
  /\ \A c \in Connections : WF_vars(Restore(c))

----------------------------------------------------------------------------
(* Properties *)

(* Every variable has its type. *)
TypeOK ==
  /\ phase \in Phases
  /\ started \subseteq Listeners
  /\ redis \in {"none", "up", "closed"}
  /\ closing \in {"no", "channel", "connection", "done"}
  /\ conn \in 0..MaxConnections
  /\ chan \in 0..conn
  /\ link \in [Connections -> Links]
  /\ shut \subseteq Connections
  /\ consumers \in [Connections -> SUBSET Listeners]
  /\ connecting \subseteq Callers
  /\ busy \in [Users -> {"no", "http", "handler"}]
  /\ losses \in 0..MaxLosses
  /\ dialled \in [Callers -> 0..conn]
  /\ \A c \in Connections : link[c] = "none" <=> c > conn

(* A running service consumes every queue exactly once, on a connection    *)
(* that is open or being restored, however often requests and handlers     *)
(* made the bus open another one: it is neither deaf, nor does it take     *)
(* twice its prefetch.                                                     *)
ConsumesOnce ==
  phase = "running" => \A l \in Listeners : \E c \in Connections :
    {d \in Connections : Kept(d) /\ l \in consumers[d]} = {c}

(* Unless a connection was lost, nothing consumes for a service that is    *)
(* down, wherever its startup failed and whatever its handlers did while   *)
(* it was being shut down.  (After a loss, bus.close knows only the last   *)
(* of the connections that connect() opened.)                              *)
DownIsSilent ==
  phase = "down" /\ losses = 0 =>
    \A c \in Connections : link[c] = "open" => consumers[c] = {}

(* Every queue is being consumed on a connection that is there. *)
AllConsumed ==
  \A l \in Listeners : \E c \in Connections : link[c] = "open" /\ l \in consumers[c]

(* docs/HEALTH.md, section 2: a service that answers 200 is fully ready,   *)
(* so its queues are consumed.  The probe asks for the connection of the   *)
(* bus, which a request may have replaced while the listeners' own is lost.*)
ReadyConsumes == phase = "running" /\ readiness_check => AllConsumed

(* A running service that has lost connections is ready again in the end.  *)
ReadyAgain == phase = "running" ~> phase # "running" \/ readiness_check

(* A running service that lost its connections consumes all its queues     *)
(* again, although the bus may have moved on to another connection.        *)
ConsumesAgain == phase = "running" ~> phase # "running" \/ AllConsumed
=============================================================================
