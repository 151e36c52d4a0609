----------------------------- MODULE WsGateway -----------------------------
(***************************************************************************)
(* The WebSocket connections of one gateway: ClientConnectionManager       *)
(* (apps/gateway/gateway/client_connection_manager.py) and the three kinds *)
(* of coroutines that share it: the endpoint of each connection            *)
(* (apps/gateway/ws/unified_ws.py), the idle checker                       *)
(* (apps/gateway/gateway_main.py) and the broadcast of an event            *)
(* (apps/gateway/listeners/event_listener.py).                             *)
(*                                                                         *)
(* A connection is named by its socket: its id is drawn anew for every     *)
(* connection, so connect never finds another socket under it.  A socket   *)
(* whose client has been seen to disconnect is removed from the table in   *)
(* the same step, so client_state needs no variable.  Time is kept as the  *)
(* age of an entry's last activity, in units of which IdleTimeout is the   *)
(* limit.                                                                  *)
(***************************************************************************)
EXTENDS Naturals, FiniteSets

CONSTANTS
  Sockets,
  Events,
  NoSocket,
  IdleTimeout,         \* GATEWAY_WS_IDLE_TIMEOUT
  DependenciesResolve  \* BOOLEAN: the endpoint gets the objects it depends on

(* DependenciesResolve is FALSE in the repository: apps/gateway/           *)
(* dependencies.py asks for a Request, which FastAPI does not pass on a    *)
(* WebSocket route, so the dependencies raise TypeError.  TRUE stands for  *)
(* the same code with dependencies that ask for an HTTPConnection.         *)
ASSUME GatewayAssumption ==
  /\ NoSocket \notin Sockets
  /\ IdleTimeout \in Nat
  /\ DependenciesResolve \in BOOLEAN

VARIABLES
  pc,       \* [Sockets -> Steps]: the await the endpoint is suspended at
  open,     \* sockets the server has not closed (application_state)
  peer,     \* [Sockets -> {"up", "left", "vanished"}]: the client's end
  active,   \* keys of active_connections
  types,    \* keys of client_types
  age,      \* [Sockets -> 0..IdleTimeout + 1]: time since last_activity
  todo,     \* the part of client_ids the idle checker has still to visit
  seen,     \* [Sockets -> 0..IdleTimeout + 1]: its now - last_activity
  victim,   \* the socket the idle checker is closing, or NoSocket
  sending,  \* [Events -> SUBSET Sockets]: the part of active_clients to come
  stage,    \* [Events -> {"queued", "sending", "done"}]
  aimed,    \* history, [Events -> SUBSET Sockets]: active_clients
  got       \* history, [Sockets -> SUBSET Events]: what the client received

endpoint  == <<pc, open, peer>>
table     == <<active, types, age>>
checker   == <<todo, seen, victim>>
broadcast == <<sending, stage, aimed, got>>
vars      == <<endpoint, table, checker, broadcast>>

Steps == {"new", "validate", "hello", "receive", "pong", "failing", "done"}

Idle(a) == a > IdleTimeout

(* ClientConnectionManager.disconnect *)
Disconnect(s) ==
  /\ active' = active \ {s}
  /\ types' = types \ {s}
  /\ age' = [age EXCEPT ![s] = 0]

Goto(s, step) == pc' = [pc EXCEPT ![s] = step]

(* The finally clause of the endpoint. *)
Leave(s) == Goto(s, "done") /\ Disconnect(s)

----------------------------------------------------------------------------
(* unified_websocket_endpoint *)

(* Variant: the socket is entered before its token has been validated. *)
ConnectEnters(s) ==
  /\ pc[s] = "new"
  /\ Goto(s, "validate")
  /\ open' = open \cup {s}
  /\ active' = active \cup {s}
  /\ types' = types \cup {s}
  /\ UNCHANGED <<peer, age, checker, broadcast>>

(* The handshake: the connection is accepted and the token sent to auth_svc. *)
Connect(s) ==
  /\ pc[s] = "new"
  /\ IF DependenciesResolve
       THEN Goto(s, "validate") /\ open' = open \cup {s}
       ELSE Goto(s, "done") /\ UNCHANGED open
  /\ UNCHANGED <<peer, table, checker, broadcast>>

(* No answer or an invalid token: closed with 1008; call_rpc raised: 1011. *)
Refuse(s) ==
  /\ pc[s] = "validate"
  /\ Goto(s, "done")
  /\ open' = open \ {s}
  /\ UNCHANGED <<peer, table, checker, broadcast>>

(* The token is valid: connect enters the socket, and HELLO is next. *)
Accept(s) ==
  /\ pc[s] = "validate"
  /\ Goto(s, "hello")
  /\ active' = active \cup {s}
  /\ types' = types \cup {s}
  /\ age' = [age EXCEPT ![s] = 0]
  /\ UNCHANGED <<open, peer, checker, broadcast>>

(* A frame of the endpoint's own, HELLO or PONG, is written. *)
Write(s) ==
  /\ pc[s] \in {"hello", "pong"}
  /\ s \in open
  /\ Goto(s, "receive")
  /\ UNCHANGED <<open, peer, table, checker, broadcast>>

(* The write raises: the client is gone, or the server has closed the      *)
(* socket meanwhile.  In the second case close raises once more in the     *)
(* except branch, and the finally clause runs all the same.                *)
WriteFails(s) ==
  /\ pc[s] \in {"hello", "pong"}
  /\ s \notin open \/ peer[s] = "left"
  /\ Leave(s)
  /\ open' = open \ {s}
  /\ UNCHANGED <<peer, checker, broadcast>>

(* Variant: the checker has read last_activity together with the keys. *)
TouchUnseen(s) ==
  /\ age' = [age EXCEPT ![s] = IF s \in active THEN 0 ELSE @]
  /\ UNCHANGED seen

(* update_activity; the idle checker reads last_activity afresh. *)
Touch(s) ==
  /\ age' = [age EXCEPT ![s] = IF s \in active THEN 0 ELSE @]
  /\ seen' = [seen EXCEPT ![s] = IF s \in active THEN 0 ELSE @]

(* A text frame: a ping is answered, the next frame is only awaited while  *)
(* the server has not closed the socket.                                   *)
Receive(s) ==
  /\ pc[s] = "receive"
  /\ peer[s] = "up"
  /\ \/ Touch(s) /\ Goto(s, "pong") /\ UNCHANGED <<active, types>>
     \/ s \in open /\ Touch(s) /\ UNCHANGED <<pc, active, types>>
     \/ s \notin open /\ Leave(s) /\ UNCHANGED seen
  /\ UNCHANGED <<open, peer, todo, victim, broadcast>>

(* A binary frame: receive_text raises KeyError, and the except branch     *)
(* closes the socket, which raises when it is closed already.              *)
BinaryFrame(s) ==
  /\ pc[s] = "receive"
  /\ peer[s] = "up"
  /\ IF s \in open
       THEN Goto(s, "failing") /\ open' = open \ {s} /\ UNCHANGED table
       ELSE Leave(s) /\ UNCHANGED open
  /\ UNCHANGED <<peer, checker, broadcast>>

(* Variant: the endpoint has no finally clause. *)
CloseReturnsOnly(s) ==
  /\ pc[s] = "failing"
  /\ Goto(s, "done")
  /\ UNCHANGED <<open, peer, table, checker, broadcast>>

(* close(1011) of the except branch returns or raises. *)
CloseReturns(s) ==
  /\ pc[s] = "failing"
  /\ Leave(s)
  /\ UNCHANGED <<open, peer, checker, broadcast>>

(* The client has left, or has answered the server's close: receive_text   *)
(* raises WebSocketDisconnect.                                             *)
Disconnected(s) ==
  /\ pc[s] = "receive"
  /\ peer[s] = "left" \/ s \notin open
  /\ Leave(s)
  /\ open' = open \ {s}
  /\ UNCHANGED <<peer, checker, broadcast>>

----------------------------------------------------------------------------
(* idle_connection_checker *)

(* Variant: the clock is read once, before the loop. *)
WakeOldClock ==
  /\ todo = {}
  /\ victim = NoSocket
  /\ active # {}
  /\ todo' = active
  /\ UNCHANGED <<endpoint, table, seen, victim, broadcast>>

(* Every GATEWAY_WS_PING_INTERVAL: now and the keys are read. *)
Wake ==
  /\ todo = {}
  /\ victim = NoSocket
  /\ active # {}
  /\ todo' = active
  /\ seen' = age
  /\ UNCHANGED <<endpoint, table, victim, broadcast>>

(* Variant: the entry is removed without closing the socket. *)
VisitForgetsClose(s) ==
  /\ victim = NoSocket
  /\ s \in todo
  /\ todo' = todo \ {s}
  /\ IF s \in active /\ Idle(seen[s]) THEN Disconnect(s) ELSE UNCHANGED table
  /\ UNCHANGED <<endpoint, seen, victim, broadcast>>

(* The next key: an entry that is still there and idle is closed; close    *)
(* raises at once when the server has closed the socket already.           *)
Visit(s) ==
  /\ victim = NoSocket
  /\ s \in todo
  /\ todo' = todo \ {s}
  /\ \/ /\ s \in active /\ Idle(seen[s]) /\ s \in open
        /\ victim' = s
        /\ open' = open \ {s}
        /\ UNCHANGED table
     \/ /\ s \in active /\ Idle(seen[s]) /\ s \notin open
        /\ Disconnect(s)
        /\ UNCHANGED <<victim, open>>
     \/ /\ s \notin active \/ ~Idle(seen[s])
        /\ UNCHANGED <<victim, open, table>>
  /\ UNCHANGED <<pc, peer, seen, broadcast>>

(* close returns or raises; the entry is removed in any case. *)
VictimClosed ==
  /\ victim # NoSocket
  /\ Disconnect(victim)
  /\ victim' = NoSocket
  /\ UNCHANGED <<endpoint, todo, seen, broadcast>>

----------------------------------------------------------------------------
(* EventBroadcastListener.process_message *)

Broadcast(e) ==
  /\ stage[e] = "queued"
  /\ sending' = [sending EXCEPT ![e] = active]
  /\ aimed' = [aimed EXCEPT ![e] = active]
  /\ stage' = [stage EXCEPT ![e] = "sending"]
  /\ UNCHANGED <<endpoint, table, checker, got>>

(* Variant: an exception of send_text ends the broadcast. *)
SendAborts(e, s) ==
  /\ s \in sending[e]
  /\ \/ /\ s \in active /\ s \notin open
        /\ sending' = [sending EXCEPT ![e] = {}]
        /\ Disconnect(s)
        /\ UNCHANGED got
     \/ /\ s \in active /\ s \in open
        /\ sending' = [sending EXCEPT ![e] = @ \ {s}]
        /\ got' = IF peer[s] = "up" THEN [got EXCEPT ![s] = @ \cup {e}] ELSE got
        /\ UNCHANGED table
     \/ /\ s \notin active
        /\ sending' = [sending EXCEPT ![e] = @ \ {s}]
        /\ UNCHANGED <<table, got>>
  /\ UNCHANGED <<endpoint, checker, stage, aimed>>

(* send_message_to_client for the next key: nothing for an entry that is   *)
(* gone; RuntimeError for a socket the server has closed and               *)
(* WebSocketDisconnect for a client found to have left both remove the     *)
(* entry; else the frame is written, and received if the client is there.  *)
Send(e, s) ==
  /\ s \in sending[e]
  /\ sending' = [sending EXCEPT ![e] = @ \ {s}]
  /\ \/ s \notin active /\ UNCHANGED <<open, table, got>>
     \/ /\ s \in active /\ s \notin open
        /\ Disconnect(s)
        /\ UNCHANGED <<open, got>>
     \/ /\ s \in active /\ s \in open /\ peer[s] = "left"
        /\ Disconnect(s)
        /\ open' = open \ {s}
        /\ UNCHANGED got
     \/ /\ s \in active /\ s \in open
        /\ got' = IF peer[s] = "up" THEN [got EXCEPT ![s] = @ \cup {e}] ELSE got
        /\ UNCHANGED <<open, table>>
  /\ UNCHANGED <<pc, peer, checker, stage, aimed>>

(* The handler returns and the event is acknowledged. *)
Broadcasted(e) ==
  /\ stage[e] = "sending"
  /\ sending[e] = {}
  /\ stage' = [stage EXCEPT ![e] = "done"]
  /\ UNCHANGED <<endpoint, table, checker, sending, aimed, got>>

----------------------------------------------------------------------------
(* Clients and time *)

ClientLeaves(s) ==
  /\ pc[s] \notin {"new", "done"}
  /\ peer[s] = "up"
  /\ peer' = [peer EXCEPT ![s] = "left"]
  /\ UNCHANGED <<pc, open, table, checker, broadcast>>

(* The network fails without a word: nothing arrives any more. *)
ClientVanishes(s) ==
  /\ pc[s] \notin {"new", "done"}
  /\ peer[s] = "up"
  /\ peer' = [peer EXCEPT ![s] = "vanished"]
  /\ UNCHANGED <<pc, open, table, checker, broadcast>>

Tick ==
  /\ \E s \in active : ~Idle(age[s])
  /\ age' = [s \in Sockets |-> IF s \in active /\ ~Idle(age[s]) THEN age[s] + 1 ELSE age[s]]
  /\ UNCHANGED <<endpoint, active, types, checker, broadcast>>

----------------------------------------------------------------------------
Init ==
  /\ pc      = [s \in Sockets |-> "new"]
  /\ open    = {}
  /\ peer    = [s \in Sockets |-> "up"]
  /\ active  = {}
  /\ types   = {}
  /\ age     = [s \in Sockets |-> 0]
  /\ todo    = {}
  /\ seen    = [s \in Sockets |-> 0]
  /\ victim  = NoSocket
  /\ sending = [e \in Events |-> {}]
  /\ stage   = [e \in Events |-> "queued"]
  /\ aimed   = [e \in Events |-> {}]
  /\ got     = [s \in Sockets |-> {}]

Frame(s) == Receive(s) \/ BinaryFrame(s)

EndpointStep(s) ==
  Refuse(s) \/ Accept(s) \/ Write(s) \/ WriteFails(s) \/ CloseReturns(s) \/ Disconnected(s)

CheckerStep == Wake \/ (\E s \in Sockets : Visit(s)) \/ VictimClosed

BroadcastStep(e) == Broadcast(e) \/ (\E s \in Sockets : Send(e, s)) \/ Broadcasted(e)

Next ==
  \/ \E s \in Sockets : Connect(s) \/ Frame(s) \/ EndpointStep(s)
  \/ \E s \in Sockets : ClientLeaves(s) \/ ClientVanishes(s)
  \/ CheckerStep
  \/ \E e \in Events : BroadcastStep(e)
  \/ Tick

Spec == Init /\ [][Next]_vars

(* Awaits on the bus, writes and closes end (uvicorn gives a close a       *)
(* timeout), sleeps end and time passes; clients need not do anything.     *)
FairSpec ==
  /\ Spec
  /\ \A s \in Sockets : WF_vars(EndpointStep(s))
  /\ \A e \in Events : WF_vars(BroadcastStep(e))
  /\ WF_vars(CheckerStep)
  /\ WF_vars(Tick)

----------------------------------------------------------------------------
(* Properties *)

(* Every variable has its type. *)
TypeOK ==
  /\ pc \in [Sockets -> Steps]
  /\ open \subseteq Sockets
  /\ peer \in [Sockets -> {"up", "left", "vanished"}]
  /\ active \subseteq Sockets
  /\ types = active
  /\ age \in [Sockets -> 0..(IdleTimeout + 1)]
  /\ todo \subseteq Sockets
  /\ seen \in [Sockets -> 0..(IdleTimeout + 1)]
  /\ victim \in Sockets \cup {NoSocket}
  /\ sending \in [Events -> SUBSET Sockets]
  /\ stage \in [Events -> {"queued", "sending", "done"}]
  /\ aimed \in [Events -> SUBSET Sockets]
  /\ got \in [Sockets -> SUBSET Events]

(* No entry outlives its endpoint, whatever the idle checker, broadcasts   *)
(* and late frames do to it while the endpoint is closing: an entry nobody *)
(* serves would be sent every event for ever.                              *)
NoGhosts ==
  \A s \in active : pc[s] \in {"hello", "receive", "pong", "failing"}

(* No client is left connected but unheard: the idle checker and failed    *)
(* sends remove the entry of a closed socket only.                         *)
NoOrphans ==
  \A s \in Sockets : pc[s] \in {"hello", "receive", "pong"} /\ s \in open => s \in active

(* A client that is still there when a broadcast ends got the event, if it *)
(* was connected when the broadcast began: no client that fails on the way *)
(* and no entry the idle checker removes meanwhile costs it the event.     *)
EventReachesAll ==
  \A e \in Events : stage[e] = "done" =>
    \A s \in aimed[e] \cap open : peer[s] = "up" => e \in got[s]

(* The idle checker closes a socket only while it is idle, although it     *)
(* waits for the close of others between reading the clock and the entry.  *)
IdleCloseJustified ==
  [][\A s \in Sockets : victim' = s /\ victim # s => Idle(age[s])]_vars

Audience ==
  INSTANCE EventAudience WITH
    Clients  <- Sockets,
    decided  <- {s \in Sockets : pc[s] \notin {"new", "validate"}},
    members  <- active \cap open,
    here     <- {s \in Sockets : peer[s] = "up"},
    audience <- aimed,
    heard    <- got

(* Endpoints, idle checker and broadcasts change the table behind each     *)
(* other's back between any two frames, and yet the gateway keeps its      *)
(* promise: a client is a member only after its token was found valid and  *)
(* never again once it was removed; an event goes to those that were       *)
(* members when it was announced and are still, and misses none of them.   *)
ImplementsAudience == Audience!Spec

(* A client that vanished without a word does not stay in the table.       *)
VanishedRemoved ==
  \A s \in Sockets : s \in active /\ peer[s] = "vanished" ~> s \notin active
=============================================================================
