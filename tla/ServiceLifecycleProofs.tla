----------------------- MODULE ServiceLifecycleProofs -----------------------
(***************************************************************************)
(* Safety of ServiceLifecycle for every set of listeners and users and     *)
(* every number of connections and losses.                                 *)
(***************************************************************************)
EXTENDS ServiceLifecycle, TLAPS

(* Every step keeps the types. *)
LEMMA TypeStep == TypeOK /\ [Next]_vars => TypeOK'
<1> SUFFICES ASSUME TypeOK, [Next]_vars PROVE TypeOK'
  OBVIOUS
<1> USE LifecycleAssumption DEF TypeOK, lifespan, bus, channels, users, Connections, Callers, Phases, Links, LifeReady, Usable
<1>1. ASSUME NEW u \in Callers, BusStep(u) PROVE TypeOK'
  <2>1. CASE Notice(u)
    BY <2>1 DEF Notice
  <2>2. CASE Dialled(u)
    BY <2>2 DEF Dialled
  <2>3. CASE Connected(u)
    BY <2>3 DEF Connected, HasLink, EndConnect
  <2>4. CASE ConnectFails(u)
    BY <2>4 DEF ConnectFails, EndConnect, Abort
  <2>5. QED
    BY <1>1, <2>1, <2>2, <2>3, <2>4 DEF BusStep
<1>2. CASE RedisConnected \/ RedisFails
  BY <1>2 DEF RedisConnected, RedisFails
<1>3. CASE Created \/ Declared
  BY <1>3 DEF Created, Declared
<1>4. ASSUME NEW l \in Listeners, StartListener(l) PROVE TypeOK'
  BY <1>4 DEF StartListener
<1>5. CASE Serve \/ StartFails
  BY <1>5 DEF Serve, StartFails, Starting, Abort
<1>6. CASE Stop \/ TasksEnded
  BY <1>6 DEF Stop, TasksEnded, Abort
<1>7. CASE CloseChannel
  <2>1. CASE Usable
    <3>1. chan \in Connections
      BY <2>1
    <3>2. shut' \subseteq Connections /\ consumers' \in [Connections -> SUBSET Listeners]
      BY <1>7, <2>1, <3>1 DEF CloseChannel
    <3>3. QED
      BY <1>7, <3>2 DEF CloseChannel
  <2>2. CASE ~Usable
    BY <1>7, <2>2 DEF CloseChannel
  <2>3. QED
    BY <2>1, <2>2
<1>8. CASE CloseConnection
  <2>1. link' \in [Connections -> Links]
    BY <1>8 DEF CloseConnection
  <2>2. \A c \in Connections : link'[c] = "none" <=> link[c] = "none"
    BY <1>8 DEF CloseConnection
  <2>3. QED
    BY <1>8, <2>1, <2>2 DEF CloseConnection
<1>9. CASE RedisClosed \/ Stopped
  BY <1>9 DEF RedisClosed, Stopped
<1>10. ASSUME NEW u \in Users, Request(u) \/ Deliver(u) \/ Finish(u) PROVE TypeOK'
  BY <1>10 DEF Request, Deliver, Finish
<1>11. ASSUME NEW c \in Connections, Lose(c) \/ Restore(c) PROVE TypeOK'
  <2>1. link' \in [Connections -> Links]
    BY <1>11 DEF Lose, Restore
  <2>2. \A d \in Connections : link'[d] = "none" <=> link[d] = "none"
    BY <1>11 DEF Lose, Restore
  <2>3. losses' \in 0..MaxLosses
    BY <1>11 DEF Lose, Restore
  <2>4. QED
    BY <1>11, <2>1, <2>2, <2>3 DEF Lose, Restore
<1>12. CASE UNCHANGED vars
  BY <1>12 DEF vars
<1>13. QED
  BY <1>1, <1>2, <1>3, <1>4, <1>5, <1>6, <1>7, <1>8, <1>9, <1>10, <1>11, <1>12
     DEF Next, StartupStep, ShutdownStep

(* Type correctness of every reachable state. *)
THEOREM TypeCorrect == Spec => []TypeOK
<1>1. Init => TypeOK
  BY LifecycleAssumption DEF Init, TypeOK, Connections, Callers, Phases, Links
<1>2. QED
  BY <1>1, TypeStep, PTL DEF Spec

----------------------------------------------------------------------------
(* Consumers *)

(* l consumes on c, which is not closed, and on no other connection. *)
Home(l, c) ==
  /\ Kept(c) /\ l \in consumers[c]
  /\ \A d \in Connections : l \in consumers[d] => d = c

(* Before the shutdown nothing is closed, a started listener has a home,   *)
(* and one that is not started consumes nowhere.                           *)
HomeInv ==
  closing = "no" =>
    /\ shut = {}
    /\ \A c \in Connections : link[c] # "closed"
    /\ \A l \in started : \E c \in Connections : Home(l, c)
    /\ \A l \in Listeners \ started : \A c \in Connections : l \notin consumers[c]

(* How phase, closing and started go together. *)
PhaseInv ==
  /\ phase \in {"create", "declare", "start", "running", "cancel"} => closing = "no"
  /\ phase = "close" => closing # "no"
  /\ phase \in {"running", "cancel"} => started = Listeners

LEMMA PhaseStep == TypeOK /\ PhaseInv /\ [Next]_vars => PhaseInv'
<1> SUFFICES ASSUME TypeOK, PhaseInv, [Next]_vars PROVE PhaseInv'
  OBVIOUS
<1> USE LifecycleAssumption DEF TypeOK, PhaseInv, lifespan, bus, channels, users, Connections, Callers, Phases, Links, LifeReady
<1>1. ASSUME NEW u \in Callers, BusStep(u) PROVE PhaseInv'
  <2>1. CASE Notice(u)
    BY <2>1 DEF Notice
  <2>2. CASE Dialled(u)
    BY <2>2 DEF Dialled
  <2>3. CASE Connected(u)
    BY <2>3 DEF Connected, HasLink, EndConnect
  <2>4. CASE ConnectFails(u)
    BY <2>4 DEF ConnectFails, EndConnect, Abort
  <2>5. QED
    BY <1>1, <2>1, <2>2, <2>3, <2>4 DEF BusStep
<1>2. CASE RedisConnected \/ RedisFails
  BY <1>2 DEF RedisConnected, RedisFails
<1>3. CASE Created \/ Declared
  BY <1>3 DEF Created, Declared
<1>4. ASSUME NEW l \in Listeners, StartListener(l) PROVE PhaseInv'
  BY <1>4 DEF StartListener
<1>5. CASE Serve \/ StartFails
  BY <1>5 DEF Serve, StartFails, Starting, Abort
<1>6. CASE Stop \/ TasksEnded
  BY <1>6 DEF Stop, TasksEnded, Abort
<1>7. CASE CloseChannel
  BY <1>7 DEF CloseChannel
<1>8. CASE CloseConnection
  BY <1>8 DEF CloseConnection
<1>9. CASE RedisClosed \/ Stopped
  BY <1>9 DEF RedisClosed, Stopped
<1>10. ASSUME NEW u \in Users, Request(u) \/ Deliver(u) \/ Finish(u) PROVE PhaseInv'
  BY <1>10 DEF Request, Deliver, Finish
<1>11. ASSUME NEW c \in Connections, Lose(c) \/ Restore(c) PROVE PhaseInv'
  BY <1>11 DEF Lose, Restore
<1>12. CASE UNCHANGED vars
  BY <1>12 DEF vars
<1>13. QED
  BY <1>1, <1>2, <1>3, <1>4, <1>5, <1>6, <1>7, <1>8, <1>9, <1>10, <1>11, <1>12
     DEF Next, StartupStep, ShutdownStep

LEMMA HomeStep == TypeOK /\ PhaseInv /\ HomeInv /\ [Next]_vars => HomeInv'
<1> SUFFICES ASSUME TypeOK, PhaseInv, HomeInv, [Next]_vars PROVE HomeInv'
  OBVIOUS
<1> USE LifecycleAssumption
    DEF TypeOK, PhaseInv, HomeInv, Home, Kept, lifespan, bus, channels, users, Connections, Callers,
        Phases, Links, LifeReady, Usable
<1>1. ASSUME NEW u \in Callers, BusStep(u) PROVE HomeInv'
  <2>1. CASE Notice(u)
    BY <2>1 DEF Notice
  <2>2. CASE Dialled(u)
    BY <2>2 DEF Dialled
  <2>3. CASE Connected(u)
    BY <2>3 DEF Connected, HasLink, EndConnect
  <2>4. CASE ConnectFails(u)
    BY <2>4 DEF ConnectFails, EndConnect, Abort
  <2>5. QED
    BY <1>1, <2>1, <2>2, <2>3, <2>4 DEF BusStep
<1>2. CASE RedisConnected \/ RedisFails
  BY <1>2 DEF RedisConnected, RedisFails
<1>3. CASE Created \/ Declared
  BY <1>3 DEF Created, Declared
<1>4. ASSUME NEW l \in Listeners, StartListener(l) PROVE HomeInv'
  BY <1>4 DEF StartListener
<1>5. CASE Serve \/ StartFails
  BY <1>5 DEF Serve, StartFails, Starting, Abort
<1>6. CASE Stop \/ TasksEnded
  BY <1>6 DEF Stop, TasksEnded, Abort
<1>7. CASE CloseChannel
  BY <1>7 DEF CloseChannel
<1>8. CASE CloseConnection
  BY <1>8 DEF CloseConnection
<1>9. CASE RedisClosed \/ Stopped
  BY <1>9 DEF RedisClosed, Stopped
<1>10. ASSUME NEW u \in Users, Request(u) \/ Deliver(u) \/ Finish(u) PROVE HomeInv'
  BY <1>10 DEF Request, Deliver, Finish
<1>11. ASSUME NEW c \in Connections, Lose(c) \/ Restore(c) PROVE HomeInv'
  BY <1>11 DEF Lose, Restore
<1>12. CASE UNCHANGED vars
  BY <1>12 DEF vars
<1>13. QED
  BY <1>1, <1>2, <1>3, <1>4, <1>5, <1>6, <1>7, <1>8, <1>9, <1>10, <1>11, <1>12
     DEF Next, StartupStep, ShutdownStep

LEMMA HomesKept == Spec => [](TypeOK /\ PhaseInv /\ HomeInv)
<1>1. Init => PhaseInv /\ HomeInv
  BY DEF Init, PhaseInv, HomeInv
<1>2. QED
  BY <1>1, TypeCorrect, PhaseStep, HomeStep, PTL DEF Spec

(* A running service consumes every queue exactly once. *)
THEOREM EachQueueOnce == Spec => []ConsumesOnce
<1>1. TypeOK /\ PhaseInv /\ HomeInv => ConsumesOnce
  <2> SUFFICES ASSUME PhaseInv, HomeInv, phase = "running", NEW l \in Listeners
               PROVE \E c \in Connections : {d \in Connections : Kept(d) /\ l \in consumers[d]} = {c}
    BY DEF ConsumesOnce
  <2>1. PICK c \in Connections : Home(l, c)
    BY DEF PhaseInv, HomeInv
  <2>2. {d \in Connections : Kept(d) /\ l \in consumers[d]} = {c}
    BY <2>1 DEF Home
  <2>3. QED
    BY <2>2
<1>2. QED
  BY <1>1, HomesKept, PTL

(* The listener l of a ready service hears nothing. *)
Deaf(l) ==
  /\ phase = "running" /\ readiness_check
  /\ \A c \in Connections : link[c] = "open" => l \notin consumers[c]

(* What the run of ReadyConsumes finds is the only way a ready service can *)
(* be deaf: the bus uses another connection than the one the listener is   *)
(* on, and that one was lost and is still being restored.                  *)
ReadyDeafness ==
  \A l \in Listeners : Deaf(l) =>
    losses > 0 /\ \E c \in Connections \ {chan} : link[c] = "lost" /\ l \in consumers[c]

(* Lost connections are counted. *)
LossInv == \A c \in Connections : link[c] = "lost" => losses > 0

LEMMA LossStep == TypeOK /\ LossInv /\ [Next]_vars => LossInv'
<1> SUFFICES ASSUME TypeOK, LossInv, [Next]_vars PROVE LossInv'
  OBVIOUS
<1> USE LifecycleAssumption DEF TypeOK, LossInv, lifespan, bus, channels, users, Connections
<1>1. ASSUME NEW u \in Callers, Dialled(u) PROVE LossInv'
  BY <1>1 DEF Dialled
<1>2. CASE CloseConnection
  BY <1>2 DEF CloseConnection
<1>3. ASSUME NEW c \in Connections, Lose(c) \/ Restore(c) PROVE LossInv'
  BY <1>3 DEF Lose, Restore
<1>4. CASE UNCHANGED <<link, losses>>
  BY <1>4
<1>5. QED
  BY <1>1, <1>2, <1>3, <1>4
     DEF Next, BusStep, StartupStep, ShutdownStep, Notice, Connected, ConnectFails, RedisConnected,
         RedisFails, Created, Declared, StartListener, Serve, StartFails, Stop, TasksEnded,
         CloseChannel, RedisClosed, Stopped, Request, Deliver, Finish, vars

(* A ready service is deaf only behind a replaced connection that was lost. *)
THEOREM DeafOnlyBehindLoss == Spec => []ReadyDeafness
<1>1. ConsumesOnce /\ LossInv => ReadyDeafness
  <2> SUFFICES ASSUME ConsumesOnce, LossInv, NEW l \in Listeners, Deaf(l)
               PROVE  losses > 0 /\ \E c \in Connections \ {chan} : link[c] = "lost" /\ l \in consumers[c]
    BY DEF ReadyDeafness
  <2>1. phase = "running" /\ Usable
    BY DEF Deaf, readiness_check, rmq_check, is_connected
  <2>2. PICK c \in Connections : {d \in Connections : Kept(d) /\ l \in consumers[d]} = {c}
    BY <2>1 DEF ConsumesOnce
  <2>3. Kept(c) /\ l \in consumers[c]
    BY <2>2
  <2>4. link[c] = "lost" /\ c # chan
    BY <2>1, <2>3 DEF Kept, Deaf, Usable
  <2>5. QED
    BY <2>3, <2>4 DEF LossInv
<1>2. Init => LossInv
  BY DEF Init, LossInv, Connections
<1>3. QED
  BY <1>1, <1>2, LossStep, TypeCorrect, EachQueueOnce, PTL DEF Spec

----------------------------------------------------------------------------
(* Silence *)

NoConsumers == \A c \in Connections : consumers[c] = {}

(* While no connection was lost the bus has one channel from the end of    *)
(* container creation to bus.close, all consumers are on it, and nobody    *)
(* opens another connection before it is closed.                           *)
QuietInv ==
  losses = 0 =>
    /\ \A c \in Connections : consumers[c] # {} => c = chan
    /\ phase = "create" =>
         /\ NoConsumers
         /\ \A u \in Users : busy[u] = "no"
         /\ connecting = {Life} \/ (connecting = {} /\ Usable)
    /\ phase \in {"declare", "start", "running", "cancel"} => connecting = {} /\ Usable
    /\ phase = "close" /\ closing = "channel" => connecting = {} /\ Usable
    /\ phase = "close" /\ closing # "channel" => NoConsumers
    /\ phase = "down" => NoConsumers

LEMMA QuietStep == TypeOK /\ PhaseInv /\ HomeInv /\ QuietInv /\ [Next]_vars => QuietInv'
<1> SUFFICES ASSUME TypeOK, PhaseInv, HomeInv, QuietInv, [Next]_vars PROVE QuietInv'
  OBVIOUS
<1> USE LifecycleAssumption
    DEF TypeOK, PhaseInv, QuietInv, NoConsumers, lifespan, bus, channels, users, Connections, Callers,
        Phases, Links, LifeReady, Usable
<1>1. ASSUME NEW u \in Callers, BusStep(u) PROVE QuietInv'
  <2>1. CASE Notice(u)
    BY <2>1 DEF Notice
  <2>2. CASE Dialled(u)
    <3>1. /\ UNCHANGED <<lifespan, closing, chan, shut, consumers, connecting, busy, losses>>
          /\ u \in connecting
          /\ conn' = conn + 1 /\ link' = [link EXCEPT ![conn'] = "open"]
      BY <2>2 DEF Dialled
    <3>2. Usable => Usable'
      BY <3>1
    <3>3. QED
      BY <3>1, <3>2
  <2>3. CASE Connected(u)
    <3>1. losses = 0 =>
           NoConsumers /\ ((phase = "create" /\ connecting = {Life}) \/ phase \in {"close", "down"})
      BY <2>3 DEF Connected
    <3>2. phase = "create" => Usable'
      BY <2>3 DEF Connected, HasLink, HomeInv
    <3>3. /\ UNCHANGED <<lifespan, closing, channels, busy, losses>>
          /\ u \in connecting
          /\ connecting' = connecting \ {u}
      BY <2>3 DEF Connected, EndConnect
    <3>4. CASE losses = 0 /\ phase = "create"
      <4>1. connecting' = {} /\ NoConsumers' /\ phase' = "create"
        BY <3>1, <3>3, <3>4
      <4>2. QED
        BY <3>2, <3>3, <3>4, <4>1
    <3>5. CASE losses = 0 /\ phase # "create"
      <4>1. NoConsumers' /\ phase' \in {"close", "down"}
        BY <3>1, <3>3, <3>5
      <4>2. ~(phase = "close" /\ closing = "channel")
        BY <2>3, <3>5 DEF Connected
      <4>3. QED
        BY <3>3, <4>1, <4>2
    <3>6. QED
      BY <3>3, <3>4, <3>5
  <2>4. CASE ConnectFails(u)
    BY <2>4 DEF ConnectFails, EndConnect, Abort
  <2>5. QED
    BY <1>1, <2>1, <2>2, <2>3, <2>4 DEF BusStep
<1>2. CASE RedisConnected \/ RedisFails
  BY <1>2 DEF RedisConnected, RedisFails
<1>3. CASE Created \/ Declared
  BY <1>3 DEF Created, Declared
<1>4. ASSUME NEW l \in Listeners, StartListener(l) PROVE QuietInv'
  BY <1>4 DEF StartListener
<1>5. CASE Serve \/ StartFails
  BY <1>5 DEF Serve, StartFails, Starting, Abort
<1>6. CASE Stop \/ TasksEnded
  BY <1>6 DEF Stop, TasksEnded, Abort
<1>7. CASE CloseChannel
  BY <1>7 DEF CloseChannel
<1>8. CASE CloseConnection
  BY <1>8 DEF CloseConnection
<1>9. CASE RedisClosed \/ Stopped
  BY <1>9 DEF RedisClosed, Stopped
<1>10. ASSUME NEW u \in Users, Request(u) \/ Deliver(u) \/ Finish(u) PROVE QuietInv'
  BY <1>10 DEF Request, Deliver, Finish
<1>11. ASSUME NEW c \in Connections, Lose(c) \/ Restore(c) PROVE QuietInv'
  BY <1>11 DEF Lose, Restore
<1>12. CASE UNCHANGED vars
  BY <1>12 DEF vars
<1>13. QED
  BY <1>1, <1>2, <1>3, <1>4, <1>5, <1>6, <1>7, <1>8, <1>9, <1>10, <1>11, <1>12
     DEF Next, StartupStep, ShutdownStep

(* Unless a connection was lost, nothing consumes for a service that is down. *)
THEOREM SilentWhenDown == Spec => []DownIsSilent
<1>1. Init => QuietInv
  BY DEF Init, QuietInv, NoConsumers
<1>2. QuietInv => DownIsSilent
  BY DEF QuietInv, NoConsumers, DownIsSilent
<1>3. QED
  BY <1>1, <1>2, HomesKept, QuietStep, PTL DEF Spec
=============================================================================
