------------------------------ MODULE RpcCalls ------------------------------
(***************************************************************************)
(* The calling side of an RPC: RabbitMQMessageBus.call_rpc and             *)
(* _on_rpc_reply with the table _rpc_futures that links them, and the      *)
(* channel they use (_ensure, connect, _setup_reply_to_consumer)           *)
(* (libs/messaging/rabbitmq_message_bus.py).                               *)
(*                                                                         *)
(* A call is one run of call_rpc in the gateway.  Its correlation id is    *)
(* the X-Request-ID header of the HTTP request, so two calls may share     *)
(* one.  A reply is named by the call whose message it answers.  Channels  *)
(* are numbered in the order they are opened.                              *)
(***************************************************************************)
EXTENDS Naturals, FiniteSets

CONSTANTS
  Calls,
  Ids,         \* correlation ids
  NoCall,
  NoId,
  MaxServes,   \* bound: how often the service answers one message
  MaxChannels, \* bound: channels the bus opens
  MaxFaults    \* bound: channels lost and messages the broker returns

ASSUME CallAssumption ==
  /\ NoCall \notin Calls
  /\ NoId \notin Ids
  /\ MaxServes \in Nat
  /\ MaxChannels \in Nat \ {0}
  /\ MaxFaults \in Nat

VARIABLES
  pc,         \* [Calls -> Steps]: the await a call is suspended at
  corr,       \* [Calls -> Ids or NoId]: its correlation id
  future,     \* [Calls -> {"none", "pending", "answered", "cancelled"}]
  value,      \* [Calls -> Calls or NoCall]: the reply its future was given
  futures,    \* [Ids -> Calls or NoCall]: _rpc_futures
  via,        \* [Calls -> Nat]: the channel a call publishes on
  chan,       \* the number of the bus's current channel, _chan
  open,       \* the channels that are open
  tag,        \* the channel _reply_to_consumer_tag belongs to
  published,  \* calls whose message the broker has taken
  served,     \* [Calls -> Nat]: replies the service has sent
  inFlight,   \* [Calls -> Nat]: of these, not yet delivered
  addressed,  \* calls whose reply address is still known to the broker
  faults      \* faults so far, at most MaxFaults

callVars    == <<pc, corr, future, value, futures, via>>
channelVars == <<chan, open, tag>>
brokerVars  == <<published, served, inFlight, addressed>>
vars        == <<callVars, channelVars, brokerVars, faults>>

Steps == {"idle", "connect", "send", "confirm", "wait", "expired", "done"}

(* Calls that have an entry in _rpc_futures of their own making. *)
InProgress(c) == pc[c] \in {"send", "confirm", "wait", "expired"}

(* Another call uses, or used, the correlation id of c. *)
Shared(c) == \E d \in Calls \ {c} : corr[d] = corr[c]

----------------------------------------------------------------------------
(* call_rpc *)

(* The future is created and entered under the correlation id, replacing   *)
(* the entry of a call with the same id; the next await publishes on k.    *)
Register(c, i, k) ==
  /\ pc' = [pc EXCEPT ![c] = "send"]
  /\ future' = [future EXCEPT ![c] = "pending"]
  /\ futures' = [futures EXCEPT ![i] = c]
  /\ via' = [via EXCEPT ![c] = k]

(* Variant: there is no finally clause. *)
LeaveEntry(c) ==
  /\ pc' = [pc EXCEPT ![c] = "done"]
  /\ UNCHANGED futures

(* The finally clause pops whatever is entered under the id. *)
Leave(c) ==
  /\ pc' = [pc EXCEPT ![c] = "done"]
  /\ futures' = [futures EXCEPT ![corr[c]] = NoCall]

(* _ensure returns the open channel without waiting, or connects first. *)
Call(c, i) ==
  /\ pc[c] = "idle"
  /\ corr' = [corr EXCEPT ![c] = i]
  /\ \/ chan \in open /\ Register(c, i, chan)
     \/ chan \notin open /\ pc' = [pc EXCEPT ![c] = "connect"]
          /\ UNCHANGED <<future, futures, via>>
  /\ UNCHANGED <<value, channelVars, brokerVars, faults>>

(* connect: a new connection and channel replace the old ones, which       *)
(* nobody closes.  _setup_reply_to_consumer returns at once, because       *)
(* _reply_to_consumer_tag is still set.                                    *)
Connect(c) ==
  /\ pc[c] = "connect"
  /\ chan < MaxChannels
  /\ chan' = chan + 1
  /\ open' = open \cup {chan'}
  /\ Register(c, corr[c], chan')
  /\ UNCHANGED <<corr, value, tag, brokerVars, faults>>

(* RABBITMQ_CONNECT_TIMEOUT is over: the exception leaves call_rpc. *)
ConnectFails(c) ==
  /\ pc[c] = "connect"
  /\ pc' = [pc EXCEPT ![c] = "done"]
  /\ UNCHANGED <<corr, future, value, futures, via, channelVars, brokerVars, faults>>

(* The broker takes the message; replies will go to the consumer of the    *)
(* channel it was published on.                                            *)
Send(c) ==
  /\ pc[c] = "send"
  /\ via[c] \in open
  /\ via[c] = tag
  /\ pc' = [pc EXCEPT ![c] = "confirm"]
  /\ published' = published \cup {c}
  /\ addressed' = addressed \cup {c}
  /\ UNCHANGED <<corr, future, value, futures, via, channelVars, served, inFlight, faults>>

(* Publishing raises: the channel is closed, or the broker closes it       *)
(* because it has no consumer for direct replies.                          *)
SendRefused(c) ==
  /\ pc[c] = "send"
  /\ via[c] \notin open \/ via[c] # tag
  /\ open' = open \ {via[c]}
  /\ Leave(c)
  /\ UNCHANGED <<corr, future, value, via, chan, tag, brokerVars, faults>>

(* The exchange is missing or no queue is bound: mandatory=True. *)
Unroutable(c) ==
  /\ pc[c] = "send"
  /\ faults < MaxFaults
  /\ faults' = faults + 1
  /\ Leave(c)
  /\ UNCHANGED <<corr, future, value, via, channelVars, brokerVars>>

(* The publisher confirm arrives, and wait_for starts its timer. *)
Confirm(c) ==
  /\ pc[c] = "confirm"
  /\ via[c] \in open
  /\ pc' = [pc EXCEPT ![c] = "wait"]
  /\ UNCHANGED <<corr, future, value, futures, via, channelVars, brokerVars, faults>>

(* The channel closed before the confirm: publish raises. *)
ConfirmFails(c) ==
  /\ pc[c] = "confirm"
  /\ via[c] \notin open
  /\ Leave(c)
  /\ UNCHANGED <<corr, future, value, via, channelVars, brokerVars, faults>>

(* Variant: the future is awaited without a timeout. *)
WaitForever(c) == FALSE

(* RPC_TIMEOUT_MS is over: wait_for cancels the future.  The call itself   *)
(* resumes later; an answer set in between is dropped with it.             *)
TimerFires(c) ==
  /\ pc[c] = "wait"
  /\ pc' = [pc EXCEPT ![c] = "expired"]
  /\ future' = [future EXCEPT ![c] = IF @ = "pending" THEN "cancelled" ELSE @]
  /\ UNCHANGED <<corr, value, futures, via, channelVars, brokerVars, faults>>

(* The call resumes and returns the answer, or None after the timeout. *)
Return(c) ==
  /\ \/ pc[c] = "wait" /\ future[c] = "answered" /\ UNCHANGED value
     \/ pc[c] = "expired" /\ value' = [value EXCEPT ![c] = NoCall]
  /\ Leave(c)
  /\ UNCHANGED <<corr, future, via, channelVars, brokerVars, faults>>

----------------------------------------------------------------------------
(* _on_rpc_reply *)

(* Variant: the correlation id of a reply is not looked at. *)
AnyPending(c) == {d \in Calls : future[d] = "pending" /\ InProgress(d)}

(* Variant: a future that is done is resolved again. *)
AddresseeDone(c) == {d \in Calls : futures[corr[c]] = d}

(* The futures a reply to the message of c resolves: at most one. *)
Addressee(c) == {d \in Calls : futures[corr[c]] = d /\ future[d] = "pending"}

(* The reply to the message of c is dropped by the broker, when its        *)
(* address is gone, or reaches the bus, which resolves the future entered  *)
(* under its id unless that is done.                                       *)
DeliverReply(c) ==
  /\ inFlight[c] > 0
  /\ inFlight' = [inFlight EXCEPT ![c] = @ - 1]
  /\ LET to == IF c \in addressed THEN Addressee(c) ELSE {}
     IN /\ future' = [d \in Calls |-> IF d \in to THEN "answered" ELSE future[d]]
        /\ value'  = [d \in Calls |-> IF d \in to THEN c ELSE value[d]]
  /\ UNCHANGED <<pc, corr, futures, via, channelVars, published, served, addressed, faults>>

----------------------------------------------------------------------------
(* The service and the broker *)

(* A listener answers the message, again when it is delivered again. *)
Serve(c) ==
  /\ c \in published
  /\ served[c] < MaxServes
  /\ served' = [served EXCEPT ![c] = @ + 1]
  /\ inFlight' = [inFlight EXCEPT ![c] = @ + 1]
  /\ UNCHANGED <<callVars, channelVars, published, addressed, faults>>

ChannelLost(k) ==
  /\ k \in open
  /\ faults < MaxFaults
  /\ faults' = faults + 1
  /\ open' = open \ {k}
  /\ addressed' = {c \in addressed : via[c] # k}
  /\ UNCHANGED <<callVars, chan, tag, published, served, inFlight>>

(* The robust connection of the client library opens the channel anew,     *)
(* with the consumers it had.                                              *)
ChannelRestored(k) ==
  /\ k \notin open
  /\ open' = open \cup {k}
  /\ UNCHANGED <<callVars, chan, tag, brokerVars, faults>>

----------------------------------------------------------------------------
(* The gateway has connected during its startup. *)
Init ==
  /\ pc        = [c \in Calls |-> "idle"]
  /\ corr      = [c \in Calls |-> NoId]
  /\ future    = [c \in Calls |-> "none"]
  /\ value     = [c \in Calls |-> NoCall]
  /\ futures   = [i \in Ids |-> NoCall]
  /\ via       = [c \in Calls |-> 0]
  /\ chan      = 1
  /\ open      = {1}
  /\ tag       = 1
  /\ published = {}
  /\ served    = [c \in Calls |-> 0]
  /\ inFlight  = [c \in Calls |-> 0]
  /\ addressed = {}
  /\ faults    = 0

CallStep(c) ==
  \/ Connect(c)
  \/ ConnectFails(c)
  \/ Send(c)
  \/ SendRefused(c)
  \/ Unroutable(c)
  \/ Confirm(c)
  \/ ConfirmFails(c)
  \/ TimerFires(c)
  \/ Return(c)

Next ==
  \/ \E c \in Calls, i \in Ids : Call(c, i)
  \/ \E c \in Calls : CallStep(c)
  \/ \E c \in Calls : Serve(c) \/ DeliverReply(c)
  \/ \E k \in 1..chan : ChannelLost(k) \/ ChannelRestored(k)

Spec == Init /\ [][Next]_vars

(* The event loop resumes a call, the client library ends every wait on    *)
(* the broker and timers fire.                                             *)
FairSpec == Spec /\ \A c \in Calls : WF_vars(CallStep(c))

----------------------------------------------------------------------------
(* Properties *)

(* Every variable has its type; a call in progress has an id and a future. *)
TypeOK ==
  /\ pc \in [Calls -> Steps]
  /\ corr \in [Calls -> Ids \cup {NoId}]
  /\ future \in [Calls -> {"none", "pending", "answered", "cancelled"}]
  /\ value \in [Calls -> Calls \cup {NoCall}]
  /\ futures \in [Ids -> Calls \cup {NoCall}]
  /\ via \in [Calls -> 0..MaxChannels]
  /\ chan \in 1..MaxChannels
  /\ open \subseteq 1..chan
  /\ tag \in 0..chan
  /\ published \subseteq Calls
  /\ served \in [Calls -> 0..MaxServes]
  /\ inFlight \in [Calls -> Nat]
  /\ addressed \subseteq published
  /\ faults \in 0..MaxFaults
  /\ \A c \in Calls : inFlight[c] <= served[c]
  /\ \A c \in Calls : pc[c] # "idle" => corr[c] \in Ids
  /\ \A c \in Calls : value[c] # NoCall => future[c] = "answered"

(* An answer belongs to its call: it carries the call's correlation id and *)
(* answers a message the service received.  So a call whose id no other    *)
(* call uses gets the answer to its own message or none, however late,     *)
(* repeated or reordered the replies are.                                  *)
OwnAnswer ==
  \A c \in Calls : value[c] # NoCall =>
    /\ corr[value[c]] = corr[c]
    /\ served[value[c]] > 0
    /\ Shared(c) \/ value[c] = c

(* The table of futures holds calls in progress only, under their own ids; *)
(* and a call in progress stays entered until it leaves, unless another    *)
(* call uses its id.                                                       *)
TableExact ==
  /\ \A i \in Ids : futures[i] # NoCall =>
       InProgress(futures[i]) /\ corr[futures[i]] = i
  /\ \A c \in Calls : InProgress(c) /\ ~Shared(c) => futures[corr[c]] = c

(* No reply reaches a call after it returned, and a call in progress is    *)
(* answered once: what a caller was told does not change.                  *)
AnsweredOnce ==
  [][\A c \in Calls : pc[c] = "done" \/ (pc[c] = "wait" /\ value[c] # NoCall)
       => value'[c] = value[c]]_vars

(* Every call returns: with an answer, or without one after a timeout, a   *)
(* refused message or a failed connection.                                 *)
EveryCallReturns ==
  \A c \in Calls : pc[c] # "idle" ~> pc[c] = "done"

(* rabbitmq_message_bus.py, line 83: after a successful connection the     *)
(* consumer of RPC replies is started.                                     *)
ReplyConsumerStarted == chan \in open => tag = chan
=============================================================================
