---------------------------- MODULE RpcListener ----------------------------
(***************************************************************************)
(* One RPC queue group (base, retry and dead-letter queue, as declared by  *)
(* libs/messaging/rabbitmq_topology.py) and the listeners that consume it  *)
(* (BaseMicroserviceListener, libs/messaging/base_listener.py).            *)
(*                                                                         *)
(* A task is one run of the coroutine _on_message.  The broker is modelled *)
(* from the queue arguments the repository declares; the order of messages *)
(* inside a queue is left out, because prefetch, several consumers and the *)
(* retry queue already permute it.                                         *)
(***************************************************************************)
EXTENDS Naturals, FiniteSets

CONSTANTS
  Services,      \* auth_svc processes that consume the base queue
  Slots,         \* names for the coroutines of one process
  Msgs,          \* messages a client may publish
  NoMsg,         \* "this task holds no message"
  Malformed,     \* messages whose body json.loads refuses
  Invalid,       \* messages for which the try block raises ValidationError
  MaxRetries,    \* RPC_MAX_RETRIES
  Prefetch,      \* unacknowledged deliveries the broker allows one consumer
  MaxIncidents   \* bound: connection losses, crashes and failed publishes

ASSUME MessageAssumption ==
  /\ NoMsg \notin Msgs
  /\ Malformed \subseteq Msgs
  /\ Invalid \subseteq Msgs
  /\ Malformed \cap Invalid = {}

ASSUME SizeAssumption ==
  /\ IsFiniteSet(Services)
  /\ IsFiniteSet(Slots)
  /\ MaxRetries \in Nat
  /\ Prefetch \in Nat \ {0}
  /\ MaxIncidents \in Nat

VARIABLES
  place,      \* [Msgs -> Places]: where the broker keeps the message
  deaths,     \* [Msgs -> Nat]: x-death[0].count of the message
  dlq,        \* [Msgs -> Nat]: copies of the message in the dead-letter queue
  pc,         \* [Tasks -> Steps]: the await a coroutine is suspended at
  msg,        \* [Tasks -> Msgs or NoMsg]: the message it was called with
  live,       \* [Tasks -> BOOLEAN]: the channel of its delivery is still open
  started,    \* history: runs of the body parsing and process_message
  handled,    \* history: normal returns of process_message
  faults,     \* history: incidents that hit a delivery of the message
  incidents   \* incidents so far, at most MaxIncidents

brokerVars == <<place, deaths, dlq>>
taskVars   == <<pc, msg, live>>
history    == <<started, handled, faults>>
vars       == <<place, deaths, dlq, pc, msg, live, started, handled, faults, incidents>>

Tasks  == Services \X Slots
Places == {"new", "base", "unacked", "retry", "gone"}
Steps  == {"idle", "process", "to_dlq", "reject", "ack", "nack", "escaped"}

TasksOf(s) == {t \in Tasks : t[1] = s}

(* Deliveries the broker counts against the consumer's prefetch. *)
Outstanding(s) == {t \in TasksOf(s) : live[t]}

(* The broker hands these messages out again when the channel of s goes away. *)
Unacked(s) == {msg[t] : t \in Outstanding(s)}

----------------------------------------------------------------------------
(* _on_message up to its first await: the retry count is read from x-death *)
(* and an exhausted message goes to _move_to_dlq, which parses the body    *)
(* again; otherwise the body is parsed.  A body that json.loads refuses    *)
(* raises in either place and ends in the except branch that nacks.        *)

(* Variant: one more retry than the limit. *)
ExhaustedLate(m) == deaths[m] > MaxRetries

(* Variant: the limit counts the run that is about to fail. *)
ExhaustedEarly(m) == deaths[m] + 1 >= MaxRetries

Exhausted(m) == deaths[m] >= MaxRetries

FirstStep(m) ==
  IF m \in Malformed THEN "nack" ELSE IF Exhausted(m) THEN "to_dlq" ELSE "process"

(* x-death is only ever compared with RPC_MAX_RETRIES: counts above it are *)
(* not told apart.                                                         *)
Bump(d) == IF d < MaxRetries THEN d + 1 ELSE d

(* The coroutine of t returns or dies. *)
EndTask(t) ==
  /\ pc'   = [pc EXCEPT ![t] = "idle"]
  /\ msg'  = [msg EXCEPT ![t] = NoMsg]
  /\ live' = [live EXCEPT ![t] = FALSE]

Goto(t, step) ==
  /\ pc' = [pc EXCEPT ![t] = step]
  /\ UNCHANGED <<msg, live>>

----------------------------------------------------------------------------
(* A client publishes m to the RPC exchange with the queue's routing key. *)
Publish(m) ==
  /\ place[m] = "new"
  /\ place' = [place EXCEPT ![m] = "base"]
  /\ UNCHANGED <<deaths, dlq, taskVars, history, incidents>>

(* The broker pushes m to a consumer that has prefetch left and the client *)
(* library calls _on_message, which runs up to its first await.            *)
Deliver(t, m) ==
  /\ place[m] = "base"
  /\ pc[t] = "idle"
  /\ Cardinality(Outstanding(t[1])) < Prefetch
  /\ place' = [place EXCEPT ![m] = "unacked"]
  /\ pc'    = [pc EXCEPT ![t] = FirstStep(m)]
  /\ msg'   = [msg EXCEPT ![t] = m]
  /\ live'  = [live EXCEPT ![t] = TRUE]
  /\ started' = IF FirstStep(m) = "process"
                  THEN [started EXCEPT ![m] = @ + 1]
                  ELSE started
  /\ UNCHANGED <<deaths, dlq, handled, faults, incidents>>

(* process_message returns: its effects and its reply are out. *)
HandlerDone(t) ==
  /\ pc[t] = "process"
  /\ msg[t] \notin Invalid
  /\ handled' = [handled EXCEPT ![msg[t]] = @ + 1]
  /\ Goto(t, "ack")
  /\ UNCHANGED <<brokerVars, started, faults, incidents>>

(* process_message raises anything but ValidationError. *)
HandlerFails(t) ==
  /\ pc[t] = "process"
  /\ msg[t] \notin Invalid
  /\ Goto(t, "nack")
  /\ UNCHANGED <<brokerVars, history, incidents>>

(* ValidationError: the message cannot be repaired and goes to the DLQ. *)
HandlerRejects(t) ==
  /\ pc[t] = "process"
  /\ msg[t] \in Invalid
  /\ Goto(t, "reject")
  /\ UNCHANGED <<brokerVars, history, incidents>>

(* Variant: the message is nacked, not acked, once its copy is in the DLQ. *)
DlqThenNack(t) ==
  /\ pc[t] \in {"to_dlq", "reject"}
  /\ dlq' = [dlq EXCEPT ![msg[t]] = @ + 1]
  /\ Goto(t, "nack")
  /\ UNCHANGED <<place, deaths, history, incidents>>

(* _move_to_dlq succeeds; the bus publishes on its current channel, so this *)
(* works for a delivery whose own channel is gone, too.                     *)
MoveToDlq(t) ==
  /\ pc[t] \in {"to_dlq", "reject"}
  /\ dlq' = [dlq EXCEPT ![msg[t]] = @ + 1]
  /\ Goto(t, "ack")
  /\ UNCHANGED <<place, deaths, history, incidents>>

(* Variant: a failed publish to the DLQ is logged and the message acked. *)
DlqFailureSwallowed(t) ==
  /\ pc[t] \in {"to_dlq", "reject"}
  /\ incidents < MaxIncidents
  /\ incidents' = incidents + 1
  /\ faults' = [faults EXCEPT ![msg[t]] = @ + 1]
  /\ Goto(t, "ack")
  /\ UNCHANGED <<brokerVars, started, handled>>

(* _move_to_dlq raises, whether or not the broker kept the copy.  Inside   *)
(* the try block that leads to a nack; in the ValidationError branch the   *)
(* exception leaves the coroutine and the message stays unacknowledged.    *)
MoveToDlqFails(t) ==
  /\ pc[t] \in {"to_dlq", "reject"}
  /\ incidents < MaxIncidents
  /\ incidents' = incidents + 1
  /\ faults' = [faults EXCEPT ![msg[t]] = @ + 1]
  /\ \/ dlq' = dlq
     \/ dlq' = [dlq EXCEPT ![msg[t]] = @ + 1]
  /\ \/ pc[t] = "to_dlq" /\ Goto(t, "nack")
     \/ pc[t] = "reject" /\ live[t] /\ Goto(t, "escaped")
     \/ pc[t] = "reject" /\ ~live[t] /\ EndTask(t)
  /\ UNCHANGED <<place, deaths, started, handled>>

(* msg.ack(); on a closed channel it raises, and so does the nack that the *)
(* except branch tries next: the coroutine ends and the broker hears       *)
(* nothing.                                                                *)
Ack(t) ==
  /\ pc[t] = "ack"
  /\ place' = IF live[t] THEN [place EXCEPT ![msg[t]] = "gone"] ELSE place
  /\ EndTask(t)
  /\ UNCHANGED <<deaths, dlq, history, incidents>>

(* msg.nack(requeue=False): the base queue dead-letters into the retry     *)
(* queue and x-death counts one more round.                                *)
Nack(t) ==
  /\ pc[t] = "nack"
  /\ place' = IF live[t] THEN [place EXCEPT ![msg[t]] = "retry"] ELSE place
  /\ deaths' = IF live[t] THEN [deaths EXCEPT ![msg[t]] = Bump(@)] ELSE deaths
  /\ EndTask(t)
  /\ UNCHANGED <<dlq, history, incidents>>

(* Variant: the retry queue is declared without x-message-ttl. *)
RetryWithoutTtl(m) == FALSE

(* x-message-ttl of the retry queue runs out: back to the base queue. *)
RetryExpires(m) ==
  /\ place[m] = "retry"
  /\ place' = [place EXCEPT ![m] = "base"]
  /\ UNCHANGED <<deaths, dlq, taskVars, history, incidents>>

----------------------------------------------------------------------------
(* Incidents.  The broker puts every unacknowledged message of the lost    *)
(* channel back into the base queue; a requeue leaves x-death as it is.    *)

RequeueUnacked(s) ==
  /\ place'  = [m \in Msgs |-> IF m \in Unacked(s) THEN "base" ELSE place[m]]
  /\ faults' = [m \in Msgs |-> IF m \in Unacked(s) THEN faults[m] + 1 ELSE faults[m]]
  /\ incidents < MaxIncidents
  /\ incidents' = incidents + 1

(* The connection of s drops and the robust connection restores it: the    *)
(* coroutines of the old channel keep running.                             *)
ConnectionLost(s) ==
  /\ Outstanding(s) # {}
  /\ RequeueUnacked(s)
  /\ pc'   = [t \in Tasks |-> IF t[1] = s /\ pc[t] = "escaped" THEN "idle" ELSE pc[t]]
  /\ msg'  = [t \in Tasks |-> IF t[1] = s /\ pc[t] = "escaped" THEN NoMsg ELSE msg[t]]
  /\ live' = [t \in Tasks |-> live[t] /\ t[1] # s]
  /\ UNCHANGED <<deaths, dlq, started, handled>>

(* The process of s dies and is started again. *)
Crash(s) ==
  /\ \E t \in TasksOf(s) : pc[t] # "idle"
  /\ RequeueUnacked(s)
  /\ pc'   = [t \in Tasks |-> IF t[1] = s THEN "idle" ELSE pc[t]]
  /\ msg'  = [t \in Tasks |-> IF t[1] = s THEN NoMsg ELSE msg[t]]
  /\ live' = [t \in Tasks |-> live[t] /\ t[1] # s]
  /\ UNCHANGED <<deaths, dlq, started, handled>>

----------------------------------------------------------------------------
Init ==
  /\ place     = [m \in Msgs |-> "new"]
  /\ deaths    = [m \in Msgs |-> 0]
  /\ dlq       = [m \in Msgs |-> 0]
  /\ pc        = [t \in Tasks |-> "idle"]
  /\ msg       = [t \in Tasks |-> NoMsg]
  /\ live      = [t \in Tasks |-> FALSE]
  /\ started   = [m \in Msgs |-> 0]
  /\ handled   = [m \in Msgs |-> 0]
  /\ faults    = [m \in Msgs |-> 0]
  /\ incidents = 0

TaskStep(t) ==
  \/ HandlerDone(t)
  \/ HandlerFails(t)
  \/ HandlerRejects(t)
  \/ MoveToDlq(t)
  \/ MoveToDlqFails(t)
  \/ Ack(t)
  \/ Nack(t)

Next ==
  \/ \E m \in Msgs : Publish(m)
  \/ \E t \in Tasks, m \in Msgs : Deliver(t, m)
  \/ \E t \in Tasks : TaskStep(t)
  \/ \E m \in Msgs : RetryExpires(m)
  \/ \E s \in Services : ConnectionLost(s)
  \/ \E s \in Services : Crash(s)

Spec == Init /\ [][Next]_vars

(* The event loop resumes every coroutine whose await completes, the       *)
(* broker delivers to a consumer with room and expires the retry queue;    *)
(* publishing to the DLQ works again after finitely many failures.         *)
Fairness ==
  /\ \A t \in Tasks : WF_vars(TaskStep(t))
  /\ \A m \in Msgs : WF_vars(RetryExpires(m))
  /\ \A m \in Msgs : SF_vars(\E t \in Tasks : Deliver(t, m))

FairSpec == Spec /\ Fairness

----------------------------------------------------------------------------
(* Properties *)

(* Every variable has its type; a task that is not idle holds a message,   *)
(* and only such a task can stand for an unacknowledged delivery.          *)
TypeOK ==
  /\ place \in [Msgs -> Places]
  /\ deaths \in [Msgs -> 0..MaxRetries]
  /\ dlq \in [Msgs -> Nat]
  /\ pc \in [Tasks -> Steps]
  /\ msg \in [Tasks -> Msgs \cup {NoMsg}]
  /\ live \in [Tasks -> BOOLEAN]
  /\ started \in [Msgs -> Nat]
  /\ handled \in [Msgs -> Nat]
  /\ faults \in [Msgs -> Nat]
  /\ incidents \in 0..MaxIncidents
  /\ \A t \in Tasks : pc[t] = "idle" <=> msg[t] = NoMsg
  /\ \A t \in Tasks : live[t] => pc[t] # "idle"

(* A message leaves the queue group only after process_message returned    *)
(* for it or a copy of it is in the dead-letter queue, whatever crashes,   *)
(* lost connections and failed publishes happen on the way.                *)
NoLoss ==
  \A m \in Msgs : place[m] = "gone" => handled[m] + dlq[m] >= 1

(* A message is handled or dead-lettered at most once more than incidents  *)
(* hit its deliveries: without an incident it is settled exactly once, so  *)
(* retries alone never repeat a completed request.                         *)
NoRepeatWithoutFault ==
  \A m \in Msgs : handled[m] + dlq[m] <= 1 + faults[m]

(* RPC_MAX_RETRIES bounds the runs of a message's handler: only an         *)
(* incident buys another run beyond it.                                    *)
RetryBudget ==
  \A m \in Msgs : started[m] <= MaxRetries + faults[m]

(* A copy in the dead-letter queue means that the retries are used up or   *)
(* the message failed validation: a request that can still be retried is   *)
(* not reported as dead.                                                   *)
DlqOnlyWhenDue ==
  \A m \in Msgs : dlq[m] > 0 => deaths[m] = MaxRetries \/ m \in Invalid

(* _move_to_dlq raised in the ValidationError branch and its exception left *)
(* the coroutine: m stays unacknowledged for as long as the channel lives.  *)
HeldForGood(m) ==
  /\ m \in Invalid
  /\ \E t \in Tasks : pc[t] = "escaped" /\ msg[t] = m /\ live[t]

(* Every published message whose body is JSON is settled in the end: it    *)
(* neither waits nor circles through the retry queue forever.  The one way *)
(* to remain is that of base_listener.py, line 140: a message that failed  *)
(* validation and whose copy could not be published is held by its         *)
(* consumer.  Whenever that consumer's channel goes, it is under way again.*)
EverySubmittedSettles ==
  \A m \in Msgs \ Malformed :
    place[m] # "new" ~> place[m] = "gone" \/ HeldForGood(m)

(* docs/MESSAGING.md, section 2, item 4: a message that used up its        *)
(* retries is sent to the dead-letter queue.                               *)
ExhaustedReachesDlq ==
  \A m \in Msgs : deaths[m] = MaxRetries ~> dlq[m] > 0

(* The queue group implements at-least-once delivery: every step of broker *)
(* and listeners is a step of AtLeastOnce or leaves its variables alone.   *)
Promise == INSTANCE AtLeastOnce WITH
  submitted <- {m \in Msgs : place[m] # "new"},
  pending   <- {m \in Msgs : place[m] \notin {"new", "gone"}},
  handled   <- {m \in Msgs : handled[m] > 0},
  dead      <- {m \in Msgs : dlq[m] > 0}

ImplementsAtLeastOnce == Promise!Spec
=============================================================================
