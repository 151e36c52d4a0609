---------------------------- MODULE AtLeastOnce ----------------------------
(***************************************************************************)
(* What an RPC queue group with retries promises its publishers, with no   *)
(* word about deliveries, retries or acknowledgements: a submitted message *)
(* stays pending until it has been handled or dead-lettered, it may be     *)
(* handled again before and after that, and it never becomes pending anew. *)
(***************************************************************************)

CONSTANT Msgs

VARIABLES
  submitted,   \* messages clients have published
  pending,     \* messages the queues still hold
  handled,     \* messages whose handler returned at least once
  dead         \* messages with a copy in the dead-letter queue

promiseVars == <<submitted, pending, handled, dead>>

Init ==
  /\ submitted = {}
  /\ pending = {}
  /\ handled = {}
  /\ dead = {}

Submit(m) ==
  /\ m \notin submitted
  /\ submitted' = submitted \cup {m}
  /\ pending' = pending \cup {m}
  /\ UNCHANGED <<handled, dead>>

Handle(m) ==
  /\ m \in submitted
  /\ handled' = handled \cup {m}
  /\ UNCHANGED <<submitted, pending, dead>>

DeadLetter(m) ==
  /\ m \in submitted
  /\ dead' = dead \cup {m}
  /\ UNCHANGED <<submitted, pending, handled>>

Settle(m) ==
  /\ m \in pending
  /\ m \in handled \cup dead
  /\ pending' = pending \ {m}
  /\ UNCHANGED <<submitted, handled, dead>>

Next == \E m \in Msgs : Submit(m) \/ Handle(m) \/ DeadLetter(m) \/ Settle(m)

Spec == Init /\ [][Next]_promiseVars
=============================================================================
