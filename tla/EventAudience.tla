--------------------------- MODULE EventAudience ---------------------------
(***************************************************************************)
(* What a gateway promises the clients of its event broadcast, with no     *)
(* word about sockets, endpoints, the idle checker or the table they       *)
(* share.  Each client is admitted or refused, once and for all; a member  *)
(* that is gone does not come back.  An event is for those who are members *)
(* when it is announced: nobody else hears it, and when the broadcast is   *)
(* over every member of its audience that can hear has heard it.           *)
(***************************************************************************)
CONSTANTS Clients, Events

VARIABLES
  decided,   \* clients that were admitted or refused
  members,   \* clients that are admitted and not gone
  here,      \* clients whose end of the connection still answers
  stage,     \* [Events -> {"queued", "sending", "done"}]
  audience,  \* [Events -> SUBSET Clients]: those an event was announced to
  heard      \* [Clients -> SUBSET Events]

doorVars     == <<decided, members, here>>
eventVars    == <<stage, audience, heard>>
audienceVars == <<doorVars, eventVars>>

Init ==
  /\ decided  = {}
  /\ members  = {}
  /\ here     = Clients
  /\ stage    = [e \in Events |-> "queued"]
  /\ audience = [e \in Events |-> {}]
  /\ heard    = [s \in Clients |-> {}]

Admit(s) ==
  /\ s \notin decided
  /\ decided' = decided \cup {s}
  /\ members' = members \cup {s}
  /\ UNCHANGED <<here, eventVars>>

Refuse(s) ==
  /\ s \notin decided
  /\ decided' = decided \cup {s}
  /\ UNCHANGED <<members, here, eventVars>>

(* A member leaves, is thrown out, or is found to have left. *)
Leave(s) ==
  /\ members' = members \ {s}
  /\ UNCHANGED <<decided, here, eventVars>>

Vanish(s) ==
  /\ here' = here \ {s}
  /\ UNCHANGED <<decided, members, eventVars>>

(* Clients who are just leaving may still be counted among the audience. *)
Announce(e, a) ==
  /\ stage[e] = "queued"
  /\ members \subseteq a
  /\ a \subseteq decided
  /\ stage' = [stage EXCEPT ![e] = "sending"]
  /\ audience' = [audience EXCEPT ![e] = a]
  /\ UNCHANGED <<doorVars, heard>>

Hear(e, s) ==
  /\ stage[e] = "sending"
  /\ s \in audience[e] \cap members \cap here
  /\ heard' = [heard EXCEPT ![s] = @ \cup {e}]
  /\ UNCHANGED <<doorVars, stage, audience>>

Finish(e) ==
  /\ stage[e] = "sending"
  /\ \A s \in audience[e] \cap members \cap here : e \in heard[s]
  /\ stage' = [stage EXCEPT ![e] = "done"]
  /\ UNCHANGED <<doorVars, audience, heard>>

Next ==
  \/ \E s \in Clients : Admit(s) \/ Refuse(s) \/ Leave(s) \/ Vanish(s)
  \/ \E e \in Events : Finish(e)
  \/ \E e \in Events, a \in SUBSET Clients : Announce(e, a)
  \/ \E e \in Events, s \in Clients : Hear(e, s)

Spec == Init /\ [][Next]_audienceVars
=============================================================================
