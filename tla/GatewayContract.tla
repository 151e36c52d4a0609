-------------------------- MODULE GatewayContract --------------------------
(***************************************************************************)
(* What the authentication routes of the gateway promise a client, with no *)
(* word about messages, replies, handler runs or timeouts.                 *)
(*                                                                         *)
(* A request takes effect or does not, now or later, and its client hears  *)
(* at most one thing: that it was done, that it was refused, or nothing it *)
(* can rely on.  "Done" is true when it is said; "refused" is true and     *)
(* stays true, unless the request's message was delivered again.           *)
(***************************************************************************)
CONSTANTS
  Requests,
  Earlier,     \* what happened before the first request
  Nobody

VARIABLES
  route,       \* [Requests -> Routes \cup {"none"}]
  subject,     \* [Requests -> who issued the session it is about, or Nobody]
  owner,       \* who registered the account: a request, Earlier or Nobody
  effective,   \* requests that have taken effect
  repeated,    \* requests whose message was delivered again
  told         \* [Requests -> {"nothing", "done", "refused", "unknown"}]

contractVars == <<route, subject, owner, effective, repeated, told>>

Routes == {"login", "register", "validate", "refresh", "logout"}

Init ==
  /\ route     = [q \in Requests |-> "none"]
  /\ subject   = [q \in Requests |-> Nobody]
  /\ owner \in {Nobody, Earlier}
  /\ effective = {}
  /\ repeated  = {}
  /\ told      = [q \in Requests |-> "nothing"]

(* Requests that issue a session when they take effect. *)
Issuers == {p \in effective : route[p] \in {"login", "refresh"}} \cup {Earlier}

(* A request about a session needs one that was issued.  Where no service  *)
(* can be asked the client hears so at once.                               *)
Ask(q, r, s, t) ==
  /\ route[q] = "none"
  /\ IF r \in {"login", "register"} THEN s = Nobody ELSE s \in Issuers
  /\ route'   = [route EXCEPT ![q] = r]
  /\ subject' = [subject EXCEPT ![q] = s]
  /\ told'    = [told EXCEPT ![q] = t]
  /\ UNCHANGED <<owner, effective, repeated>>

(* One account, registered once; nobody logs in before.  A refusal binds. *)
TakeEffect(q) ==
  /\ route[q] # "none"
  /\ told[q] = "refused" => q \in repeated
  /\ CASE route[q] = "register" -> owner = Nobody /\ owner' = q
       [] route[q] = "login"    -> owner # Nobody /\ UNCHANGED owner
       [] OTHER                 -> UNCHANGED owner
  /\ effective' = effective \cup {q}
  /\ UNCHANGED <<route, subject, repeated, told>>

Repeat(q) ==
  /\ route[q] # "none"
  /\ repeated' = repeated \cup {q}
  /\ UNCHANGED <<route, subject, owner, effective, told>>

Tell(q, t) ==
  /\ route[q] # "none"
  /\ told[q] = "nothing"
  /\ t = "done" => q \in effective
  /\ t = "refused" => q \notin effective \/ q \in repeated
  /\ told' = [told EXCEPT ![q] = t]
  /\ UNCHANGED <<route, subject, owner, effective, repeated>>

Next ==
  \E q \in Requests :
    \/ \E r \in Routes, s \in Requests \cup {Earlier, Nobody}, t \in {"nothing", "unknown"} :
         Ask(q, r, s, t)
    \/ TakeEffect(q)
    \/ Repeat(q)
    \/ \E t \in {"done", "refused", "unknown"} : Tell(q, t)

Spec == Init /\ [][Next]_contractVars
=============================================================================
