---------------------------- MODULE SessionTable ----------------------------
(***************************************************************************)
(* What the table of refresh tokens promises, with no word about           *)
(* statements, row locks or replies: every change of a session is one step *)
(* of this table.  A token is exchanged only by a call that was admitted   *)
(* while the token was live, and otherwise revoked only by a logout; calls *)
(* admitted together may each exchange it, nobody is admitted afterwards.  *)
(***************************************************************************)
CONSTANTS
  Tokens,
  Runs,        \* calls under way
  NoToken

VARIABLES
  known,       \* tokens that were ever stored
  live,        \* of these, those that are not revoked
  expired,     \* tokens whose time is up
  held,        \* tokens a client has received
  exchanging,  \* [Runs -> Tokens or NoToken]: what a refresh may exchange
  leaving      \* [Runs -> Tokens or NoToken]: what a logout is about to end

rowVars     == <<known, live, expired, held>>
callVars    == <<exchanging, leaving>>
sessionVars == <<rowVars, callVars>>

(* There may be sessions from before. *)
Init ==
  /\ known \subseteq Tokens
  /\ live = known
  /\ held = known
  /\ expired = {}
  /\ exchanging = [r \in Runs |-> NoToken]
  /\ leaving = [r \in Runs |-> NoToken]

Free(r) == exchanging[r] = NoToken /\ leaving[r] = NoToken

Admit(r, t) ==
  /\ Free(r)
  /\ t \in held \cap (live \ expired)
  /\ exchanging' = [exchanging EXCEPT ![r] = t]
  /\ UNCHANGED <<rowVars, leaving>>

(* A logout with a token that is revoked already is served, too.           *)
Depart(r, t) ==
  /\ Free(r)
  /\ t \in held \ expired
  /\ leaving' = [leaving EXCEPT ![r] = t]
  /\ UNCHANGED <<rowVars, exchanging>>

Dismiss(r) ==
  /\ exchanging' = [exchanging EXCEPT ![r] = NoToken]
  /\ leaving' = [leaving EXCEPT ![r] = NoToken]
  /\ UNCHANGED rowVars

(* A login stores a new token. *)
Issue(c) ==
  /\ c \notin known
  /\ known' = known \cup {c}
  /\ live' = live \cup {c}
  /\ UNCHANGED <<expired, held, callVars>>

(* The token of an admitted refresh is revoked and c takes its place. *)
Exchange(r, c) ==
  /\ exchanging[r] # NoToken
  /\ c \notin known
  /\ known' = known \cup {c}
  /\ live' = (live \ {exchanging[r]}) \cup {c}
  /\ exchanging' = [exchanging EXCEPT ![r] = NoToken]
  /\ UNCHANGED <<expired, held, leaving>>

(* A logout ends its session. *)
Revoke(r) ==
  /\ leaving[r] # NoToken
  /\ live' = live \ {leaving[r]}
  /\ leaving' = [leaving EXCEPT ![r] = NoToken]
  /\ UNCHANGED <<known, expired, held, exchanging>>

Hand(c) ==
  /\ c \in known
  /\ held' = held \cup {c}
  /\ UNCHANGED <<known, live, expired, callVars>>

Expire(t) ==
  /\ t \in known
  /\ expired' = expired \cup {t}
  /\ UNCHANGED <<known, live, held, callVars>>

Next ==
  \/ \E r \in Runs, t \in Tokens : Admit(r, t) \/ Depart(r, t) \/ Exchange(r, t)
  \/ \E r \in Runs : Dismiss(r) \/ Revoke(r)
  \/ \E t \in Tokens : Issue(t) \/ Hand(t) \/ Expire(t)

Spec == Init /\ [][Next]_sessionVars
=============================================================================
