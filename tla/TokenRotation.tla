--------------------------- MODULE TokenRotation ---------------------------
(***************************************************************************)
(* The refresh tokens of one account: AuthService.issue_token (from the    *)
(* point where the password was right), refresh_token and logout, their    *)
(* statements on the table auth.refresh_tokens, and the tokens a client    *)
(* gets to hold.                                                           *)
(*                                                                         *)
(* A run is one call of a service method; the refresh and logout listeners *)
(* keep the default prefetch, so runs of one process overlap, too.  Each   *)
(* run has a session of its own: one READ COMMITTED transaction, of which  *)
(* others see nothing before its COMMIT.  Refresh reads the token without  *)
(* FOR UPDATE; the UPDATE that revokes it locks the row until COMMIT and   *)
(* names the row by its primary key only.                                  *)
(***************************************************************************)
EXTENDS Naturals, FiniteSets

CONSTANTS
  Tokens,         \* refresh tokens, by jti
  Runs,           \* calls of the service that may be under way together
  NoToken,
  AccountLoads,   \* BOOLEAN: old_token.account can be read in the session
  MaxFaults       \* bound: runs cut short and replies nobody waits for

(* AccountLoads is FALSE in the repository: nothing loads the relationship *)
(* RefreshToken.account before line 189 of auth_service.py reads it, and a *)
(* lazy load raises MissingGreenlet in an AsyncSession.  TRUE stands for   *)
(* the same code with the relationship loaded.                             *)
ASSUME RotationAssumption ==
  /\ NoToken \notin Tokens
  /\ IsFiniteSet(Tokens)
  /\ IsFiniteSet(Runs)
  /\ AccountLoads \in BOOLEAN
  /\ MaxFaults \in Nat

VARIABLES
  row,       \* [Tokens -> {"absent", "live", "revoked"}]: committed rows
  expired,   \* tokens whose expires_at has passed
  pc,        \* [Runs -> Steps]: the statement or reply a run has to send next
  op,        \* [Runs -> Operations]: the method the run executes
  old,       \* [Runs -> Tokens or NoToken]: the token of its request
  new,       \* [Runs -> Tokens or NoToken]: the token it creates
  held,      \* tokens that reached the client in a reply
  parent,    \* history, [Tokens -> Tokens or NoToken]: exchanged for this token
  logouts,   \* history, [Tokens -> Nat]: committed logouts with this token
  faults     \* faults so far, at most MaxFaults

table   == <<row, expired>>
run     == <<pc, op, old, new>>
history == <<parent, logouts>>
vars    == <<table, run, held, history, faults>>

Operations == {"login", "refresh", "logout"}
Steps      == {"idle", "select", "flush", "commit", "reply"}

(* The call ends with a reply or an exception; its session is closed. *)
Finish(r) ==
  /\ pc'  = [pc EXCEPT ![r] = "idle"]
  /\ op'  = [op EXCEPT ![r] = "login"]
  /\ old' = [old EXCEPT ![r] = NoToken]
  /\ new' = [new EXCEPT ![r] = NoToken]

Goto(r, step) ==
  /\ pc' = [pc EXCEPT ![r] = step]
  /\ UNCHANGED <<op, old, new>>

Start(r, step, o, t, c) ==
  /\ pc[r] = "idle"
  /\ pc'  = [pc EXCEPT ![r] = step]
  /\ op'  = [op EXCEPT ![r] = o]
  /\ old' = [old EXCEPT ![r] = t]
  /\ new' = [new EXCEPT ![r] = c]
  /\ UNCHANGED <<table, held, history, faults>>

(* uuid4 never repeats: a token nobody created or is about to create. *)
Fresh(c) == row[c] = "absent" /\ \A r \in Runs : new[r] # c

Children(t) == {c \in Tokens : parent[c] = t}

----------------------------------------------------------------------------
(* Requests, and messages that are delivered again: a client refreshes or  *)
(* logs out with any token it ever received.                               *)
Login(r, c) == Fresh(c) /\ Start(r, "flush", "login", NoToken, c)

Refresh(r, t, c) == t \in held /\ Fresh(c) /\ Start(r, "select", "refresh", t, c)

Logout(r, t) == t \in held /\ Start(r, "select", "logout", t, NoToken)

(* Variant: the query does not ask for revoked_at IS NULL. *)
ActiveOrRevoked(t) == row[t] # "absent" /\ t \notin expired

(* get_refresh_token_by_jti; decode_token refuses an expired token as well. *)
Active(t) == row[t] = "live" /\ t \notin expired

(* SELECT: no active token ends in AUTH_REFRESH_INVALID, and for logout in *)
(* success.  With a token, both set revoked_at in memory; refresh goes on  *)
(* to read its account.                                                    *)
Select(r) ==
  /\ pc[r] = "select"
  /\ \/ /\ ~Active(old[r])
        /\ Goto(r, "reply")
     \/ /\ Active(old[r])
        /\ op[r] = "logout" \/ AccountLoads
        /\ Goto(r, "flush")
     \/ /\ Active(old[r])
        /\ op[r] = "refresh" /\ ~AccountLoads
        /\ Finish(r)
  /\ UNCHANGED <<table, held, history, faults>>

(* Variant: SELECT takes a share lock that the UPDATE of another run must *)
(* wait for.                                                              *)
LockedByReaders(t) ==
  Cardinality({r \in Runs : pc[r] \in {"flush", "commit"} /\ old[r] = t}) > 1

(* Another transaction has updated the row of t and not yet committed. *)
Locked(t) == \E r \in Runs : pc[r] = "commit" /\ old[r] = t

(* Variant: the revocation is committed before the new token is inserted. *)
RevokeFirst(r) ==
  /\ pc[r] = "flush"
  /\ old[r] # NoToken => ~Locked(old[r])
  /\ row' = [t \in Tokens |-> IF t = old[r] THEN "revoked" ELSE row[t]]
  /\ Goto(r, "commit")
  /\ UNCHANGED <<expired, held, history, faults>>

(* flush: UPDATE of the old token, which waits for its row lock, and       *)
(* INSERT of the new one.                                                  *)
Flush(r) ==
  /\ pc[r] = "flush"
  /\ old[r] # NoToken => ~Locked(old[r])
  /\ Goto(r, "commit")
  /\ UNCHANGED <<table, held, history, faults>>

(* Variant: the old token is not revoked. *)
OldStaysActive(r) == [row EXCEPT ![new[r]] = "live"]

(* The rows once the transaction of r is committed. *)
Written(r) ==
  [t \in Tokens |-> IF t = old[r] THEN "revoked" ELSE IF t = new[r] THEN "live" ELSE row[t]]

Commit(r) ==
  /\ pc[r] = "commit"
  /\ row' = Written(r)
  /\ parent' = IF op[r] = "refresh" THEN [parent EXCEPT ![new[r]] = old[r]] ELSE parent
  /\ logouts' = IF op[r] = "logout" THEN [logouts EXCEPT ![old[r]] = @ + 1] ELSE logouts
  /\ Goto(r, "reply")
  /\ UNCHANGED <<expired, held, faults>>

(* The tokens of a reply: those of a committed pair. *)
Granted(r) == {c \in Tokens : c = new[r] /\ row[c] # "absent"}

(* Variant: the reply goes out before the transaction is committed. *)
ReplyBeforeCommit(r) ==
  /\ pc[r] \in {"commit", "reply"}
  /\ held' = held \cup {c \in Tokens : c = new[r]}
  /\ Finish(r)
  /\ UNCHANGED <<table, history, faults>>

(* publish_rpc_response reaches a caller that still waits. *)
Reply(r) ==
  /\ pc[r] = "reply"
  /\ held' = held \cup Granted(r)
  /\ Finish(r)
  /\ UNCHANGED <<table, history, faults>>

(* A crash or an error before the pending statement takes effect, which    *)
(* rolls the transaction back, or a reply that is lost or comes too late.  *)
Interrupt(r) ==
  /\ pc[r] # "idle"
  /\ faults < MaxFaults
  /\ faults' = faults + 1
  /\ Finish(r)
  /\ UNCHANGED <<table, held, history>>

Expire(t) ==
  /\ row[t] # "absent"
  /\ t \notin expired
  /\ expired' = expired \cup {t}
  /\ UNCHANGED <<row, run, held, history, faults>>

----------------------------------------------------------------------------
Init ==
  /\ row     = [t \in Tokens |-> "absent"]
  /\ expired = {}
  /\ pc      = [r \in Runs |-> "idle"]
  /\ op      = [r \in Runs |-> "login"]
  /\ old     = [r \in Runs |-> NoToken]
  /\ new     = [r \in Runs |-> NoToken]
  /\ held    = {}
  /\ parent  = [t \in Tokens |-> NoToken]
  /\ logouts = [t \in Tokens |-> 0]
  /\ faults  = 0

RunStep(r) == Select(r) \/ Flush(r) \/ Commit(r) \/ Reply(r)

Next ==
  \/ \E r \in Runs, c \in Tokens : Login(r, c)
  \/ \E r \in Runs, t \in Tokens, c \in Tokens : Refresh(r, t, c)
  \/ \E r \in Runs, t \in Tokens : Logout(r, t)
  \/ \E r \in Runs : RunStep(r)
  \/ \E r \in Runs : Interrupt(r)
  \/ \E t \in Tokens : Expire(t)

Spec == Init /\ [][Next]_vars

(* Every statement is answered and every row lock is given up in the end.  *)
FairSpec == Spec /\ \A r \in Runs : WF_vars(RunStep(r))

----------------------------------------------------------------------------
(* Properties *)

(* Every variable has its type; a run has the tokens its method needs. *)
TypeOK ==
  /\ row \in [Tokens -> {"absent", "live", "revoked"}]
  /\ expired \subseteq Tokens
  /\ pc \in [Runs -> Steps]
  /\ op \in [Runs -> Operations]
  /\ old \in [Runs -> Tokens \cup {NoToken}]
  /\ new \in [Runs -> Tokens \cup {NoToken}]
  /\ held \subseteq Tokens
  /\ parent \in [Tokens -> Tokens \cup {NoToken}]
  /\ logouts \in [Tokens -> Nat]
  /\ faults \in 0..MaxFaults
  /\ \A r \in Runs :
       /\ op[r] = "refresh" => old[r] \in Tokens /\ new[r] \in Tokens
       /\ op[r] = "logout" => old[r] \in Tokens /\ new[r] = NoToken
       /\ op[r] = "login" => old[r] = NoToken
       /\ op[r] = "login" /\ pc[r] # "idle" => new[r] \in Tokens
       /\ pc[r] = "idle" => op[r] = "login" /\ new[r] = NoToken
       /\ pc[r] = "select" => op[r] # "login"

(* Nothing locks the token between SELECT and COMMIT, so requests that     *)
(* overlap may each exchange it or log out with it; but once the first of  *)
(* them has committed no other request can start to: the uses of a token   *)
(* never outnumber the calls that can overlap.                             *)
UsesBounded ==
  \A t \in Tokens : Cardinality(Children(t)) + logouts[t] <= Cardinality(Runs)

(* An exchange is atomic: a token that has a successor is revoked, whatever *)
(* crashes or overlapping requests come between its statements.             *)
ExchangeRevokes ==
  \A t \in Tokens : Children(t) # {} => row[t] = "revoked"

(* Without a fault no exchange costs the client its session: a token that  *)
(* was revoked by an exchange has a successor that the client holds or is  *)
(* about to receive.                                                       *)
SessionKept ==
  \A t \in Tokens :
    row[t] = "revoked" /\ logouts[t] = 0 /\ faults = 0 =>
      \E c \in Children(t) :
        c \in held \/ \E r \in Runs : pc[r] = "reply" /\ new[r] = c

(* A client never holds a refresh token the database does not know: tokens *)
(* leave the service only after the transaction that stores them.          *)
HeldTokensExist ==
  \A t \in held : row[t] # "absent"

(* The token of a call that has looked it up and not yet committed. *)
Chosen(r, o) == IF pc[r] \in {"flush", "commit"} /\ op[r] = o THEN old[r] ELSE NoToken

Sessions ==
  INSTANCE SessionTable WITH
    known      <- {t \in Tokens : row[t] # "absent"},
    live       <- {t \in Tokens : row[t] = "live"},
    exchanging <- [r \in Runs |-> Chosen(r, "refresh")],
    leaving    <- [r \in Runs |-> Chosen(r, "logout")]

(* SELECT, UPDATE, INSERT and COMMIT of overlapping calls amount to two    *)
(* steps, the look-up and the exchange or logout: a refresh revokes no     *)
(* token without storing its successor, nothing that was revoked comes     *)
(* back to life, and a token is exchanged only by calls that found it live. *)
ImplementsSessionTable == Sessions!Spec

(* Requests for one token wait for each other's row lock, but never forever. *)
RunsEnd ==
  \A r \in Runs : pc[r] # "idle" ~> pc[r] = "idle"
=============================================================================
