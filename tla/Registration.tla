---------------------------- MODULE Registration ----------------------------
(***************************************************************************)
(* Registration of accounts: AuthService.register                          *)
(* (apps/auth_svc/services/auth_service.py) behind AuthRegisterRpc, its    *)
(* statements on the table auth.accounts, and what the client is told.     *)
(*                                                                         *)
(* A run is one _on_message of the register listener.  The prefetch is 1,  *)
(* so the runs that overlap belong to different auth_svc processes, or one *)
(* of them to a channel that was lost meanwhile.  Each run has a session:  *)
(* one READ COMMITTED transaction whose INSERT waits for an uncommitted    *)
(* row with the same user name or e-mail and fails on a committed one.     *)
(* A request that does not validate changes nothing and is left out.       *)
(***************************************************************************)
EXTENDS Naturals, FiniteSets

CONSTANTS
  Requests,     \* RPC messages; a client that tries again sends a new one
  Runs,
  Names,
  Mails,        \* e-mail addresses, without regard to case as CITEXT
  NoRequest,
  NoName,
  NoMail,
  MaxFaults     \* bound: database errors, lost channels and crashes

ASSUME RegistrationAssumption ==
  /\ NoRequest \notin Requests
  /\ NoName \notin Names
  /\ NoMail \notin Mails
  /\ MaxFaults \in Nat

VARIABLES
  name,      \* [Requests -> Names or NoName]: user name a request asks for
  mail,      \* [Requests -> Mails or NoMail]: its e-mail address
  place,     \* [Requests -> Places]: where the broker keeps the message
  pc,        \* [Runs -> Steps]: the statement, reply or ack a run sends next
  req,       \* [Runs -> Requests or NoRequest]: the request it serves
  verdict,   \* [Runs -> Answers]: the answer it is about to send
  stale,     \* [Runs -> BOOLEAN]: the channel of its delivery is gone
  accounts,  \* committed rows, each named by the request that created it
  told,      \* [Requests -> Answers]: what the client was told first
  faults     \* faults so far, at most MaxFaults

request == <<name, mail, place>>
run     == <<pc, req, verdict, stale>>
vars    == <<request, run, accounts, told, faults>>

Places  == {"new", "queued", "unacked", "gone"}
Steps   == {"idle", "by_name", "by_mail", "insert", "commit", "reply", "ack"}
Answers == {"none", "ok", "exists", "error", "timeout"}

SameName(p, q) == name[p] = name[q]

SameMail(p, q) == mail[p] = mail[q]

Clash(p, q) == SameName(p, q) \/ SameMail(p, q)

(* The run ends; its session is closed and what it wrote is rolled back    *)
(* unless it was committed.                                                *)
Finish(r) ==
  /\ pc'      = [pc EXCEPT ![r] = "idle"]
  /\ req'     = [req EXCEPT ![r] = NoRequest]
  /\ verdict' = [verdict EXCEPT ![r] = "none"]
  /\ stale'   = [stale EXCEPT ![r] = FALSE]

Goto(r, step) ==
  /\ pc' = [pc EXCEPT ![r] = step]
  /\ UNCHANGED <<req, verdict, stale>>

Answer(r, a) ==
  /\ pc' = [pc EXCEPT ![r] = "reply"]
  /\ verdict' = [verdict EXCEPT ![r] = a]
  /\ UNCHANGED <<req, stale>>

----------------------------------------------------------------------------
Submit(q, n, e) ==
  /\ place[q] = "new"
  /\ name' = [name EXCEPT ![q] = n]
  /\ mail' = [mail EXCEPT ![q] = e]
  /\ place' = [place EXCEPT ![q] = "queued"]
  /\ UNCHANGED <<run, accounts, told, faults>>

(* RPC_TIMEOUT_MS is over: the client is told 504, the message stays. *)
GiveUp(q) ==
  /\ place[q] # "new"
  /\ told[q] = "none"
  /\ told' = [told EXCEPT ![q] = "timeout"]
  /\ UNCHANGED <<request, run, accounts, faults>>

Deliver(r, q) ==
  /\ pc[r] = "idle"
  /\ place[q] = "queued"
  /\ place' = [place EXCEPT ![q] = "unacked"]
  /\ pc'  = [pc EXCEPT ![r] = "by_name"]
  /\ req' = [req EXCEPT ![r] = q]
  /\ UNCHANGED <<name, mail, verdict, stale, accounts, told, faults>>

(* get_by_username *)
ByName(r) ==
  /\ pc[r] = "by_name"
  /\ IF \E p \in accounts : SameName(p, req[r])
       THEN Answer(r, "exists")
       ELSE Goto(r, "by_mail")
  /\ UNCHANGED <<request, accounts, told, faults>>

(* get_by_email, and the password is hashed. *)
ByMail(r) ==
  /\ pc[r] = "by_mail"
  /\ IF \E p \in accounts : SameMail(p, req[r])
       THEN Answer(r, "exists")
       ELSE Goto(r, "insert")
  /\ UNCHANGED <<request, accounts, told, faults>>

(* Another transaction has inserted a row that would clash. *)
Blocked(r) == \E o \in Runs \ {r} : pc[o] = "commit" /\ Clash(req[o], req[r])

(* Variant: only the user name is a unique column. *)
TakenByName(q) == \E p \in accounts : SameName(p, q)

(* The unique columns username and email. *)
Taken(q) == \E p \in accounts : Clash(p, q)

(* The flush of session.commit: INSERT.  A violated constraint raises      *)
(* IntegrityError; its orig is SQLAlchemy's own class, never the           *)
(* UniqueViolationError of asyncpg that line 83 asks for, so the answer is *)
(* INTERNAL_ERROR.                                                         *)
Insert(r) ==
  /\ pc[r] = "insert"
  /\ ~Blocked(r)
  /\ IF Taken(req[r]) THEN Answer(r, "error") ELSE Goto(r, "commit")
  /\ UNCHANGED <<request, accounts, told, faults>>

(* Variant: session.commit is missing: the answer is given, nothing stored. *)
CommitForgotten(r) ==
  /\ pc[r] = "commit"
  /\ Answer(r, "ok")
  /\ UNCHANGED <<request, accounts, told, faults>>

(* Variant: objects expire on commit, so that reading new_account.id raises. *)
CommitExpires(r) ==
  /\ pc[r] = "commit"
  /\ accounts' = accounts \cup {req[r]}
  /\ Answer(r, "error")
  /\ UNCHANGED <<request, told, faults>>

(* session.commit; the account is answered. *)
Commit(r) ==
  /\ pc[r] = "commit"
  /\ accounts' = accounts \cup {req[r]}
  /\ Answer(r, "ok")
  /\ UNCHANGED <<request, told, faults>>

(* A statement raises: rollback and INTERNAL_ERROR.  When it was COMMIT,   *)
(* the database may have executed it.                                      *)
DatabaseError(r) ==
  /\ pc[r] \in {"by_name", "by_mail", "insert", "commit"}
  /\ faults < MaxFaults
  /\ faults' = faults + 1
  /\ \/ UNCHANGED accounts
     \/ pc[r] = "commit" /\ accounts' = accounts \cup {req[r]}
  /\ Answer(r, "error")
  /\ UNCHANGED <<request, told>>

(* publish_rpc_response; the client takes the first reply it waits for. *)
Reply(r) ==
  /\ pc[r] = "reply"
  /\ told' = [told EXCEPT ![req[r]] = IF @ = "none" THEN verdict[r] ELSE @]
  /\ Goto(r, "ack")
  /\ UNCHANGED <<request, accounts, faults>>

(* Variant: the message is nacked and comes back. *)
NackInstead(r) ==
  /\ pc[r] = "ack"
  /\ place' = IF stale[r] THEN place ELSE [place EXCEPT ![req[r]] = "queued"]
  /\ Finish(r)
  /\ UNCHANGED <<name, mail, accounts, told, faults>>

(* On a channel that is gone the ack fails and the broker hears nothing. *)
Ack(r) ==
  /\ pc[r] = "ack"
  /\ place' = IF stale[r] THEN place ELSE [place EXCEPT ![req[r]] = "gone"]
  /\ Finish(r)
  /\ UNCHANGED <<name, mail, accounts, told, faults>>

(* The broker takes the delivery of r back; the run goes on. *)
LoseChannel(r) ==
  /\ pc[r] # "idle"
  /\ ~stale[r]
  /\ faults < MaxFaults
  /\ faults' = faults + 1
  /\ stale' = [stale EXCEPT ![r] = TRUE]
  /\ place' = [place EXCEPT ![req[r]] = "queued"]
  /\ UNCHANGED <<name, mail, pc, req, verdict, accounts, told>>

(* The process of r dies, or the reply cannot be published: the message    *)
(* will be delivered again.                                                *)
Interrupt(r) ==
  /\ pc[r] # "idle"
  /\ faults < MaxFaults
  /\ faults' = faults + 1
  /\ place' = IF stale[r] THEN place ELSE [place EXCEPT ![req[r]] = "queued"]
  /\ Finish(r)
  /\ UNCHANGED <<name, mail, accounts, told>>

----------------------------------------------------------------------------
Init ==
  /\ name     = [q \in Requests |-> NoName]
  /\ mail     = [q \in Requests |-> NoMail]
  /\ place    = [q \in Requests |-> "new"]
  /\ pc       = [r \in Runs |-> "idle"]
  /\ req      = [r \in Runs |-> NoRequest]
  /\ verdict  = [r \in Runs |-> "none"]
  /\ stale    = [r \in Runs |-> FALSE]
  /\ accounts = {}
  /\ told     = [q \in Requests |-> "none"]
  /\ faults   = 0

RunStep(r) ==
  ByName(r) \/ ByMail(r) \/ Insert(r) \/ Commit(r) \/ Reply(r) \/ Ack(r)

Next ==
  \/ \E q \in Requests, n \in Names, e \in Mails : Submit(q, n, e)
  \/ \E q \in Requests : GiveUp(q)
  \/ \E r \in Runs, q \in Requests : Deliver(r, q)
  \/ \E r \in Runs : RunStep(r)
  \/ \E r \in Runs : DatabaseError(r) \/ LoseChannel(r) \/ Interrupt(r)

Spec == Init /\ [][Next]_vars

(* Every statement is answered, row locks are given up with it, and the    *)
(* broker serves the queue in turn.                                        *)
FairSpec ==
  /\ Spec
  /\ \A r \in Runs : WF_vars(RunStep(r))
  /\ \A q \in Requests : SF_vars(\E r \in Runs : Deliver(r, q))

----------------------------------------------------------------------------
(* Properties *)

(* Every variable has its type; a run serves a request while it is busy.   *)
TypeOK ==
  /\ name \in [Requests -> Names \cup {NoName}]
  /\ mail \in [Requests -> Mails \cup {NoMail}]
  /\ place \in [Requests -> Places]
  /\ pc \in [Runs -> Steps]
  /\ req \in [Runs -> Requests \cup {NoRequest}]
  /\ verdict \in [Runs -> Answers]
  /\ stale \in [Runs -> BOOLEAN]
  /\ accounts \subseteq Requests
  /\ told \in [Requests -> Answers]
  /\ faults \in 0..MaxFaults
  /\ \A r \in Runs : pc[r] = "idle" <=> req[r] = NoRequest
  /\ \A r \in Runs : stale[r] => pc[r] # "idle"
  /\ \A r \in Runs : pc[r] \in {"reply", "ack"} <=> verdict[r] # "none"

(* A client that was told of success owns its account, and no other client *)
(* has one with the same user name or e-mail, whatever crashes and         *)
(* overlapping registrations come between look-up and commit.              *)
SuccessOwns ==
  \A q \in Requests : told[q] = "ok" =>
    q \in accounts /\ \A p \in accounts \ {q} : ~Clash(p, q)

(* Without a fault a refusal is the truth: some other request owns the     *)
(* user name or e-mail, and the refused one has no account; in particular  *)
(* no client is refused because of its own registration.                   *)
RefusalTrue ==
  \A q \in Requests : told[q] \in {"exists", "error"} /\ faults = 0 =>
    q \notin accounts /\ \E p \in accounts : Clash(p, q)

(* However many registrations meet, they do not all lose: a message leaves *)
(* the queue only when someone owns its user name or e-mail, or a fault    *)
(* was answered with an error.                                             *)
SomeoneWins ==
  \A q \in Requests : place[q] = "gone" =>
    faults > 0 \/ \E p \in accounts : Clash(p, q)

Registry ==
  INSTANCE AccountRegistry WITH
    asked  <- {q \in Requests : place[q] # "new"},
    faulty <- faults > 0

(* The statements of overlapping transactions amount to one step that      *)
(* takes a free user name and e-mail, between the request and its answer;  *)
(* whatever is delivered again or fails half-way, no account changes hands *)
(* and each client hears one answer, which is true when it is given.       *)
ImplementsRegistry == Registry!Spec

(* Registrations wait for each other's uncommitted rows, but every message *)
(* is settled in the end.                                                  *)
EveryRequestSettles ==
  \A q \in Requests : place[q] # "new" ~> place[q] = "gone"

(* docs/ERROR_MODEL.md, line 13: a registration with a taken user name or  *)
(* e-mail is told AUTH_USER_EXISTS; an internal error needs a fault.       *)
TakenIsToldExists ==
  \A q \in Requests : told[q] = "error" => faults > 0
=============================================================================
