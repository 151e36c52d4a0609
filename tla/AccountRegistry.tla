-------------------------- MODULE AccountRegistry --------------------------
(***************************************************************************)
(* What the registration of accounts promises, with no word about          *)
(* transactions, statements, deliveries or replies: a request gets its     *)
(* account in one step, only while nobody owns its user name or e-mail,    *)
(* and no account is given up.  Each client hears one thing.               *)
(***************************************************************************)
CONSTANTS Requests, Names, Mails, NoName, NoMail

VARIABLES
  name, mail,  \* what each request asks for
  asked,       \* requests that were sent
  accounts,    \* requests that own an account
  told,        \* what each client was told
  faulty       \* something has failed

registryVars == <<name, mail, asked, accounts, told, faulty>>

Owned(q) == \E p \in accounts : name[p] = name[q] \/ mail[p] = mail[q]

(* Nothing was asked but what the accounts there are were registered with. *)
Init ==
  /\ asked    = accounts
  /\ accounts \subseteq Requests
  /\ name     \in [Requests -> Names \cup {NoName}]
  /\ mail     \in [Requests -> Mails \cup {NoMail}]
  /\ \A q \in Requests \ accounts : name[q] = NoName /\ mail[q] = NoMail
  /\ \A q \in accounts : name[q] \in Names /\ mail[q] \in Mails
  /\ \A p, q \in accounts : p # q => name[p] # name[q] /\ mail[p] # mail[q]
  /\ told     = [q \in Requests |-> "none"]
  /\ faulty   = FALSE

Ask(q, n, e) ==
  /\ q \notin asked
  /\ name'  = [name EXCEPT ![q] = n]
  /\ mail'  = [mail EXCEPT ![q] = e]
  /\ asked' = asked \cup {q}
  /\ UNCHANGED <<accounts, told, faulty>>

(* As long as nothing has failed, a client that was refused gets no        *)
(* account later on.  The step may itself be what fails.                   *)
Claim(q) ==
  /\ q \in asked
  /\ ~Owned(q)
  /\ told[q] \in {"exists", "error"} => faulty
  /\ accounts' = accounts \cup {q}
  /\ faulty => faulty'
  /\ UNCHANGED <<name, mail, asked, told>>

(* Success is told to owners, "exists" when there is an owner, which is    *)
(* someone else as long as nothing has failed.                             *)
Tell(q, a) ==
  /\ q \in asked
  /\ told[q] = "none"
  /\ a = "ok" => q \in accounts
  /\ a = "exists" => Owned(q)
  /\ a = "error" => Owned(q) \/ faulty
  /\ a \in {"exists", "error"} /\ q \in accounts => faulty
  /\ told' = [told EXCEPT ![q] = a]
  /\ UNCHANGED <<name, mail, asked, accounts, faulty>>

Fail ==
  /\ faulty' = TRUE
  /\ UNCHANGED <<name, mail, asked, accounts, told>>

Next ==
  \/ \E q \in Requests, n \in Names, e \in Mails : Ask(q, n, e)
  \/ \E q \in Requests : Claim(q)
  \/ \E q \in Requests, a \in {"ok", "exists", "error", "timeout"} : Tell(q, a)
  \/ Fail

Spec == Init /\ [][Next]_registryVars
=============================================================================
