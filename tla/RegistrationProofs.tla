------------------------- MODULE RegistrationProofs -------------------------
(***************************************************************************)
(* Safety of Registration for every number of requests, overlapping runs,  *)
(* names, e-mails and faults, and the implementation of AccountRegistry.   *)
(***************************************************************************)
EXTENDS Registration, TLAPS

(* Every step keeps the types. *)
LEMMA TypeStep == TypeOK /\ [Next]_vars => TypeOK'
<1> SUFFICES ASSUME TypeOK, [Next]_vars PROVE TypeOK'
  OBVIOUS
<1> USE RegistrationAssumption DEF TypeOK, Places, Steps, Answers, request, run
<1>1. ASSUME NEW q \in Requests, NEW n \in Names, NEW e \in Mails, Submit(q, n, e) PROVE TypeOK'
  BY <1>1 DEF Submit
<1>2. ASSUME NEW q \in Requests, GiveUp(q) PROVE TypeOK'
  BY <1>2 DEF GiveUp
<1>3. ASSUME NEW r \in Runs, NEW q \in Requests, Deliver(r, q) PROVE TypeOK'
  BY <1>3 DEF Deliver
<1>4. ASSUME NEW r \in Runs, ByName(r) PROVE TypeOK'
  BY <1>4 DEF ByName, Answer, Goto
<1>5. ASSUME NEW r \in Runs, ByMail(r) PROVE TypeOK'
  BY <1>5 DEF ByMail, Answer, Goto
<1>6. ASSUME NEW r \in Runs, Insert(r) PROVE TypeOK'
  BY <1>6 DEF Insert, Answer, Goto
<1>7. ASSUME NEW r \in Runs, Commit(r) PROVE TypeOK'
  BY <1>7 DEF Commit, Answer
<1>8. ASSUME NEW r \in Runs, Reply(r) PROVE TypeOK'
  BY <1>8 DEF Reply, Goto
<1>9. ASSUME NEW r \in Runs, Ack(r) PROVE TypeOK'
  BY <1>9 DEF Ack, Finish
<1>10. ASSUME NEW r \in Runs, DatabaseError(r) PROVE TypeOK'
  BY <1>10 DEF DatabaseError, Answer
<1>11. ASSUME NEW r \in Runs, LoseChannel(r) PROVE TypeOK'
  BY <1>11 DEF LoseChannel
<1>12. ASSUME NEW r \in Runs, Interrupt(r) PROVE TypeOK'
  BY <1>12 DEF Interrupt, Finish
<1>13. CASE UNCHANGED vars
  BY <1>13 DEF vars
<1>14. QED
  BY <1>1, <1>2, <1>3, <1>4, <1>5, <1>6, <1>7, <1>8, <1>9, <1>10, <1>11, <1>12, <1>13
     DEF Next, RunStep

(* Type correctness of every reachable state. *)
THEOREM TypeCorrect == Spec => []TypeOK
<1>1. Init => TypeOK
  BY RegistrationAssumption DEF Init, TypeOK, Places, Steps, Answers
<1>2. QED
  BY <1>1, TypeStep, PTL DEF Spec

----------------------------------------------------------------------------
(* Who owns a user name *)

(* No two accounts clash. *)
OwnersApart == \A p, q \in accounts : p # q => ~Clash(p, q)

(* A row that waits for its COMMIT clashes with no account and with no *)
(* other row that waits.                                               *)
InsertedApart ==
  /\ \A r \in Runs : pc[r] = "commit" => \A p \in accounts : ~Clash(p, req[r])
  /\ \A r, o \in Runs : r # o /\ pc[r] = "commit" /\ pc[o] = "commit" => ~Clash(req[o], req[r])

(* A verdict of success, sent or not, stands for an account. *)
OkOwns ==
  /\ \A r \in Runs : verdict[r] = "ok" => req[r] \in accounts
  /\ \A q \in Requests : told[q] = "ok" => q \in accounts

(* Only submitted requests are served and own accounts. *)
Submitted ==
  /\ \A q \in accounts : place[q] # "new"
  /\ \A r \in Runs : req[r] # NoRequest => place[req[r]] # "new"

OwnerInv == OwnersApart /\ InsertedApart /\ OkOwns /\ Submitted

(* A step that changes neither accounts nor rows under way keeps them apart. *)
LEMMA ApartKept ==
  ASSUME TypeOK, OwnersApart, InsertedApart, UNCHANGED <<name, mail, accounts>>,
         \A r \in Runs : pc'[r] = "commit" => pc[r] = "commit" /\ req'[r] = req[r]
  PROVE  OwnersApart' /\ InsertedApart'
BY DEF OwnersApart, InsertedApart, Clash, SameName, SameMail, TypeOK

LEMMA OwnerStep == TypeOK /\ OwnerInv /\ [Next]_vars => OwnerInv'
<1> SUFFICES ASSUME TypeOK, OwnerInv, [Next]_vars PROVE OwnerInv'
  OBVIOUS
<1> USE RegistrationAssumption DEF OwnerInv
<1>1. ASSUME NEW q \in Requests, NEW n \in Names, NEW e \in Mails, Submit(q, n, e)
      PROVE  OwnerInv'
  <2> USE DEF TypeOK, Places, Steps, Answers, run
  <2>1. q \notin accounts /\ \A r \in Runs : req[r] # q
    BY <1>1 DEF Submit, Submitted
  <2>2. \A p \in Requests \ {q} : name'[p] = name[p] /\ mail'[p] = mail[p]
    BY <1>1 DEF Submit
  <2>3. OwnersApart'
    BY <1>1, <2>1, <2>2 DEF Submit, OwnersApart, Clash, SameName, SameMail
  <2>4. \A r \in Runs : pc'[r] = "commit" => pc[r] = "commit" /\ req'[r] = req[r] /\ req[r] \in Requests \ {q}
    BY <1>1, <2>1 DEF Submit
  <2>5. InsertedApart'
    BY <1>1, <2>1, <2>2, <2>4 DEF Submit, InsertedApart, Clash, SameName, SameMail
  <2>6. OkOwns' /\ Submitted'
    BY <1>1 DEF Submit, OkOwns, Submitted
  <2>7. QED
    BY <2>3, <2>5, <2>6
<1>2. ASSUME NEW q \in Requests, GiveUp(q) PROVE OwnerInv'
  <2>1. OwnersApart' /\ InsertedApart'
    BY <1>2, ApartKept DEF GiveUp, request, run
  <2>2. OkOwns' /\ Submitted'
    BY <1>2 DEF GiveUp, OkOwns, Submitted, TypeOK, request, run
  <2>3. QED
    BY <2>1, <2>2
<1>3. ASSUME NEW r \in Runs, NEW q \in Requests, Deliver(r, q) PROVE OwnerInv'
  <2>1. OwnersApart' /\ InsertedApart'
    BY <1>3, ApartKept DEF Deliver, TypeOK
  <2>2. OkOwns' /\ Submitted'
    BY <1>3 DEF Deliver, OkOwns, Submitted, TypeOK
  <2>3. QED
    BY <2>1, <2>2
<1>4. ASSUME NEW r \in Runs, ByName(r) PROVE OwnerInv'
  <2>1. OwnersApart' /\ InsertedApart'
    BY <1>4, ApartKept DEF ByName, Answer, Goto, TypeOK, request
  <2>2. OkOwns' /\ Submitted'
    BY <1>4 DEF ByName, Answer, Goto, OkOwns, Submitted, TypeOK, request
  <2>3. QED
    BY <2>1, <2>2
<1>5. ASSUME NEW r \in Runs, ByMail(r) PROVE OwnerInv'
  <2>1. OwnersApart' /\ InsertedApart'
    BY <1>5, ApartKept DEF ByMail, Answer, Goto, TypeOK, request
  <2>2. OkOwns' /\ Submitted'
    BY <1>5 DEF ByMail, Answer, Goto, OkOwns, Submitted, TypeOK, request
  <2>3. QED
    BY <2>1, <2>2
<1>6. ASSUME NEW r \in Runs, Insert(r) PROVE OwnerInv'
  <2> USE DEF TypeOK, request
  <2>1. OkOwns' /\ Submitted'
    BY <1>6 DEF Insert, Answer, Goto, OkOwns, Submitted
  <2>2. CASE Taken(req[r])
    <3>1. \A s \in Runs : pc'[s] = "commit" => pc[s] = "commit" /\ req'[s] = req[s]
      BY <1>6, <2>2 DEF Insert, Answer
    <3>2. OwnersApart' /\ InsertedApart'
      BY <1>6, <3>1, ApartKept DEF Insert
    <3>3. QED
      BY <2>1, <3>2
  <2>3. CASE ~Taken(req[r])
    <3>1. /\ req' = req /\ accounts' = accounts /\ name' = name /\ mail' = mail
          /\ \A s \in Runs : pc'[s] = "commit" => s = r \/ pc[s] = "commit"
      BY <1>6, <2>3 DEF Insert, Goto
    <3>2. \A p \in accounts : ~Clash(p, req[r])
      BY <2>3 DEF Taken
    <3>3. \A o \in Runs \ {r} : pc[o] = "commit" => ~Clash(req[o], req[r]) /\ ~Clash(req[r], req[o])
      BY <1>6 DEF Insert, Blocked, Clash, SameName, SameMail
    <3>4. OwnersApart'
      BY <3>1 DEF OwnersApart, Clash, SameName, SameMail
    <3>5. InsertedApart'
      BY <3>1, <3>2, <3>3 DEF InsertedApart, Clash, SameName, SameMail
    <3>6. QED
      BY <2>1, <3>4, <3>5
  <2>4. QED
    BY <2>2, <2>3
<1>7. ASSUME NEW r \in Runs, pc[r] = "commit", UNCHANGED <<name, mail, place, req>>,
             accounts' = accounts \cup {req[r]}, pc' = [pc EXCEPT ![r] = "reply"],
             \E a \in {"ok", "error"} : verdict' = [verdict EXCEPT ![r] = a],
             told' = told
      PROVE  OwnerInv'
  <2> USE DEF TypeOK
  <2>1. req[r] \in Requests /\ place[req[r]] # "new"
    BY <1>7 DEF Submitted, Steps
  <2>2. \A s \in Runs : pc'[s] = "commit" => s # r /\ pc[s] = "commit"
    BY <1>7
  <2>3. OwnersApart'
    BY <1>7 DEF OwnersApart, InsertedApart, Clash, SameName, SameMail
  <2>4. InsertedApart'
    BY <1>7, <2>2 DEF InsertedApart, Clash, SameName, SameMail
  <2>5. OkOwns' /\ Submitted'
    BY <1>7, <2>1 DEF OkOwns, Submitted
  <2>6. QED
    BY <2>3, <2>4, <2>5
<1>8. ASSUME NEW r \in Runs, Commit(r) PROVE OwnerInv'
  BY <1>7, <1>8 DEF Commit, Answer, request
<1>9. ASSUME NEW r \in Runs, Reply(r) PROVE OwnerInv'
  <2>1. OwnersApart' /\ InsertedApart'
    BY <1>9, ApartKept DEF Reply, Goto, TypeOK, request
  <2>2. OkOwns' /\ Submitted'
    BY <1>9 DEF Reply, Goto, OkOwns, Submitted, TypeOK, request
  <2>3. QED
    BY <2>1, <2>2
<1>10. ASSUME NEW r \in Runs, Ack(r) PROVE OwnerInv'
  <2>1. OwnersApart' /\ InsertedApart'
    BY <1>10, ApartKept DEF Ack, Finish, TypeOK
  <2>2. OkOwns' /\ Submitted'
    BY <1>10 DEF Ack, Finish, OkOwns, Submitted, TypeOK
  <2>3. QED
    BY <2>1, <2>2
<1>11. ASSUME NEW r \in Runs, DatabaseError(r) PROVE OwnerInv'
  <2>1. CASE UNCHANGED accounts
    <3>1. OwnersApart' /\ InsertedApart'
      BY <1>11, <2>1, ApartKept DEF DatabaseError, Answer, TypeOK, request
    <3>2. OkOwns' /\ Submitted'
      BY <1>11, <2>1 DEF DatabaseError, Answer, OkOwns, Submitted, TypeOK, request
    <3>3. QED
      BY <3>1, <3>2
  <2>2. CASE pc[r] = "commit" /\ accounts' = accounts \cup {req[r]}
    BY <1>7, <1>11, <2>2 DEF DatabaseError, Answer, request
  <2>3. QED
    BY <1>11, <2>1, <2>2 DEF DatabaseError
<1>12. ASSUME NEW r \in Runs, LoseChannel(r) PROVE OwnerInv'
  <2>1. OwnersApart' /\ InsertedApart'
    BY <1>12, ApartKept DEF LoseChannel
  <2>2. OkOwns' /\ Submitted'
    BY <1>12 DEF LoseChannel, OkOwns, Submitted, TypeOK
  <2>3. QED
    BY <2>1, <2>2
<1>13. ASSUME NEW r \in Runs, Interrupt(r) PROVE OwnerInv'
  <2>1. OwnersApart' /\ InsertedApart'
    BY <1>13, ApartKept DEF Interrupt, Finish, TypeOK
  <2>2. OkOwns' /\ Submitted'
    BY <1>13 DEF Interrupt, Finish, OkOwns, Submitted, TypeOK
  <2>3. QED
    BY <2>1, <2>2
<1>14. CASE UNCHANGED vars
  <2>1. OwnersApart' /\ InsertedApart'
    BY <1>14, ApartKept DEF vars, request, run
  <2>2. OkOwns' /\ Submitted'
    BY <1>14 DEF vars, request, run, OkOwns, Submitted
  <2>3. QED
    BY <2>1, <2>2
<1>15. QED
  BY <1>1, <1>2, <1>3, <1>4, <1>5, <1>6, <1>8, <1>9, <1>10, <1>11, <1>12, <1>13, <1>14
     DEF Next, RunStep

THEOREM OwnersKept == Spec => []OwnerInv
<1>1. Init => OwnerInv
  BY RegistrationAssumption
     DEF Init, OwnerInv, OwnersApart, InsertedApart, OkOwns, Submitted
<1>2. QED
  BY <1>1, TypeCorrect, OwnerStep, PTL DEF Spec

(* A client told of success owns its user name and e-mail, and owns them *)
(* alone.                                                                *)
THEOREM SuccessIsOwnership == Spec => []SuccessOwns
<1>1. TypeOK /\ OwnerInv => SuccessOwns
  BY DEF TypeOK, OwnerInv, OwnersApart, OkOwns, SuccessOwns, Clash, SameName, SameMail
<1>2. QED
  BY <1>1, TypeCorrect, OwnersKept, PTL
----------------------------------------------------------------------------
(* Refusals, as long as no fault has happened *)

(* Someone else owns the user name or e-mail of q. *)
Lost(q) == q \notin accounts /\ \E p \in accounts : Clash(p, q)

(* Every delivery is open and no request is served twice at a time. *)
OneRun ==
  /\ \A r \in Runs : ~stale[r]
  /\ \A r \in Runs : req[r] # NoRequest => place[req[r]] = "unacked"
  /\ \A r, o \in Runs : req[r] = req[o] /\ req[r] # NoRequest => r = o

(* A request that waits, or that is served but not yet decided, owns       *)
(* nothing and was not refused.                                            *)
Undecided ==
  /\ \A q \in Requests : place[q] \in {"new", "queued"} =>
       q \notin accounts /\ told[q] \notin {"exists", "error"}
  /\ \A r \in Runs : req[r] # NoRequest /\ verdict[r] = "none" =>
       req[r] \notin accounts /\ told[req[r]] \notin {"exists", "error"}

(* A refusal, sent or not, means that the race is lost, and an acknowledged *)
(* request has an owner.                                                    *)
Decided ==
  /\ \A r \in Runs : verdict[r] \in {"none", "ok", "exists", "error"}
  /\ \A r \in Runs : verdict[r] \in {"exists", "error"} => Lost(req[r])
  /\ \A q \in Requests : told[q] \in {"exists", "error"} => Lost(q)
  /\ \A q \in Requests : place[q] = "gone" => \E p \in accounts : Clash(p, q)

Quiet == OneRun /\ Undecided /\ Decided

QuietInv == faults = 0 => Quiet

(* Accounts that come keep a race lost for everybody but their creators. *)
LEMMA LostKept ==
  ASSUME TypeOK, NEW q \in Requests, Lost(q), UNCHANGED <<name, mail>>,
         accounts \subseteq accounts', q \notin accounts'
  PROVE  Lost(q)'
BY DEF Lost, Clash, SameName, SameMail

LEMMA QuietStep == TypeOK /\ OwnerInv /\ QuietInv /\ [Next]_vars => QuietInv'
<1> SUFFICES ASSUME TypeOK, OwnerInv, QuietInv, [Next]_vars, faults' = 0 PROVE Quiet'
  BY DEF QuietInv
<1> USE RegistrationAssumption
<1>0. Quiet /\ faults = 0
  <2>1. faults' = faults \/ faults' = faults + 1
    BY DEF Next, RunStep, vars, request, run, Submit, GiveUp, Deliver, ByName, ByMail, Insert,
           Commit, Reply, Ack, DatabaseError, LoseChannel, Interrupt
  <2>2. QED
    BY <2>1 DEF QuietInv, TypeOK
<1> USE <1>0 DEF Quiet, TypeOK
<1>1. ASSUME NEW q \in Requests, NEW n \in Names, NEW e \in Mails, Submit(q, n, e)
      PROVE  Quiet'
  <2>1. /\ q \notin accounts
        /\ \A r \in Runs : req[r] # q
        /\ told[q] \notin {"exists", "error"}
    BY <1>1 DEF Submit, OwnerInv, Submitted, Undecided
  <2>2. \A p \in Requests \ {q} : name'[p] = name[p] /\ mail'[p] = mail[p] /\ place'[p] = place[p]
    BY <1>1 DEF Submit
  <2>3. OneRun' /\ Undecided'
    BY <1>1, <2>1, <2>2 DEF Submit, OneRun, Undecided, run
  <2>4. \A p \in Requests \ {q} : Lost(p) => Lost(p)'
    BY <1>1, <2>1, <2>2 DEF Submit, Lost, Clash, SameName, SameMail
  <2>5. Decided'
    <3>1. \A r \in Runs : verdict'[r] \in {"none", "ok", "exists", "error"}
      BY <1>1 DEF Submit, Decided, run
    <3>2. \A r \in Runs : verdict'[r] \in {"exists", "error"} => Lost(req[r])'
      BY <1>1, <2>1, <2>4 DEF Submit, Decided, run, Steps
    <3>3. \A p \in Requests : told'[p] \in {"exists", "error"} => Lost(p)'
      BY <1>1, <2>1, <2>4 DEF Submit, Decided
    <3>4. \A p \in Requests : place'[p] = "gone" => \E a \in accounts' : Clash(a, p)'
      BY <1>1, <2>1, <2>2 DEF Submit, Decided, Clash, SameName, SameMail
    <3>5. QED
      BY <3>1, <3>2, <3>3, <3>4 DEF Decided
  <2>6. QED
    BY <2>3, <2>5
<1>2. ASSUME NEW q \in Requests, GiveUp(q) PROVE Quiet'
  BY <1>2 DEF GiveUp, OneRun, Undecided, Decided, Lost, Clash, SameName, SameMail, request, run
<1>3. ASSUME NEW r \in Runs, NEW q \in Requests, Deliver(r, q) PROVE Quiet'
  <2>1. OneRun'
    BY <1>3 DEF Deliver, OneRun
  <2>2. Undecided'
    BY <1>3 DEF Deliver, Undecided
  <2>3. Decided'
    BY <1>3 DEF Deliver, Decided, Lost, Clash, SameName, SameMail
  <2>4. QED
    BY <2>1, <2>2, <2>3
<1>4. ASSUME NEW r \in Runs, ByName(r) PROVE Quiet'
  <2>1. req[r] \in Requests /\ verdict[r] = "none" /\ req[r] \notin accounts
    BY <1>4 DEF ByName, Undecided
  <2>2. (\E p \in accounts : SameName(p, req[r])) => Lost(req[r])
    BY <2>1 DEF Lost, Clash
  <2>3. QED
    BY <1>4, <2>1, <2>2
       DEF ByName, Answer, Goto, OneRun, Undecided, Decided, Lost, Clash, SameName, SameMail, request
<1>5. ASSUME NEW r \in Runs, ByMail(r) PROVE Quiet'
  <2>1. req[r] \in Requests /\ verdict[r] = "none" /\ req[r] \notin accounts
    BY <1>5 DEF ByMail, Undecided
  <2>2. (\E p \in accounts : SameMail(p, req[r])) => Lost(req[r])
    BY <2>1 DEF Lost, Clash
  <2>3. QED
    BY <1>5, <2>1, <2>2
       DEF ByMail, Answer, Goto, OneRun, Undecided, Decided, Lost, Clash, SameName, SameMail, request
<1>6. ASSUME NEW r \in Runs, Insert(r) PROVE Quiet'
  <2>1. req[r] \in Requests /\ verdict[r] = "none" /\ req[r] \notin accounts
    BY <1>6 DEF Insert, Undecided
  <2>2. Taken(req[r]) => Lost(req[r])
    BY <2>1 DEF Lost, Taken
  <2>3. QED
    BY <1>6, <2>1, <2>2
       DEF Insert, Answer, Goto, OneRun, Undecided, Decided, Lost, Clash, SameName, SameMail, request
<1>7. ASSUME NEW r \in Runs, Commit(r) PROVE Quiet'
  <2> DEFINE q == req[r]
  <2>1. /\ q \in Requests /\ verdict[r] = "none" /\ q \notin accounts
        /\ told[q] \notin {"exists", "error"} /\ place[q] = "unacked"
    BY <1>7 DEF Commit, OneRun, Undecided
  <2>2. \A o \in Runs \ {r} : req[o] # q
    BY <2>1 DEF OneRun
  <2>3. \A p \in Requests \ {q} : Lost(p) => Lost(p)'
    BY <1>7, LostKept DEF Commit, Lost, request
  <2>4. OneRun'
    BY <1>7 DEF Commit, Answer, OneRun, request
  <2>5. Undecided'
    BY <1>7, <2>1, <2>2 DEF Commit, Answer, Undecided, request
  <2>6. Decided'
    <3>1. \A o \in Runs : verdict'[o] \in {"none", "ok", "exists", "error"}
      BY <1>7 DEF Commit, Answer, Decided
    <3>2. \A o \in Runs : verdict'[o] \in {"exists", "error"} => Lost(req[o])'
      <4> SUFFICES ASSUME NEW o \in Runs, verdict'[o] \in {"exists", "error"}
                   PROVE  Lost(req[o])'
        OBVIOUS
      <4>1. o # r /\ verdict[o] = verdict'[o] /\ req'[o] = req[o]
        BY <1>7 DEF Commit, Answer
      <4>2. req[o] \in Requests \ {q} /\ Lost(req[o])
        BY <2>2, <4>1 DEF Decided, Steps
      <4>3. Lost(req[o])'
        BY <1>7, <4>1, <4>2 DEF Commit, Lost, Clash, SameName, SameMail, request
      <4>4. QED
        BY <4>3
    <3>3. \A p \in Requests : told'[p] \in {"exists", "error"} => Lost(p)'
      BY <1>7, <2>1, <2>3 DEF Commit, Decided
    <3>4. \A p \in Requests : place'[p] = "gone" => \E a \in accounts' : Clash(a, p)'
      BY <1>7 DEF Commit, Decided, Clash, SameName, SameMail, request
    <3>5. QED
      BY <3>1, <3>2, <3>3, <3>4 DEF Decided
  <2>7. QED
    BY <2>4, <2>5, <2>6
<1>8. ASSUME NEW r \in Runs, Reply(r) PROVE Quiet'
  <2>1. req[r] \in Requests /\ verdict[r] # "none"
    BY <1>8 DEF Reply
  <2>2. \A o \in Runs \ {r} : req[o] # req[r]
    BY <2>1 DEF OneRun
  <2>3. OneRun'
    BY <1>8 DEF Reply, Goto, OneRun, request
  <2>4. Undecided'
    BY <1>8, <2>1, <2>2 DEF Reply, Goto, OneRun, Undecided, request
  <2>5. Decided'
    BY <1>8, <2>1 DEF Reply, Goto, Decided, Lost, Clash, SameName, SameMail, request
  <2>6. QED
    BY <2>3, <2>4, <2>5
<1>9. ASSUME NEW r \in Runs, Ack(r) PROVE Quiet'
  <2>1. req[r] \in Requests /\ verdict[r] \in {"ok", "exists", "error"} /\ ~stale[r]
    BY <1>9 DEF Ack, OneRun, Decided
  <2>2. \E p \in accounts : Clash(p, req[r])
    BY <2>1 DEF Decided, OwnerInv, OkOwns, Lost, Clash, SameName, SameMail
  <2>3. OneRun'
    BY <1>9, <2>1 DEF Ack, Finish, OneRun
  <2>4. Undecided'
    BY <1>9, <2>1 DEF Ack, Finish, Undecided
  <2>5. Decided'
    BY <1>9, <2>1, <2>2 DEF Ack, Finish, Decided, Lost, Clash, SameName, SameMail
  <2>6. QED
    BY <2>3, <2>4, <2>5
<1>10. ASSUME NEW r \in Runs, DatabaseError(r) \/ LoseChannel(r) \/ Interrupt(r) PROVE Quiet'
  BY <1>10 DEF DatabaseError, LoseChannel, Interrupt
<1>11. CASE UNCHANGED vars
  BY <1>11
     DEF vars, request, run, OneRun, Undecided, Decided, Lost, Clash, SameName, SameMail
<1>12. QED
  BY <1>1, <1>2, <1>3, <1>4, <1>5, <1>6, <1>7, <1>8, <1>9, <1>10, <1>11 DEF Next, RunStep

THEOREM QuietKept == Spec => []QuietInv
<1>1. Init => QuietInv
  BY RegistrationAssumption
     DEF Init, QuietInv, Quiet, OneRun, Undecided, Decided, Lost
<1>2. QED
  BY <1>1, TypeCorrect, OwnersKept, QuietStep, PTL DEF Spec

(* Without a fault a refusal is the truth. *)
THEOREM RefusalsTrue == Spec => []RefusalTrue
<1>1. QuietInv => RefusalTrue
  BY DEF QuietInv, Quiet, Decided, Lost, RefusalTrue
<1>2. QED
  BY <1>1, QuietKept, PTL

(* Without a fault registrations that meet do not all lose. *)
THEOREM WinnerExists == Spec => []SomeoneWins
<1>1. TypeOK /\ QuietInv => SomeoneWins
  BY DEF TypeOK, QuietInv, Quiet, Decided, SomeoneWins
<1>2. QED
  BY <1>1, TypeCorrect, QuietKept, PTL

----------------------------------------------------------------------------
(* Registration implements AccountRegistry *)

(* A refusal that is on its way is true, with or without faults, because   *)
(* accounts are not given up; an error may also be a fault.                *)
RefusalDue ==
  \A r \in Runs :
    /\ verdict[r] \in {"none", "ok", "exists", "error"}
    /\ verdict[r] = "exists" => Taken(req[r])
    /\ verdict[r] = "error" => Taken(req[r]) \/ faults > 0

(* Runs that keep their verdict keep it true. *)
LEMMA DueKept ==
  ASSUME RefusalDue, UNCHANGED <<name, mail>>, accounts \subseteq accounts',
         faults > 0 => faults' > 0, NEW r \in Runs,
         verdict'[r] = "none" \/ (verdict'[r] = verdict[r] /\ req'[r] = req[r])
  PROVE  /\ verdict'[r] \in {"none", "ok", "exists", "error"}
         /\ verdict'[r] = "exists" => Taken(req[r])'
         /\ verdict'[r] = "error" => Taken(req[r])' \/ faults' > 0
<1>1. CASE verdict'[r] = "none"
  BY <1>1
<1>2. CASE verdict'[r] = verdict[r] /\ req'[r] = req[r]
  <2>1. Taken(req[r]) => Taken(req[r])'
    BY <1>2 DEF Taken, Clash, SameName, SameMail
  <2>2. QED
    BY <1>2, <2>1 DEF RefusalDue
<1>3. QED
  BY <1>1, <1>2

LEMMA DueStep == TypeOK /\ OwnerInv /\ RefusalDue /\ [Next]_vars => RefusalDue'
<1> SUFFICES ASSUME TypeOK, OwnerInv, RefusalDue, [Next]_vars PROVE RefusalDue'
  OBVIOUS
<1> USE RegistrationAssumption DEF TypeOK
<1>1. ASSUME NEW q \in Requests, NEW n \in Names, NEW e \in Mails, Submit(q, n, e)
      PROVE  RefusalDue'
  <2>1. q \notin accounts /\ \A r \in Runs : req[r] # q
    BY <1>1 DEF Submit, OwnerInv, Submitted
  <2>2. \A r \in Runs : verdict[r] # "none" => req[r] \in Requests \ {q}
    BY <2>1 DEF Steps
  <2>3. \A r \in Runs : verdict[r] # "none" /\ Taken(req[r]) => Taken(req[r])'
    BY <1>1, <2>1, <2>2 DEF Submit, Taken, Clash, SameName, SameMail, run
  <2>4. QED
    BY <1>1, <2>3 DEF Submit, RefusalDue, run
<1>2. ASSUME UNCHANGED <<name, mail>>, accounts \subseteq accounts', faults > 0 => faults' > 0,
             NEW r \in Runs, \A o \in Runs \ {r} : verdict'[o] = verdict[o] /\ req'[o] = req[o],
             \/ verdict'[r] \in {"none", "ok"}
             \/ verdict'[r] = verdict[r] /\ req'[r] = req[r]
             \/ verdict'[r] = "exists" /\ Taken(req[r])'
             \/ verdict'[r] = "error" /\ (Taken(req[r])' \/ faults' > 0)
      PROVE  RefusalDue'
  <2>1. \A o \in Runs \ {r} :
          /\ verdict'[o] \in {"none", "ok", "exists", "error"}
          /\ verdict'[o] = "exists" => Taken(req[o])'
          /\ verdict'[o] = "error" => Taken(req[o])' \/ faults' > 0
    BY <1>2, DueKept
  <2>2. /\ verdict'[r] \in {"none", "ok", "exists", "error"}
        /\ verdict'[r] = "exists" => Taken(req[r])'
        /\ verdict'[r] = "error" => Taken(req[r])' \/ faults' > 0
    BY <1>2, DueKept
  <2>3. QED
    BY <2>1, <2>2 DEF RefusalDue
<1>3. ASSUME NEW q \in Requests, GiveUp(q) PROVE RefusalDue'
  BY <1>3, DueKept DEF GiveUp, RefusalDue, request, run
<1>4. ASSUME NEW r \in Runs, NEW q \in Requests, Deliver(r, q) PROVE RefusalDue'
  <2>1. verdict[r] = "none"
    BY <1>4 DEF Deliver
  <2>2. QED
    BY <1>2, <1>4, <2>1 DEF Deliver
<1>5. ASSUME NEW r \in Runs, ByName(r) PROVE RefusalDue'
  <2>1. (\E p \in accounts : SameName(p, req[r])) => Taken(req[r])
    BY DEF Taken, Clash
  <2>2. Taken(req[r]) => Taken(req[r])'
    BY <1>5 DEF ByName, Answer, Goto, Taken, Clash, SameName, SameMail, request
  <2>3. QED
    BY <1>2, <1>5, <2>1, <2>2 DEF ByName, Answer, Goto, request
<1>6. ASSUME NEW r \in Runs, ByMail(r) PROVE RefusalDue'
  <2>1. (\E p \in accounts : SameMail(p, req[r])) => Taken(req[r])
    BY DEF Taken, Clash
  <2>2. Taken(req[r]) => Taken(req[r])'
    BY <1>6 DEF ByMail, Answer, Goto, Taken, Clash, SameName, SameMail, request
  <2>3. QED
    BY <1>2, <1>6, <2>1, <2>2 DEF ByMail, Answer, Goto, request
<1>7. ASSUME NEW r \in Runs, Insert(r) PROVE RefusalDue'
  <2>1. Taken(req[r]) => Taken(req[r])'
    BY <1>7 DEF Insert, Answer, Goto, Taken, Clash, SameName, SameMail, request
  <2>2. QED
    BY <1>2, <1>7, <2>1 DEF Insert, Answer, Goto, request
<1>8. ASSUME NEW r \in Runs, Commit(r) PROVE RefusalDue'
  BY <1>2, <1>8 DEF Commit, Answer, request
<1>9. ASSUME NEW r \in Runs, Reply(r) PROVE RefusalDue'
  BY <1>2, <1>9 DEF Reply, Goto, request
<1>10. ASSUME NEW r \in Runs, Ack(r) PROVE RefusalDue'
  BY <1>2, <1>10 DEF Ack, Finish
<1>11. ASSUME NEW r \in Runs, DatabaseError(r) PROVE RefusalDue'
  <2>1. faults' > 0
    BY <1>11 DEF DatabaseError
  <2>2. QED
    BY <1>2, <1>11, <2>1 DEF DatabaseError, Answer, request
<1>12. ASSUME NEW r \in Runs, LoseChannel(r) PROVE RefusalDue'
  BY <1>2, <1>12 DEF LoseChannel
<1>13. ASSUME NEW r \in Runs, Interrupt(r) PROVE RefusalDue'
  BY <1>2, <1>13 DEF Interrupt, Finish
<1>14. CASE UNCHANGED vars
  BY <1>14, DueKept DEF vars, request, run, RefusalDue
<1>15. QED
  BY <1>1, <1>3, <1>4, <1>5, <1>6, <1>7, <1>8, <1>9, <1>10, <1>11, <1>12, <1>13, <1>14
     DEF Next, RunStep

THEOREM RefusalsDue == Spec => []RefusalDue
<1>1. Init => RefusalDue
  BY DEF Init, RefusalDue
<1>2. QED
  BY <1>1, TypeCorrect, OwnersKept, DueStep, PTL DEF Spec

(* Statements that commit nothing and tell nobody are no step of the       *)
(* registry, or a failure.                                                 *)
LEMMA RegistryQuiet ==
  ASSUME TypeOK, UNCHANGED <<name, mail, accounts, told>>,
         \A q \in Requests : place'[q] = "new" <=> place[q] = "new",
         faults' = faults \/ faults' = faults + 1
  PROVE  Registry!Fail \/ UNCHANGED Registry!registryVars
<1>1. {q \in Requests : place'[q] # "new"} = {q \in Requests : place[q] # "new"}
  OBVIOUS
<1>2. CASE faults' = faults
  BY <1>1, <1>2 DEF Registry!registryVars
<1>3. CASE faults' = faults + 1
  <2>1. faults' > 0
    BY <1>3, RegistrationAssumption DEF TypeOK
  <2>2. QED
    BY <1>1, <2>1 DEF Registry!Fail
<1>4. QED
  BY <1>2, <1>3

LEMMA RegistryClaim ==
  ASSUME TypeOK, OwnerInv, QuietInv, NEW r \in Runs, pc[r] = "commit",
         accounts' = accounts \cup {req[r]}, UNCHANGED <<request, told>>,
         faults' = faults \/ faults' = faults + 1
  PROVE  Registry!Claim(req[r]) /\ req[r] \in Requests
<1>1. req[r] \in Requests /\ place[req[r]] # "new" /\ verdict[r] = "none"
  BY RegistrationAssumption DEF TypeOK, OwnerInv, Submitted, Steps
<1>2. ~Registry!Owned(req[r])
  BY DEF OwnerInv, InsertedApart, Clash, SameName, SameMail, Registry!Owned
<1>3. told[req[r]] \in {"exists", "error"} => faults > 0
  BY <1>1, RegistrationAssumption DEF QuietInv, Quiet, Undecided, TypeOK
<1>4. {q \in Requests : place'[q] # "new"} = {q \in Requests : place[q] # "new"}
  BY DEF request
<1>5. faults > 0 => faults' > 0
  BY RegistrationAssumption DEF TypeOK
<1>6. QED
  BY <1>1, <1>2, <1>3, <1>4, <1>5 DEF Registry!Claim, request

LEMMA RegistryStep ==
  TypeOK /\ OwnerInv /\ QuietInv /\ RefusalDue /\ [Next]_vars
    => [Registry!Next]_Registry!registryVars
<1> SUFFICES ASSUME TypeOK, OwnerInv, QuietInv, RefusalDue, [Next]_vars
             PROVE  [Registry!Next]_Registry!registryVars
  OBVIOUS
<1> USE RegistrationAssumption
<1>0. ASSUME Registry!Fail \/ UNCHANGED Registry!registryVars
      PROVE  [Registry!Next]_Registry!registryVars
  BY <1>0 DEF Registry!Next
<1>1. ASSUME NEW q \in Requests, NEW n \in Names, NEW e \in Mails, Submit(q, n, e)
      PROVE  Registry!Next
  <2>1. {p \in Requests : place'[p] # "new"} = {p \in Requests : place[p] # "new"} \cup {q}
    BY <1>1 DEF Submit, TypeOK
  <2>2. Registry!Ask(q, n, e)
    BY <1>1, <2>1 DEF Submit, Registry!Ask
  <2>3. QED
    BY <2>2 DEF Registry!Next
<1>2. ASSUME NEW q \in Requests, GiveUp(q) PROVE Registry!Next
  <2>1. Registry!Tell(q, "timeout")
    BY <1>2 DEF GiveUp, Registry!Tell, request
  <2>2. QED
    BY <2>1 DEF Registry!Next
<1>3. ASSUME NEW r \in Runs, NEW q \in Requests, Deliver(r, q)
      PROVE  [Registry!Next]_Registry!registryVars
  BY <1>0, <1>3, RegistryQuiet DEF Deliver, TypeOK
<1>4. ASSUME NEW r \in Runs, ByName(r) \/ ByMail(r) \/ Insert(r)
      PROVE  [Registry!Next]_Registry!registryVars
  BY <1>0, <1>4, RegistryQuiet DEF ByName, ByMail, Insert, request
<1>5. ASSUME NEW r \in Runs, Commit(r) PROVE Registry!Next
  BY <1>5, RegistryClaim DEF Commit, Registry!Next
<1>6. ASSUME NEW r \in Runs, DatabaseError(r) PROVE [Registry!Next]_Registry!registryVars
  <2>1. CASE UNCHANGED accounts
    BY <1>0, <1>6, <2>1, RegistryQuiet DEF DatabaseError, request
  <2>2. CASE pc[r] = "commit" /\ accounts' = accounts \cup {req[r]}
    BY <1>6, <2>2, RegistryClaim DEF DatabaseError, Registry!Next
  <2>3. QED
    BY <1>6, <2>1, <2>2 DEF DatabaseError
<1>7. ASSUME NEW r \in Runs, Reply(r) PROVE [Registry!Next]_Registry!registryVars
  <2>1. req[r] \in Requests /\ verdict[r] \in {"ok", "exists", "error"} /\ place[req[r]] # "new"
    BY <1>7 DEF Reply, TypeOK, RefusalDue, OwnerInv, Submitted
  <2>2. CASE told[req[r]] # "none"
    BY <1>0, <1>7, <2>2, RegistryQuiet DEF Reply, TypeOK, request
  <2>3. CASE told[req[r]] = "none"
    <3>1. verdict[r] = "ok" => req[r] \in accounts
      BY DEF OwnerInv, OkOwns
    <3>2. Taken(req[r]) => Registry!Owned(req[r])
      BY DEF Taken, Clash, SameName, SameMail, Registry!Owned
    <3>3. verdict[r] \in {"exists", "error"} /\ req[r] \in accounts => faults > 0
      BY DEF QuietInv, Quiet, Decided, Lost, TypeOK
    <3>4. told' = [told EXCEPT ![req[r]] = verdict[r]]
      BY <1>7, <2>3 DEF Reply
    <3>5. {p \in Requests : place'[p] # "new"} = {p \in Requests : place[p] # "new"}
      BY <1>7 DEF Reply, request
    <3>6. Registry!Tell(req[r], verdict[r])
      BY <1>7, <2>1, <2>3, <3>1, <3>2, <3>3, <3>4, <3>5 DEF Reply, RefusalDue, Registry!Tell, request
    <3>7. QED
      BY <2>1, <3>6 DEF Registry!Next
  <2>4. QED
    BY <2>2, <2>3
<1>8. ASSUME NEW r \in Runs, Ack(r) \/ LoseChannel(r) \/ Interrupt(r)
      PROVE  [Registry!Next]_Registry!registryVars
  <2>1. req[r] \in Requests /\ place[req[r]] # "new"
    BY <1>8 DEF Ack, LoseChannel, Interrupt, TypeOK, OwnerInv, Submitted
  <2>2. \A q \in Requests : place'[q] = "new" <=> place[q] = "new"
    BY <1>8, <2>1 DEF Ack, LoseChannel, Interrupt, TypeOK
  <2>3. QED
    BY <1>0, <1>8, <2>2, RegistryQuiet DEF Ack, LoseChannel, Interrupt
<1>9. CASE UNCHANGED vars
  BY <1>0, <1>9, RegistryQuiet DEF vars, request
<1>10. QED
  BY <1>1, <1>2, <1>3, <1>4, <1>5, <1>6, <1>7, <1>8, <1>9 DEF Next, RunStep

(* The statements of overlapping registrations amount to atomic claims of  *)
(* free names, and every client hears one answer that is true.             *)
THEOREM ImplementsAccountRegistry == Spec => ImplementsRegistry
<1>1. Init => Registry!Init
  BY RegistrationAssumption DEF Init, Registry!Init
<1>2. QED
  BY <1>1, TypeCorrect, OwnersKept, QuietKept, RefusalsDue, RegistryStep, PTL
     DEF Spec, ImplementsRegistry, Registry!Spec
=============================================================================
