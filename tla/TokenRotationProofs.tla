------------------------ MODULE TokenRotationProofs ------------------------
(***************************************************************************)
(* Safety of TokenRotation for every number of tokens, overlapping calls   *)
(* and faults, with the relationship loaded or not, and the implementation *)
(* of SessionTable.                                                        *)
(***************************************************************************)
EXTENDS TokenRotation, FiniteSetTheorems, TLAPS

(* Every step keeps the types. *)
LEMMA TypeStep == TypeOK /\ [Next]_vars => TypeOK'
<1> SUFFICES ASSUME TypeOK, [Next]_vars PROVE TypeOK'
  OBVIOUS
<1> USE RotationAssumption DEF TypeOK, Steps, Operations, table, run, history
<1>1. ASSUME NEW r \in Runs, NEW c \in Tokens, Login(r, c) PROVE TypeOK'
  BY <1>1 DEF Login, Start
<1>2. ASSUME NEW r \in Runs, NEW t \in Tokens, NEW c \in Tokens, Refresh(r, t, c) PROVE TypeOK'
  BY <1>2 DEF Refresh, Start
<1>3. ASSUME NEW r \in Runs, NEW t \in Tokens, Logout(r, t) PROVE TypeOK'
  BY <1>3 DEF Logout, Start
<1>4. ASSUME NEW r \in Runs, Select(r) PROVE TypeOK'
  BY <1>4 DEF Select, Goto, Finish
<1>5. ASSUME NEW r \in Runs, Flush(r) PROVE TypeOK'
  BY <1>5 DEF Flush, Goto
<1>6. ASSUME NEW r \in Runs, Commit(r) PROVE TypeOK'
  BY <1>6 DEF Commit, Written, Goto
<1>7. ASSUME NEW r \in Runs, Reply(r) PROVE TypeOK'
  BY <1>7 DEF Reply, Granted, Finish
<1>8. ASSUME NEW r \in Runs, Interrupt(r) PROVE TypeOK'
  BY <1>8 DEF Interrupt, Finish
<1>9. ASSUME NEW t \in Tokens, Expire(t) PROVE TypeOK'
  BY <1>9 DEF Expire
<1>10. CASE UNCHANGED vars
  BY <1>10 DEF vars
<1>11. QED
  BY <1>1, <1>2, <1>3, <1>4, <1>5, <1>6, <1>7, <1>8, <1>9, <1>10 DEF Next, RunStep

(* Type correctness of every reachable state. *)
THEOREM TypeCorrect == Spec => []TypeOK
<1>1. Init => TypeOK
  BY RotationAssumption DEF Init, TypeOK, Steps, Operations
<1>2. QED
  BY <1>1, TypeStep, PTL DEF Spec

----------------------------------------------------------------------------
(* Which tokens exist *)

(* No two runs create the same token. *)
NewUnique ==
  \A r, s \in Runs : new[r] = new[s] /\ new[r] # NoToken => r = s

(* A token is not in the table before its transaction is committed. *)
NewAbsent ==
  \A r \in Runs : pc[r] \in {"select", "flush", "commit"} /\ new[r] # NoToken
    => row[new[r]] = "absent"

(* A token obtained by an exchange is in the table. *)
SuccessorExists ==
  \A c \in Tokens : parent[c] # NoToken => row[c] # "absent"

(* A request is made with a token that is in the table. *)
OldExists ==
  \A r \in Runs : old[r] # NoToken => row[old[r]] # "absent"

RowInv ==
  NewUnique /\ NewAbsent /\ OldExists /\ SuccessorExists /\ HeldTokensExist /\ ExchangeRevokes

LEMMA RowStep == TypeOK /\ RowInv /\ [Next]_vars => RowInv'
<1> SUFFICES ASSUME TypeOK, RowInv, [Next]_vars PROVE RowInv'
  OBVIOUS
<1> USE RotationAssumption
    DEF RowInv, NewUnique, NewAbsent, OldExists, SuccessorExists, HeldTokensExist, ExchangeRevokes,
        Children, TypeOK, Steps, Operations, table, run, history
<1>1. ASSUME NEW r \in Runs, NEW c \in Tokens, Login(r, c) PROVE RowInv'
  BY <1>1 DEF Login, Start, Fresh
<1>2. ASSUME NEW r \in Runs, NEW t \in Tokens, NEW c \in Tokens, Refresh(r, t, c) PROVE RowInv'
  BY <1>2 DEF Refresh, Start, Fresh
<1>3. ASSUME NEW r \in Runs, NEW t \in Tokens, Logout(r, t) PROVE RowInv'
  BY <1>3 DEF Logout, Start
<1>4. ASSUME NEW r \in Runs, Select(r) PROVE RowInv'
  BY <1>4 DEF Select, Goto, Finish
<1>5. ASSUME NEW r \in Runs, Flush(r) PROVE RowInv'
  BY <1>5 DEF Flush, Goto
<1>6. ASSUME NEW r \in Runs, Commit(r) PROVE RowInv'
  <2>1. \A t \in Tokens : row'[t] = "absent" => row[t] = "absent"
    BY <1>6 DEF Commit, Written
  <2>2. NewUnique' /\ HeldTokensExist' /\ OldExists'
    BY <1>6, <2>1 DEF Commit, Goto
  <2>3. NewAbsent'
    <3> SUFFICES ASSUME NEW s \in Runs, pc'[s] \in {"select", "flush", "commit"},
                        new'[s] # NoToken
                 PROVE  row'[new'[s]] = "absent"
      BY DEF NewAbsent
    <3>1. s # r /\ new'[s] = new[s] /\ pc'[s] = pc[s]
      BY <1>6 DEF Commit, Goto
    <3>2. row[new[s]] = "absent" /\ new[s] # new[r] /\ new[s] # old[r]
      BY <3>1
    <3>3. QED
      BY <1>6, <3>1, <3>2 DEF Commit, Written
  <2>4. SuccessorExists'
    BY <1>6, <2>1 DEF Commit, Written
  <2>5. ExchangeRevokes'
    BY <1>6 DEF Commit, Written
  <2>6. QED
    BY <2>2, <2>3, <2>4, <2>5
<1>7. ASSUME NEW r \in Runs, Reply(r) PROVE RowInv'
  BY <1>7 DEF Reply, Granted, Finish
<1>8. ASSUME NEW r \in Runs, Interrupt(r) PROVE RowInv'
  BY <1>8 DEF Interrupt, Finish
<1>9. ASSUME NEW t \in Tokens, Expire(t) PROVE RowInv'
  BY <1>9 DEF Expire
<1>10. CASE UNCHANGED vars
  BY <1>10 DEF vars
<1>11. QED
  BY <1>1, <1>2, <1>3, <1>4, <1>5, <1>6, <1>7, <1>8, <1>9, <1>10 DEF Next, RunStep

THEOREM RowsKept == Spec => []RowInv
<1>1. Init => RowInv
  BY RotationAssumption
     DEF Init, RowInv, NewUnique, NewAbsent, OldExists, SuccessorExists, HeldTokensExist,
         ExchangeRevokes, Children
<1>2. QED
  BY <1>1, TypeCorrect, RowStep, PTL DEF Spec

(* An exchange revokes the token it consumes, in one step with the creation *)
(* of its successor.                                                        *)
THEOREM ExchangeAtomic == Spec => []ExchangeRevokes
BY RowsKept, PTL DEF RowInv

(* Clients hold committed tokens only. *)
THEOREM HeldCommitted == Spec => []HeldTokensExist
BY RowsKept, PTL DEF RowInv

----------------------------------------------------------------------------
(* No exchange loses the session: the successor of a revoked token is      *)
(* found in the reply of the run that committed it, then with the client.  *)

LEMMA SessionStep == TypeOK /\ RowInv /\ SessionKept /\ [Next]_vars => SessionKept'
<1> SUFFICES ASSUME TypeOK, RowInv, SessionKept, [Next]_vars,
                    NEW v \in Tokens,
                    row'[v] = "revoked", logouts'[v] = 0, faults' = 0
             PROVE  \E c \in Children(v)' :
                      c \in held' \/ \E r \in Runs : pc'[r] = "reply" /\ new'[r] = c
  BY DEF SessionKept
<1> USE RotationAssumption
    DEF RowInv, NewUnique, NewAbsent, OldExists, SuccessorExists, HeldTokensExist, SessionKept,
        Children, TypeOK, Steps, Operations, table, run, history
<1>1. ASSUME NEW r \in Runs, NEW c \in Tokens, Login(r, c) PROVE SessionKept'
  BY <1>1 DEF Login, Start
<1>2. ASSUME NEW r \in Runs, NEW t \in Tokens, NEW c \in Tokens, Refresh(r, t, c)
      PROVE  SessionKept'
  BY <1>2 DEF Refresh, Start
<1>3. ASSUME NEW r \in Runs, NEW t \in Tokens, Logout(r, t) PROVE SessionKept'
  BY <1>3 DEF Logout, Start
<1>4. ASSUME NEW r \in Runs, Select(r) PROVE SessionKept'
  BY <1>4 DEF Select, Goto, Finish
<1>5. ASSUME NEW r \in Runs, Flush(r) PROVE SessionKept'
  BY <1>5 DEF Flush, Goto
<1>6. ASSUME NEW r \in Runs, Commit(r)
      PROVE  \E c \in Children(v)' :
               c \in held' \/ \E s \in Runs : pc'[s] = "reply" /\ new'[s] = c
  <2>1. CASE v = old[r]
    <3>1. op[r] = "refresh"
      BY <1>6, <2>1 DEF Commit
    <3>2. new[r] \in Children(v)' /\ pc'[r] = "reply" /\ new'[r] = new[r]
      BY <1>6, <2>1, <3>1 DEF Commit, Goto
    <3>3. QED
      BY <3>2
  <2>2. CASE v # old[r]
    <3>1. row[v] = "revoked" /\ logouts[v] = 0 /\ faults = 0
      BY <1>6, <2>2 DEF Commit, Written
    <3>2. PICK c \in Children(v) : c \in held \/ \E s \in Runs : pc[s] = "reply" /\ new[s] = c
      BY <3>1
    <3>3. c # new[r]
      BY <1>6, <3>2 DEF Commit
    <3>4. c \in Children(v)'
      BY <1>6, <3>2, <3>3 DEF Commit
    <3>5. c \in held' \/ \E s \in Runs : pc'[s] = "reply" /\ new'[s] = c
      BY <1>6, <3>2 DEF Commit, Goto
    <3>6. QED
      BY <3>4, <3>5
  <2>3. QED
    BY <2>1, <2>2
<1>7. ASSUME NEW r \in Runs, Reply(r)
      PROVE  \E c \in Children(v)' :
               c \in held' \/ \E s \in Runs : pc'[s] = "reply" /\ new'[s] = c
  <2>1. PICK c \in Children(v) : c \in held \/ \E s \in Runs : pc[s] = "reply" /\ new[s] = c
    BY <1>7 DEF Reply
  <2>2. c \in held' \/ \E s \in Runs : pc'[s] = "reply" /\ new'[s] = c
    BY <1>7, <2>1 DEF Reply, Granted, Finish
  <2>3. QED
    BY <1>7, <2>1, <2>2 DEF Reply
<1>8. ASSUME NEW r \in Runs, Interrupt(r) PROVE FALSE
  BY <1>8 DEF Interrupt
<1>9. ASSUME NEW t \in Tokens, Expire(t) PROVE SessionKept'
  BY <1>9 DEF Expire
<1>10. CASE UNCHANGED vars
  BY <1>10 DEF vars
<1>11. QED
  BY <1>1, <1>2, <1>3, <1>4, <1>5, <1>6, <1>7, <1>8, <1>9, <1>10 DEF Next, RunStep

(* Only a fault, a logout or the expiry of a token ends a session. *)
THEOREM SessionSurvives == Spec => []SessionKept
<1>1. Init => SessionKept
  BY DEF Init, SessionKept
<1>2. QED
  BY <1>1, TypeCorrect, RowsKept, SessionStep, PTL DEF Spec

----------------------------------------------------------------------------
(* How often a token can be used *)

(* Runs that have read t as active and may still use it. *)
Selected(t) == {r \in Runs : old[r] = t /\ pc[r] \in {"flush", "commit"}}

Uses(t) == Cardinality(Children(t)) + logouts[t]

(* A token that is not revoked was never used; once it is, its uses and    *)
(* the runs that may still use it are at most as many as the runs.         *)
UseSlack(t) ==
  /\ row[t] # "revoked" => Children(t) = {} /\ logouts[t] = 0
  /\ row[t] = "revoked" => Uses(t) + Cardinality(Selected(t)) <= Cardinality(Runs)

UseInv == \A t \in Tokens : UseSlack(t)

LEMMA SetsFinite ==
  ASSUME NEW t \in Tokens
  PROVE  /\ IsFiniteSet(Selected(t)) /\ Cardinality(Selected(t)) \in Nat
         /\ IsFiniteSet(Children(t)) /\ Cardinality(Children(t)) \in Nat
         /\ Cardinality(Runs) \in Nat
         /\ Cardinality(Selected(t)) <= Cardinality(Runs)
<1>1. Selected(t) \subseteq Runs /\ Children(t) \subseteq Tokens
  BY DEF Selected, Children
<1>2. QED
  BY <1>1, RotationAssumption, FS_Subset, FS_CardinalityType

(* Steps that commit nothing and select no revoked token. *)
LEMMA IdleStep ==
  ASSUME TypeOK, NEW v \in Tokens, UseSlack(v),
         row' = row, parent' = parent, logouts' = logouts,
         row[v] = "revoked" => Selected(v)' \subseteq Selected(v)
  PROVE  UseSlack(v)'
<1>1. Children(v)' = Children(v)
  BY DEF Children
<1>2. CASE row[v] = "revoked"
  <2>1. Cardinality(Selected(v)') \in Nat
        /\ Cardinality(Selected(v)') <= Cardinality(Selected(v))
    BY <1>2, SetsFinite, FS_Subset, FS_CardinalityType
  <2>2. QED
    BY <1>1, <1>2, <2>1, SetsFinite DEF UseSlack, Uses, TypeOK
<1>3. QED
  BY <1>1, <1>2 DEF UseSlack

LEMMA UseStep == TypeOK /\ RowInv /\ UseInv /\ [Next]_vars => UseInv'
<1> SUFFICES ASSUME TypeOK, RowInv, UseInv, [Next]_vars, NEW v \in Tokens
             PROVE  UseSlack(v)'
  BY DEF UseInv
<1>0. UseSlack(v)
  BY DEF UseInv
<1> USE RotationAssumption, <1>0
    DEF TypeOK, Steps, Operations, table, run, history
<1>1. ASSUME NEW r \in Runs, NEW c \in Tokens, Login(r, c) PROVE UseSlack(v)'
  <2>1. Selected(v)' \subseteq Selected(v)
    BY <1>1 DEF Login, Start, Selected
  <2>2. QED
    BY <1>1, <2>1, IdleStep DEF Login, Start
<1>2. ASSUME NEW r \in Runs, NEW t \in Tokens, NEW c \in Tokens, Refresh(r, t, c)
      PROVE  UseSlack(v)'
  <2>1. Selected(v)' \subseteq Selected(v)
    BY <1>2 DEF Refresh, Start, Selected
  <2>2. QED
    BY <1>2, <2>1, IdleStep DEF Refresh, Start
<1>3. ASSUME NEW r \in Runs, NEW t \in Tokens, Logout(r, t) PROVE UseSlack(v)'
  <2>1. Selected(v)' \subseteq Selected(v)
    BY <1>3 DEF Logout, Start, Selected
  <2>2. QED
    BY <1>3, <2>1, IdleStep DEF Logout, Start
<1>4. ASSUME NEW r \in Runs, Select(r) PROVE UseSlack(v)'
  <2>1. row[v] = "revoked" => Selected(v)' \subseteq Selected(v)
    BY <1>4 DEF Select, Active, Goto, Finish, Selected
  <2>2. QED
    BY <1>4, <2>1, IdleStep DEF Select
<1>5. ASSUME NEW r \in Runs, Flush(r) PROVE UseSlack(v)'
  <2>1. Selected(v)' \subseteq Selected(v)
    BY <1>5 DEF Flush, Goto, Selected
  <2>2. QED
    BY <1>5, <2>1, IdleStep DEF Flush
<1>6. ASSUME NEW r \in Runs, Commit(r) PROVE UseSlack(v)'
  <2>1. CASE old[r] = v
    <3>1. r \in Selected(v) /\ Selected(v)' = Selected(v) \ {r}
      BY <1>6, <2>1 DEF Commit, Goto, Selected
    <3>2. Cardinality(Selected(v)') = Cardinality(Selected(v)) - 1
      BY <3>1, SetsFinite, FS_RemoveElement
    <3>3. row'[v] = "revoked"
      BY <1>6, <2>1 DEF Commit, Written
    <3>4. Uses(v)' \in Nat /\ Uses(v)' = Uses(v) + 1
      <4>1. CASE op[r] = "refresh"
        <5>1. new[r] \in Tokens /\ new[r] \notin Children(v)
          BY <1>6, <4>1
             DEF Commit, RowInv, NewAbsent, SuccessorExists, Children
        <5>2. Children(v)' = Children(v) \cup {new[r]}
          BY <1>6, <2>1, <4>1, <5>1 DEF Commit, Children
        <5>3. Cardinality(Children(v)') = Cardinality(Children(v)) + 1
          BY <5>1, <5>2, SetsFinite, FS_AddElement
        <5>4. logouts'[v] = logouts[v]
          BY <1>6, <4>1 DEF Commit
        <5>5. QED
          BY <5>3, <5>4, SetsFinite DEF Uses
      <4>2. CASE op[r] = "logout"
        <5>1. Children(v)' = Children(v)
          BY <1>6, <4>2 DEF Commit, Children
        <5>2. logouts'[v] = logouts[v] + 1
          BY <1>6, <2>1, <4>2 DEF Commit
        <5>3. QED
          BY <5>1, <5>2, SetsFinite DEF Uses
      <4>3. QED
        BY <2>1, <4>1, <4>2
    <3>5. CASE row[v] = "revoked"
      BY <3>2, <3>3, <3>4, <3>5, SetsFinite DEF UseSlack, Uses
    <3>6. CASE row[v] # "revoked"
      <4>1. Uses(v) = 0
        <5>1. Children(v) = {} /\ logouts[v] = 0
          BY <3>6 DEF UseSlack
        <5>2. Cardinality(Children(v)) = 0
          BY <5>1, FS_EmptySet
        <5>3. QED
          BY <5>1, <5>2 DEF Uses
      <4>2. QED
        BY <3>2, <3>3, <3>4, <4>1, SetsFinite DEF UseSlack, Uses
    <3>7. QED
      BY <3>5, <3>6
  <2>2. CASE old[r] # v
    <3>1. Selected(v)' \subseteq Selected(v)
      BY <1>6 DEF Commit, Goto, Selected
    <3>2. Children(v)' = Children(v)
      <4>1. new[r] \in Tokens => parent[new[r]] = NoToken
        BY <1>6 DEF Commit, RowInv, NewAbsent, SuccessorExists
      <4>2. QED
        BY <1>6, <2>2, <4>1 DEF Commit, Children
    <3>3. logouts'[v] = logouts[v]
      BY <1>6, <2>2 DEF Commit
    <3>4. row'[v] = "revoked" <=> row[v] = "revoked"
      BY <1>6, <2>2 DEF Commit, Written, RowInv, NewAbsent
    <3>5. Cardinality(Selected(v)') \in Nat
          /\ Cardinality(Selected(v)') <= Cardinality(Selected(v))
      BY <3>1, SetsFinite, FS_Subset, FS_CardinalityType
    <3>6. QED
      BY <3>2, <3>3, <3>4, <3>5, SetsFinite DEF UseSlack, Uses
  <2>3. QED
    BY <2>1, <2>2
<1>7. ASSUME NEW r \in Runs, Reply(r) PROVE UseSlack(v)'
  <2>1. Selected(v)' \subseteq Selected(v)
    BY <1>7 DEF Reply, Finish, Selected
  <2>2. QED
    BY <1>7, <2>1, IdleStep DEF Reply
<1>8. ASSUME NEW r \in Runs, Interrupt(r) PROVE UseSlack(v)'
  <2>1. Selected(v)' \subseteq Selected(v)
    BY <1>8 DEF Interrupt, Finish, Selected
  <2>2. QED
    BY <1>8, <2>1, IdleStep DEF Interrupt
<1>9. ASSUME NEW t \in Tokens, Expire(t) PROVE UseSlack(v)'
  <2>1. Selected(v)' \subseteq Selected(v)
    BY <1>9 DEF Expire, Selected
  <2>2. QED
    BY <1>9, <2>1, IdleStep DEF Expire
<1>10. CASE UNCHANGED vars
  <2>1. Selected(v)' \subseteq Selected(v)
    BY <1>10 DEF vars, Selected
  <2>2. QED
    BY <1>10, <2>1, IdleStep DEF vars
<1>11. QED
  BY <1>1, <1>2, <1>3, <1>4, <1>5, <1>6, <1>7, <1>8, <1>9, <1>10 DEF Next, RunStep

(* Without a lock between SELECT and COMMIT a token is still used by at    *)
(* most as many calls as can overlap.                                      *)
THEOREM UsesAtMostRuns == Spec => []UsesBounded
<1>1. Init => UseInv
  BY RotationAssumption DEF Init, UseInv, UseSlack, Children
<1>2. TypeOK /\ UseInv => UsesBounded
  <2> SUFFICES ASSUME TypeOK, UseInv, NEW t \in Tokens
               PROVE  Cardinality(Children(t)) + logouts[t] <= Cardinality(Runs)
    BY DEF UsesBounded
  <2>1. CASE row[t] = "revoked"
    BY <2>1, SetsFinite DEF UseInv, UseSlack, Uses, TypeOK
  <2>2. CASE row[t] # "revoked"
    BY <2>2, SetsFinite, FS_EmptySet DEF UseInv, UseSlack
  <2>3. QED
    BY <2>1, <2>2
<1>3. QED
  BY <1>1, <1>2, TypeCorrect, RowsKept, UseStep, PTL DEF Spec

----------------------------------------------------------------------------
(* The table of sessions, in which every change is one step *)

(* A request names a token the client received. *)
OldHeld == \A r \in Runs : old[r] # NoToken => old[r] \in held

LEMMA OldHeldStep == TypeOK /\ OldHeld /\ [Next]_vars => OldHeld'
<1> SUFFICES ASSUME TypeOK, OldHeld, [Next]_vars PROVE OldHeld'
  OBVIOUS
<1> USE RotationAssumption DEF OldHeld, TypeOK, table, run, history
<1>1. ASSUME NEW r \in Runs, NEW c \in Tokens, Login(r, c) PROVE OldHeld'
  BY <1>1 DEF Login, Start
<1>2. ASSUME NEW r \in Runs, NEW t \in Tokens, NEW c \in Tokens, Refresh(r, t, c) PROVE OldHeld'
  BY <1>2 DEF Refresh, Start
<1>3. ASSUME NEW r \in Runs, NEW t \in Tokens, Logout(r, t) PROVE OldHeld'
  BY <1>3 DEF Logout, Start
<1>4. ASSUME NEW r \in Runs, Select(r) PROVE OldHeld'
  BY <1>4 DEF Select, Goto, Finish
<1>5. ASSUME NEW r \in Runs, Flush(r) \/ Commit(r) PROVE OldHeld'
  BY <1>5 DEF Flush, Commit, Goto
<1>6. ASSUME NEW r \in Runs, Reply(r) \/ Interrupt(r) PROVE OldHeld'
  BY <1>6 DEF Reply, Interrupt, Finish
<1>7. ASSUME NEW t \in Tokens, Expire(t) PROVE OldHeld'
  BY <1>7 DEF Expire
<1>8. CASE UNCHANGED vars
  BY <1>8 DEF vars
<1>9. QED
  BY <1>1, <1>2, <1>3, <1>4, <1>5, <1>6, <1>7, <1>8 DEF Next, RunStep

THEOREM RequestsHeld == Spec => []OldHeld
<1>1. Init => OldHeld
  BY DEF Init, OldHeld
<1>2. QED
  BY <1>1, TypeCorrect, OldHeldStep, PTL DEF Spec

(* The tokens of all calls with method o that are past their SELECT. *)
Choices(o) == [r \in Runs |-> Chosen(r, o)]

(* A step of one call changes no other call. *)
LEMMA ChoicesStep ==
  ASSUME NEW r \in Runs, NEW o,
         \A s \in Runs \ {r} : pc'[s] = pc[s] /\ op'[s] = op[s] /\ old'[s] = old[s]
  PROVE  Choices(o)' = [Choices(o) EXCEPT ![r] = Chosen(r, o)']
BY DEF Choices, Chosen

(* Steps that neither look up nor write. *)
LEMMA ChoicesKept ==
  ASSUME NEW r \in Runs, NEW o,
         \A s \in Runs \ {r} : pc'[s] = pc[s] /\ op'[s] = op[s] /\ old'[s] = old[s],
         Chosen(r, o)' = Chosen(r, o)
  PROVE  Choices(o)' = Choices(o)
BY DEF Choices, Chosen

LEMMA SessionsStep ==
  TypeOK /\ RowInv /\ OldHeld /\ [Next]_vars => [Sessions!Next]_Sessions!sessionVars
<1> SUFFICES ASSUME TypeOK, RowInv, OldHeld, [Next]_vars
             PROVE  [Sessions!Next]_Sessions!sessionVars
  OBVIOUS
<1> DEFINE Known == {t \in Tokens : row[t] # "absent"}
           Live  == {t \in Tokens : row[t] = "live"}
<1> USE RotationAssumption DEF table, run, history
<1>0. ASSUME UNCHANGED <<row, expired, held, Choices("refresh"), Choices("logout")>>
      PROVE  UNCHANGED Sessions!sessionVars
  BY <1>0 DEF Sessions!sessionVars, Sessions!rowVars, Sessions!callVars, Choices
<1>1. ASSUME NEW r \in Runs, NEW c \in Tokens, Login(r, c) PROVE UNCHANGED Sessions!sessionVars
  <2>1. Chosen(r, "refresh")' = Chosen(r, "refresh") /\ Chosen(r, "logout")' = Chosen(r, "logout")
    BY <1>1 DEF Login, Start, Chosen, TypeOK
  <2>2. QED
    BY <1>0, <1>1, <2>1, ChoicesKept DEF Login, Start, TypeOK
<1>2. ASSUME NEW r \in Runs, NEW t \in Tokens, NEW c \in Tokens, Refresh(r, t, c)
      PROVE  UNCHANGED Sessions!sessionVars
  <2>1. Chosen(r, "refresh")' = Chosen(r, "refresh") /\ Chosen(r, "logout")' = Chosen(r, "logout")
    BY <1>2 DEF Refresh, Start, Chosen, TypeOK
  <2>2. QED
    BY <1>0, <1>2, <2>1, ChoicesKept DEF Refresh, Start, TypeOK
<1>3. ASSUME NEW r \in Runs, NEW t \in Tokens, Logout(r, t) PROVE UNCHANGED Sessions!sessionVars
  <2>1. Chosen(r, "refresh")' = Chosen(r, "refresh") /\ Chosen(r, "logout")' = Chosen(r, "logout")
    BY <1>3 DEF Logout, Start, Chosen, TypeOK
  <2>2. QED
    BY <1>0, <1>3, <2>1, ChoicesKept DEF Logout, Start, TypeOK
<1>4. ASSUME NEW r \in Runs, Select(r) PROVE [Sessions!Next]_Sessions!sessionVars
  <2>1. CASE pc'[r] # "flush"
    <3>1. Chosen(r, "refresh")' = Chosen(r, "refresh") /\ Chosen(r, "logout")' = Chosen(r, "logout")
      BY <1>4, <2>1 DEF Select, Goto, Finish, Chosen, TypeOK
    <3>2. \A s \in Runs \ {r} : pc'[s] = pc[s] /\ op'[s] = op[s] /\ old'[s] = old[s]
      BY <1>4 DEF Select, Goto, Finish, TypeOK
    <3>3. QED
      BY <1>0, <1>4, <3>1, <3>2, ChoicesKept DEF Select
  <2>2. CASE pc'[r] = "flush"
    <3>1. /\ Active(old[r]) /\ Goto(r, "flush") /\ old[r] # NoToken /\ old[r] \in Tokens
          /\ pc[r] = "select" /\ op[r] \in {"refresh", "logout"}
          /\ UNCHANGED <<row, expired, held>>
      BY <1>4, <2>2 DEF Select, Goto, Finish, TypeOK, Operations
    <3>2. Chosen(r, "refresh") = NoToken /\ Chosen(r, "logout") = NoToken
      BY <3>1 DEF Chosen
    <3>3. old[r] \in held /\ old[r] \in Live /\ old[r] \notin expired
      BY <3>1 DEF OldHeld, Active
    <3>4. \A s \in Runs \ {r} : pc'[s] = pc[s] /\ op'[s] = op[s] /\ old'[s] = old[s]
      BY <3>1 DEF Goto, TypeOK
    <3>5. CASE op[r] = "refresh"
      <4>1. Chosen(r, "refresh")' = old[r] /\ Chosen(r, "logout")' = NoToken
        BY <3>1, <3>5 DEF Goto, Chosen, TypeOK
      <4>2. Choices("refresh")' = [Choices("refresh") EXCEPT ![r] = old[r]]
        BY <3>4, <4>1, ChoicesStep
      <4>3. Choices("logout")' = Choices("logout")
        BY <3>2, <3>4, <4>1, ChoicesKept
      <4>4. Sessions!Admit(r, old[r])
        BY <3>1, <3>2, <3>3, <4>2, <4>3
           DEF Sessions!Admit, Sessions!Free, Sessions!rowVars, Choices
      <4>5. QED
        BY <3>1, <4>4 DEF Sessions!Next
    <3>6. CASE op[r] = "logout"
      <4>1. Chosen(r, "logout")' = old[r] /\ Chosen(r, "refresh")' = NoToken
        BY <3>1, <3>6 DEF Goto, Chosen, TypeOK
      <4>2. Choices("logout")' = [Choices("logout") EXCEPT ![r] = old[r]]
        BY <3>4, <4>1, ChoicesStep
      <4>3. Choices("refresh")' = Choices("refresh")
        BY <3>2, <3>4, <4>1, ChoicesKept
      <4>4. Sessions!Depart(r, old[r])
        BY <3>1, <3>2, <3>3, <4>2, <4>3
           DEF Sessions!Depart, Sessions!Free, Sessions!rowVars, Choices
      <4>5. QED
        BY <3>1, <4>4 DEF Sessions!Next
    <3>7. QED
      BY <3>1, <3>5, <3>6
  <2>3. QED
    BY <2>1, <2>2
<1>5. ASSUME NEW r \in Runs, Flush(r) PROVE UNCHANGED Sessions!sessionVars
  <2>1. Chosen(r, "refresh")' = Chosen(r, "refresh") /\ Chosen(r, "logout")' = Chosen(r, "logout")
    BY <1>5 DEF Flush, Goto, Chosen, TypeOK
  <2>2. QED
    BY <1>0, <1>5, <2>1, ChoicesKept DEF Flush, Goto, TypeOK
<1>6. ASSUME NEW r \in Runs, Commit(r) PROVE Sessions!Next
  <2>1. \A s \in Runs \ {r} : pc'[s] = pc[s] /\ op'[s] = op[s] /\ old'[s] = old[s]
    BY <1>6 DEF Commit, Goto, TypeOK
  <2>2. Chosen(r, "refresh")' = NoToken /\ Chosen(r, "logout")' = NoToken
    BY <1>6 DEF Commit, Goto, Chosen, TypeOK
  <2>3. /\ Choices("refresh")' = [Choices("refresh") EXCEPT ![r] = NoToken]
        /\ Choices("logout")' = [Choices("logout") EXCEPT ![r] = NoToken]
    BY <2>1, <2>2, ChoicesStep
  <2>4. pc[r] = "commit" /\ row' = Written(r) /\ UNCHANGED <<expired, held>>
    BY <1>6 DEF Commit
  <2>5. CASE op[r] = "login"
    <3>1. PICK c \in Tokens : c = new[r] /\ c \notin Known /\ old[r] = NoToken
      BY <2>4, <2>5 DEF TypeOK, RowInv, NewAbsent
    <3>2. Known' = Known \cup {c} /\ Live' = Live \cup {c}
      BY <2>4, <3>1 DEF Written, TypeOK
    <3>3. Choices("refresh")' = Choices("refresh") /\ Choices("logout")' = Choices("logout")
      BY <2>1, <2>2, <2>5, ChoicesKept DEF Chosen
    <3>4. Sessions!Issue(c)
      BY <2>4, <3>1, <3>2, <3>3 DEF Sessions!Issue, Sessions!callVars, Choices
    <3>5. QED
      BY <3>4 DEF Sessions!Next
  <2>6. CASE op[r] = "refresh"
    <3>1. PICK c \in Tokens :
            /\ c = new[r] /\ c \notin Known /\ old[r] \in Known
            /\ Chosen(r, "refresh") = old[r] /\ old[r] # NoToken
      BY <2>4, <2>6 DEF TypeOK, RowInv, NewAbsent, OldExists, Chosen
    <3>2. Known' = Known \cup {c} /\ Live' = (Live \ {old[r]}) \cup {c}
      BY <2>4, <3>1 DEF Written, TypeOK
    <3>3. Choices("logout")' = Choices("logout")
      BY <2>1, <2>2, <2>6, ChoicesKept DEF Chosen
    <3>4. Sessions!Exchange(r, c)
      BY <2>3, <2>4, <3>1, <3>2, <3>3 DEF Sessions!Exchange, Choices
    <3>5. QED
      BY <3>4 DEF Sessions!Next
  <2>7. CASE op[r] = "logout"
    <3>1. /\ new[r] = NoToken /\ old[r] \in Known
          /\ Chosen(r, "logout") = old[r] /\ old[r] # NoToken
      BY <2>4, <2>7 DEF TypeOK, RowInv, OldExists, Chosen
    <3>2. Known' = Known /\ Live' = Live \ {old[r]}
      BY <2>4, <3>1 DEF Written, TypeOK
    <3>3. Choices("refresh")' = Choices("refresh")
      BY <2>1, <2>2, <2>7, ChoicesKept DEF Chosen
    <3>4. Sessions!Revoke(r)
      BY <2>3, <2>4, <3>1, <3>2, <3>3 DEF Sessions!Revoke, Choices
    <3>5. QED
      BY <3>4 DEF Sessions!Next
  <2>8. QED
    BY <2>5, <2>6, <2>7 DEF TypeOK, Operations
<1>7. ASSUME NEW r \in Runs, Reply(r) PROVE [Sessions!Next]_Sessions!sessionVars
  <2>1. Chosen(r, "refresh")' = Chosen(r, "refresh") /\ Chosen(r, "logout")' = Chosen(r, "logout")
    BY <1>7 DEF Reply, Finish, Chosen, TypeOK
  <2>2. \A s \in Runs \ {r} : pc'[s] = pc[s] /\ op'[s] = op[s] /\ old'[s] = old[s]
    BY <1>7 DEF Reply, Finish, TypeOK
  <2>3. Choices("refresh")' = Choices("refresh") /\ Choices("logout")' = Choices("logout")
    BY <2>1, <2>2, ChoicesKept
  <2>4. CASE Granted(r) = {}
    BY <1>0, <1>7, <2>3, <2>4 DEF Reply
  <2>5. CASE Granted(r) # {}
    <3>1. new[r] \in Known /\ held' = held \cup {new[r]}
      BY <1>7, <2>5 DEF Reply, Granted
    <3>2. Sessions!Hand(new[r])
      BY <1>7, <2>3, <3>1 DEF Reply, Sessions!Hand, Sessions!callVars, Choices
    <3>3. QED
      BY <3>1, <3>2 DEF Sessions!Next
  <2>6. QED
    BY <2>4, <2>5
<1>8. ASSUME NEW r \in Runs, Interrupt(r) PROVE Sessions!Next
  <2>1. Chosen(r, "refresh")' = NoToken /\ Chosen(r, "logout")' = NoToken
    BY <1>8 DEF Interrupt, Finish, Chosen, TypeOK
  <2>2. \A s \in Runs \ {r} : pc'[s] = pc[s] /\ op'[s] = op[s] /\ old'[s] = old[s]
    BY <1>8 DEF Interrupt, Finish, TypeOK
  <2>3. /\ Choices("refresh")' = [Choices("refresh") EXCEPT ![r] = NoToken]
        /\ Choices("logout")' = [Choices("logout") EXCEPT ![r] = NoToken]
    BY <2>1, <2>2, ChoicesStep
  <2>4. Sessions!Dismiss(r)
    BY <1>8, <2>3 DEF Interrupt, Sessions!Dismiss, Sessions!rowVars, Choices
  <2>5. QED
    BY <2>4 DEF Sessions!Next
<1>9. ASSUME NEW t \in Tokens, Expire(t) PROVE Sessions!Next
  <2>1. Choices("refresh")' = Choices("refresh") /\ Choices("logout")' = Choices("logout")
    BY <1>9 DEF Expire, Choices, Chosen
  <2>2. Sessions!Expire(t)
    BY <1>9, <2>1 DEF Expire, Sessions!Expire, Sessions!callVars, Choices
  <2>3. QED
    BY <2>2 DEF Sessions!Next
<1>10. CASE UNCHANGED vars
  BY <1>0, <1>10 DEF vars, Choices, Chosen
<1>11. QED
  BY <1>1, <1>2, <1>3, <1>4, <1>5, <1>6, <1>7, <1>8, <1>9, <1>10 DEF Next, RunStep

(* The statements of overlapping calls amount to look-ups and atomic       *)
(* exchanges or logouts, whatever crashes come in between.                 *)
THEOREM ImplementsSessions == Spec => ImplementsSessionTable
<1>1. Init => Sessions!Init
  BY DEF Init, Sessions!Init, Chosen
<1>2. QED
  BY <1>1, TypeCorrect, RowsKept, RequestsHeld, SessionsStep, PTL
     DEF Spec, ImplementsSessionTable, Sessions!Spec

----------------------------------------------------------------------------
(* The repository as it is *)

(* A refresh creates nothing: its run never gets past the look-up, and the *)
(* token it would have created is never stored.                            *)
RefreshFutile ==
  \A r \in Runs : op[r] = "refresh" =>
    pc[r] \in {"select", "reply"} /\ row[new[r]] = "absent"

(* No token was exchanged for another one, and no reply to a refresh has   *)
(* tokens for the client.                                                  *)
RefreshesNothing ==
  /\ \A t \in Tokens : parent[t] = NoToken
  /\ \A r \in Runs : op[r] = "refresh" /\ pc[r] = "reply" => Granted(r) = {}

LEMMA FutileStep ==
  ASSUME ~AccountLoads, TypeOK, RowInv, RefreshFutile, RefreshesNothing, [Next]_vars
  PROVE  RefreshFutile' /\ RefreshesNothing'
<1> USE RotationAssumption
    DEF RefreshFutile, RefreshesNothing, Granted, RowInv, NewUnique, TypeOK, Steps, Operations,
        table, run, history
<1>1. ASSUME NEW r \in Runs, NEW c \in Tokens, Login(r, c)
      PROVE  RefreshFutile' /\ RefreshesNothing'
  BY <1>1 DEF Login, Start
<1>2. ASSUME NEW r \in Runs, NEW t \in Tokens, NEW c \in Tokens, Refresh(r, t, c)
      PROVE  RefreshFutile' /\ RefreshesNothing'
  BY <1>2 DEF Refresh, Start, Fresh
<1>3. ASSUME NEW r \in Runs, NEW t \in Tokens, Logout(r, t)
      PROVE  RefreshFutile' /\ RefreshesNothing'
  BY <1>3 DEF Logout, Start
<1>4. ASSUME NEW r \in Runs, Select(r) PROVE RefreshFutile' /\ RefreshesNothing'
  BY <1>4 DEF Select, Goto, Finish
<1>5. ASSUME NEW r \in Runs, Flush(r) PROVE RefreshFutile' /\ RefreshesNothing'
  BY <1>5 DEF Flush, Goto
<1>6. ASSUME NEW r \in Runs, Commit(r) PROVE RefreshFutile' /\ RefreshesNothing'
  <2>1. op[r] # "refresh" /\ UNCHANGED <<op, new, parent>> /\ pc' = [pc EXCEPT ![r] = "reply"]
    BY <1>6 DEF Commit, Goto
  <2>2. ASSUME NEW s \in Runs, op[s] = "refresh" PROVE row'[new[s]] = "absent"
    <3>1. new[s] # new[r] /\ row[new[s]] = "absent" /\ new[s] \in Tokens
      BY <2>1, <2>2
    <3>2. new[s] # old[r]
      BY <3>1, <1>6 DEF OldExists
    <3>3. QED
      BY <1>6, <3>1, <3>2 DEF Commit, Written
  <2>3. QED
    BY <2>1, <2>2
<1>7. ASSUME NEW r \in Runs, Reply(r) PROVE RefreshFutile' /\ RefreshesNothing'
  BY <1>7 DEF Reply, Finish
<1>8. ASSUME NEW r \in Runs, Interrupt(r) PROVE RefreshFutile' /\ RefreshesNothing'
  BY <1>8 DEF Interrupt, Finish
<1>9. ASSUME NEW t \in Tokens, Expire(t) PROVE RefreshFutile' /\ RefreshesNothing'
  BY <1>9 DEF Expire
<1>10. CASE UNCHANGED vars
  BY <1>10 DEF vars
<1>11. QED
  BY <1>1, <1>2, <1>3, <1>4, <1>5, <1>6, <1>7, <1>8, <1>9, <1>10 DEF Next, RunStep

(* auth_service.py, line 189: as nothing loads the account of the old      *)
(* token, no refresh ever succeeds, although README.md, line 19, promises  *)
(* the whole life cycle of refresh tokens: the only tokens a client gets   *)
(* are those of its logins.                                                *)
THEOREM NoRefreshSucceeds == ~AccountLoads /\ Spec => []RefreshesNothing
<1>1. Init => RefreshFutile /\ RefreshesNothing
  BY DEF Init, RefreshFutile, RefreshesNothing
<1>2. CASE ~AccountLoads
  <2>1. TypeOK /\ RowInv /\ RefreshFutile /\ RefreshesNothing /\ [Next]_vars
          => RefreshFutile' /\ RefreshesNothing'
    BY <1>2, FutileStep
  <2>2. QED
    BY <1>1, <2>1, TypeCorrect, RowsKept, PTL DEF Spec
<1>3. CASE AccountLoads
  BY <1>3
<1>4. QED
  BY <1>2, <1>3
=============================================================================
