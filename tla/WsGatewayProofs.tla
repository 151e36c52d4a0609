--------------------------- MODULE WsGatewayProofs ---------------------------
(***************************************************************************)
(* Safety of WsGateway for every number of connections, events and units   *)
(* of the idle limit, and the implementation of EventAudience.             *)
(***************************************************************************)
EXTENDS WsGateway, TLAPS

(* Every step keeps the types. *)
LEMMA TypeStep == TypeOK /\ [Next]_vars => TypeOK'
<1> SUFFICES ASSUME TypeOK, [Next]_vars PROVE TypeOK'
  OBVIOUS
<1> USE GatewayAssumption DEF TypeOK, Steps, endpoint, table, checker, broadcast, Goto, Disconnect, Leave
<1>1. ASSUME NEW s \in Sockets, Connect(s) PROVE TypeOK'
  BY <1>1 DEF Connect
<1>2. ASSUME NEW s \in Sockets, Frame(s) PROVE TypeOK'
  <2>1. CASE Receive(s) /\ Touch(s) /\ UNCHANGED <<active, types>>
    <3>1. age' \in [Sockets -> 0..(IdleTimeout + 1)]
      BY <2>1 DEF Touch
    <3>2. seen' \in [Sockets -> 0..(IdleTimeout + 1)]
      BY <2>1 DEF Touch
    <3>3. pc' \in [Sockets -> Steps]
      BY <2>1 DEF Receive
    <3>4. UNCHANGED <<open, peer, todo, victim, broadcast>>
      BY <2>1 DEF Receive
    <3>5. QED
      BY <2>1, <3>1, <3>2, <3>3, <3>4
  <2>2. CASE Receive(s) /\ Leave(s) /\ UNCHANGED seen
    BY <2>2 DEF Receive
  <2>3. CASE BinaryFrame(s) /\ s \in open
    BY <2>3 DEF BinaryFrame
  <2>4. CASE BinaryFrame(s) /\ s \notin open
    <3>1. Leave(s) /\ UNCHANGED <<open, peer, checker, broadcast>>
      BY <2>4 DEF BinaryFrame
    <3>2. QED
      BY <3>1
  <2>5. QED
    BY <1>2, <2>1, <2>2, <2>3, <2>4 DEF Frame, Receive
<1>3. ASSUME NEW s \in Sockets, EndpointStep(s) PROVE TypeOK'
  <2>1. CASE Refuse(s)
    BY <2>1 DEF Refuse
  <2>2. CASE Accept(s)
    BY <2>2 DEF Accept
  <2>3. CASE Write(s)
    BY <2>3 DEF Write
  <2>4. CASE WriteFails(s)
    BY <2>4 DEF WriteFails
  <2>5. CASE CloseReturns(s)
    BY <2>5 DEF CloseReturns
  <2>6. CASE Disconnected(s)
    BY <2>6 DEF Disconnected
  <2>7. QED
    BY <1>3, <2>1, <2>2, <2>3, <2>4, <2>5, <2>6 DEF EndpointStep
<1>4. ASSUME NEW s \in Sockets, ClientLeaves(s) \/ ClientVanishes(s) PROVE TypeOK'
  BY <1>4 DEF ClientLeaves, ClientVanishes
<1>5. CASE Wake
  BY <1>5 DEF Wake
<1>6. ASSUME NEW s \in Sockets, Visit(s) PROVE TypeOK'
  <2>1. CASE UNCHANGED table
    BY <1>6, <2>1 DEF Visit
  <2>2. CASE Disconnect(s)
    BY <1>6, <2>2 DEF Visit
  <2>3. QED
    BY <1>6, <2>1, <2>2 DEF Visit
<1>7. CASE VictimClosed
  BY <1>7 DEF VictimClosed
<1>8. ASSUME NEW e \in Events, Broadcast(e) \/ Broadcasted(e) PROVE TypeOK'
  BY <1>8 DEF Broadcast, Broadcasted
<1>9. ASSUME NEW e \in Events, NEW s \in Sockets, Send(e, s) PROVE TypeOK'
  <2>1. CASE UNCHANGED table
    BY <1>9, <2>1 DEF Send
  <2>2. CASE Disconnect(s)
    BY <1>9, <2>2 DEF Send
  <2>3. QED
    BY <1>9, <2>1, <2>2 DEF Send
<1>10. CASE Tick
  BY <1>10 DEF Tick, Idle
<1>11. CASE UNCHANGED vars
  BY <1>11 DEF vars
<1>12. QED
  BY <1>1, <1>2, <1>3, <1>4, <1>5, <1>6, <1>7, <1>8, <1>9, <1>10, <1>11
     DEF Next, CheckerStep, BroadcastStep

(* Type correctness of every reachable state; the two dictionaries of the *)
(* connection manager have the same keys.                                 *)
THEOREM TypeCorrect == Spec => []TypeOK
<1>1. Init => TypeOK
  BY GatewayAssumption DEF Init, TypeOK, Steps
<1>2. QED
  BY <1>1, TypeStep, PTL DEF Spec

----------------------------------------------------------------------------
(* The table and the endpoints *)

(* The socket the idle checker is about to remove is closed for good. *)
VictimShut == victim # NoSocket => victim \notin open /\ pc[victim] # "new"

TableInv == NoGhosts /\ NoOrphans /\ VictimShut

LEMMA TableStep == TypeOK /\ TableInv /\ [Next]_vars => TableInv'
<1> SUFFICES ASSUME TypeOK, TableInv, [Next]_vars PROVE TableInv'
  OBVIOUS
<1> USE GatewayAssumption
    DEF TypeOK, TableInv, NoGhosts, NoOrphans, VictimShut, Steps, endpoint, table, checker, broadcast,
        Goto, Disconnect, Leave
<1>1. ASSUME NEW s \in Sockets, Connect(s) PROVE TableInv'
  BY <1>1 DEF Connect
<1>2. ASSUME NEW s \in Sockets, Frame(s) PROVE TableInv'
  BY <1>2 DEF Frame, Receive, BinaryFrame, Touch
<1>3. ASSUME NEW s \in Sockets, EndpointStep(s) PROVE TableInv'
  BY <1>3 DEF EndpointStep, Refuse, Accept, Write, WriteFails, CloseReturns, Disconnected
<1>4. ASSUME NEW s \in Sockets, ClientLeaves(s) \/ ClientVanishes(s) PROVE TableInv'
  BY <1>4 DEF ClientLeaves, ClientVanishes
<1>5. CASE Wake
  BY <1>5 DEF Wake
<1>6. ASSUME NEW s \in Sockets, Visit(s) PROVE TableInv'
  BY <1>6 DEF Visit
<1>7. CASE VictimClosed
  BY <1>7 DEF VictimClosed
<1>8. ASSUME NEW e \in Events, Broadcast(e) \/ Broadcasted(e) PROVE TableInv'
  BY <1>8 DEF Broadcast, Broadcasted
<1>9. ASSUME NEW e \in Events, NEW s \in Sockets, Send(e, s) PROVE TableInv'
  BY <1>9 DEF Send
<1>10. CASE Tick
  BY <1>10 DEF Tick
<1>11. CASE UNCHANGED vars
  BY <1>11 DEF vars
<1>12. QED
  BY <1>1, <1>2, <1>3, <1>4, <1>5, <1>6, <1>7, <1>8, <1>9, <1>10, <1>11
     DEF Next, CheckerStep, BroadcastStep

LEMMA TableKept == Spec => [](TypeOK /\ TableInv)
<1>1. Init => TableInv
  BY GatewayAssumption DEF Init, TableInv, NoGhosts, NoOrphans, VictimShut
<1>2. QED
  BY <1>1, TypeCorrect, TableStep, PTL DEF Spec

(* No entry of the connection table outlives its endpoint. *)
THEOREM NoGhostEntries == Spec => []NoGhosts
<1>1. TableInv => NoGhosts
  BY DEF TableInv
<1>2. QED
  BY <1>1, TableKept, PTL

(* A socket that is open and served has its entry in the table. *)
THEOREM NoOrphanSockets == Spec => []NoOrphans
<1>1. TableInv => NoOrphans
  BY DEF TableInv
<1>2. QED
  BY <1>1, TableKept, PTL

----------------------------------------------------------------------------
(* Snapshots: what a broadcast and the idle checker still hold of a table  *)
(* that has moved on.                                                      *)

Entered(s) == pc[s] \notin {"new", "validate"}

(* A snapshot names only sockets that were once in the table, and those    *)
(* never come back into it, so that what it recorded of them stays true.   *)
SnapshotsEntered ==
  /\ \A s \in todo : Entered(s)
  /\ \A e \in Events : \A s \in aimed[e] : Entered(s)

(* An endpoint that has not begun or is over has no open socket. *)
OutsideShut == \A s \in Sockets : pc[s] \in {"new", "failing", "done"} => s \notin open

(* What the checker noted of an entry it has still to visit is no more     *)
(* than its age by now.                                                    *)
SeenNotAhead == \A s \in todo \cap active : seen[s] <= age[s]

(* The clients a broadcast is done with have got the event, or are gone. *)
ServedSoFar ==
  \A e \in Events :
    /\ stage[e] = "done" => sending[e] = {}
    /\ \A s \in aimed[e] \ sending[e] : s \in open /\ peer[s] = "up" => e \in got[s]

SnapshotInv == SnapshotsEntered /\ OutsideShut /\ SeenNotAhead /\ ServedSoFar

LEMMA SnapshotStep == TypeOK /\ TableInv /\ SnapshotInv /\ [Next]_vars => SnapshotInv'
<1> SUFFICES ASSUME TypeOK, TableInv, SnapshotInv, [Next]_vars PROVE SnapshotInv'
  OBVIOUS
<1> USE GatewayAssumption
    DEF TypeOK, TableInv, NoGhosts, NoOrphans, SnapshotInv, SnapshotsEntered, OutsideShut,
        SeenNotAhead, ServedSoFar, Entered, Steps, endpoint, table, checker, broadcast,
        Goto, Disconnect, Leave
<1>1. ASSUME NEW s \in Sockets, Connect(s) PROVE SnapshotInv'
  BY <1>1 DEF Connect
<1>2. ASSUME NEW s \in Sockets, Frame(s) PROVE SnapshotInv'
  <2>1. CASE Receive(s)
    BY <2>1 DEF Receive, Touch
  <2>2. CASE BinaryFrame(s)
    BY <2>2 DEF BinaryFrame
  <2>3. QED
    BY <1>2, <2>1, <2>2 DEF Frame
<1>3. ASSUME NEW s \in Sockets, EndpointStep(s) PROVE SnapshotInv'
  <2>1. CASE Refuse(s)
    BY <2>1 DEF Refuse
  <2>2. CASE Accept(s)
    BY <2>2 DEF Accept
  <2>3. CASE Write(s)
    BY <2>3 DEF Write
  <2>4. CASE WriteFails(s)
    BY <2>4 DEF WriteFails
  <2>5. CASE CloseReturns(s)
    BY <2>5 DEF CloseReturns
  <2>6. CASE Disconnected(s)
    BY <2>6 DEF Disconnected
  <2>7. QED
    BY <1>3, <2>1, <2>2, <2>3, <2>4, <2>5, <2>6 DEF EndpointStep
<1>4. ASSUME NEW s \in Sockets, ClientLeaves(s) \/ ClientVanishes(s) PROVE SnapshotInv'
  BY <1>4 DEF ClientLeaves, ClientVanishes
<1>5. CASE Wake
  BY <1>5 DEF Wake
<1>6. ASSUME NEW s \in Sockets, Visit(s) PROVE SnapshotInv'
  BY <1>6 DEF Visit
<1>7. CASE VictimClosed
  BY <1>7 DEF VictimClosed
<1>8. ASSUME NEW e \in Events, Broadcast(e) PROVE SnapshotInv'
  BY <1>8 DEF Broadcast
<1>9. ASSUME NEW e \in Events, Broadcasted(e) PROVE SnapshotInv'
  BY <1>9 DEF Broadcasted
<1>10. ASSUME NEW e \in Events, NEW s \in Sockets, Send(e, s) PROVE SnapshotInv'
  BY <1>10 DEF Send
<1>11. CASE Tick
  BY <1>11 DEF Tick, Idle
<1>12. CASE UNCHANGED vars
  BY <1>12 DEF vars
<1>13. QED
  BY <1>1, <1>2, <1>3, <1>4, <1>5, <1>6, <1>7, <1>8, <1>9, <1>10, <1>11, <1>12
     DEF Next, CheckerStep, BroadcastStep

LEMMA SnapshotKept == Spec => [](TypeOK /\ SnapshotInv)
<1>1. Init => SnapshotInv
  BY DEF Init, SnapshotInv, SnapshotsEntered, OutsideShut, SeenNotAhead, ServedSoFar
<1>2. QED
  BY <1>1, TableKept, SnapshotStep, PTL DEF Spec

(* Every client that is still there when a broadcast ends got the event,  *)
(* if it was connected when the broadcast began.                          *)
THEOREM BroadcastComplete == Spec => []EventReachesAll
<1>1. SnapshotInv => EventReachesAll
  BY DEF SnapshotInv, ServedSoFar, EventReachesAll
<1>2. QED
  BY <1>1, SnapshotKept, PTL

(* The idle checker closes idle connections only, whatever happened while *)
(* it waited for the close of others.                                     *)
THEOREM IdleClosesOnlyIdle == Spec => IdleCloseJustified
<1>1. TypeOK /\ SnapshotInv /\ [Next]_vars
        => [\A s \in Sockets : victim' = s /\ victim # s => Idle(age[s])]_vars
  <2> SUFFICES ASSUME TypeOK, SnapshotInv, Next, NEW s \in Sockets, victim' = s, victim # s
               PROVE Idle(age[s])
    OBVIOUS
  <2> USE GatewayAssumption DEF checker
  <2>1. Visit(s) \/ UNCHANGED victim
    <3>1. ASSUME NEW t \in Sockets, Visit(t) PROVE Visit(s) \/ UNCHANGED victim
      BY <3>1 DEF Visit
    <3>2. CASE VictimClosed
      BY <3>2 DEF VictimClosed
    <3>3. CASE Wake
      BY <3>3 DEF Wake
    <3>4. ASSUME NEW t \in Sockets, Connect(t) \/ Frame(t) \/ EndpointStep(t) PROVE UNCHANGED victim
      BY <3>4 DEF Connect, Frame, Receive, BinaryFrame, EndpointStep, Refuse, Accept, Write,
                  WriteFails, CloseReturns, Disconnected
    <3>5. ASSUME NEW t \in Sockets, ClientLeaves(t) \/ ClientVanishes(t) PROVE UNCHANGED victim
      BY <3>5 DEF ClientLeaves, ClientVanishes
    <3>6. ASSUME NEW e \in Events, BroadcastStep(e) PROVE UNCHANGED victim
      BY <3>6 DEF BroadcastStep, Broadcast, Send, Broadcasted
    <3>7. CASE Tick
      BY <3>7 DEF Tick
    <3>8. QED
      BY <3>1, <3>2, <3>3, <3>4, <3>5, <3>6, <3>7 DEF Next, CheckerStep
  <2>2. s \in todo /\ s \in active /\ Idle(seen[s])
    BY <2>1 DEF Visit
  <2>3. seen[s] <= age[s]
    BY <2>2 DEF SnapshotInv, SeenNotAhead
  <2>4. seen[s] \in Nat /\ age[s] \in Nat
    BY DEF TypeOK
  <2>5. QED
    BY <2>2, <2>3, <2>4 DEF Idle
<1>2. QED
  BY <1>1, SnapshotKept, PTL DEF Spec, IdleCloseJustified

----------------------------------------------------------------------------
(* The promise to the clients: EventAudience *)

(* What a broadcast has still to send, it sends while it runs, and to the *)
(* clients of its snapshot only.                                          *)
SendsAsAimed ==
  \A e \in Events : sending[e] \subseteq aimed[e] /\ (stage[e] # "sending" => sending[e] = {})

LEMMA SendsStep == TypeOK /\ SendsAsAimed /\ [Next]_vars => SendsAsAimed'
<1> SUFFICES ASSUME TypeOK, SendsAsAimed, [Next]_vars PROVE SendsAsAimed'
  OBVIOUS
<1> USE DEF TypeOK, SendsAsAimed, broadcast
<1>1. ASSUME UNCHANGED <<sending, stage, aimed>> PROVE SendsAsAimed'
  BY <1>1
<1>2. ASSUME NEW s \in Sockets, Connect(s) \/ Frame(s) \/ EndpointStep(s) PROVE SendsAsAimed'
  BY <1>1, <1>2
     DEF Connect, Frame, Receive, BinaryFrame, EndpointStep, Refuse, Accept, Write, WriteFails,
         CloseReturns, Disconnected
<1>3. ASSUME NEW s \in Sockets, ClientLeaves(s) \/ ClientVanishes(s) PROVE SendsAsAimed'
  BY <1>1, <1>3 DEF ClientLeaves, ClientVanishes
<1>4. CASE CheckerStep
  BY <1>1, <1>4 DEF CheckerStep, Wake, Visit, VictimClosed
<1>5. ASSUME NEW e \in Events, Broadcast(e) \/ Broadcasted(e) PROVE SendsAsAimed'
  BY <1>5 DEF Broadcast, Broadcasted
<1>6. ASSUME NEW e \in Events, NEW s \in Sockets, Send(e, s) PROVE SendsAsAimed'
  BY <1>6 DEF Send
<1>7. CASE Tick
  BY <1>1, <1>7 DEF Tick
<1>8. CASE UNCHANGED vars
  BY <1>1, <1>8 DEF vars
<1>9. QED
  BY <1>2, <1>3, <1>4, <1>5, <1>6, <1>7, <1>8 DEF Next, BroadcastStep

LEMMA SendsKept == Spec => [](TypeOK /\ TableInv /\ SnapshotInv /\ SendsAsAimed)
<1>1. Init => SendsAsAimed
  BY DEF Init, SendsAsAimed
<1>2. QED
  BY <1>1, TableKept, SnapshotKept, SendsStep, PTL DEF Spec

Decided == {s \in Sockets : Entered(s)}
Members == active \cap open
Here    == {s \in Sockets : peer[s] = "up"}

(* A client is decided upon when its endpoint goes past the validation. *)
LEMMA DecidedStep ==
  ASSUME TypeOK, NEW s \in Sockets, NEW step \in Steps, Goto(s, step), step \notin {"new", "validate"}
  PROVE  Decided' = Decided \cup {s}
BY DEF Decided, Entered, Goto, TypeOK

(* Every step of the gateway is a step of its promise, or none of it. *)
LEMMA AudienceStep ==
  TypeOK /\ TableInv /\ SnapshotInv /\ SendsAsAimed /\ [Next]_vars
    => [Audience!Next]_Audience!audienceVars
<1> SUFFICES ASSUME TypeOK, TableInv, SnapshotInv, SendsAsAimed, [Next]_vars
             PROVE  [Audience!Next]_Audience!audienceVars
  OBVIOUS
<1> USE DEF endpoint, table, checker, broadcast
<1>0. /\ Decided = {s \in Sockets : pc[s] \notin {"new", "validate"}}
      /\ Decided' = {s \in Sockets : pc'[s] \notin {"new", "validate"}}
      /\ Members \subseteq Decided
  BY DEF Decided, Entered, Members, TypeOK, TableInv, NoGhosts
<1>1. ASSUME UNCHANGED <<Decided, Members, Here, stage, aimed, got>>
      PROVE  UNCHANGED Audience!audienceVars
  BY <1>0, <1>1
     DEF Audience!audienceVars, Audience!doorVars, Audience!eventVars, Members, Here
<1>2. ASSUME NEW s \in Sockets, Members' = Members \ {s}, UNCHANGED <<Decided, Here, stage, aimed, got>>
      PROVE  Audience!Next
  <2>1. Audience!Leave(s)
    BY <1>0, <1>2 DEF Audience!Leave, Audience!eventVars, Members, Here
  <2>2. QED
    BY <2>1 DEF Audience!Next
<1>3. ASSUME NEW s \in Sockets, s \notin Decided, Decided' = Decided \cup {s},
             UNCHANGED <<Members, Here, stage, aimed, got>>
      PROVE  Audience!Next
  <2>1. Audience!Refuse(s)
    BY <1>0, <1>3 DEF Audience!Refuse, Audience!eventVars, Members, Here
  <2>2. QED
    BY <2>1 DEF Audience!Next
<1>4. ASSUME NEW s \in Sockets, Connect(s) PROVE [Audience!Next]_Audience!audienceVars
  <2>1. Members' = Members /\ UNCHANGED <<Here, stage, aimed, got>>
    BY <1>4 DEF Connect, Members, Here, TypeOK, TableInv, NoGhosts
  <2>2. CASE DependenciesResolve
    <3>1. Decided' = Decided
      BY <1>4, <2>2 DEF Connect, Goto, Decided, Entered, TypeOK
    <3>2. QED
      BY <1>1, <2>1, <3>1
  <2>3. CASE ~DependenciesResolve
    <3>1. s \notin Decided /\ Decided' = Decided \cup {s}
      BY <1>4, <2>3, DecidedStep DEF Connect, Decided, Entered, Steps
    <3>2. QED
      BY <1>3, <2>1, <3>1
  <2>4. QED
    BY <2>2, <2>3
<1>5. ASSUME NEW s \in Sockets, Refuse(s) PROVE Audience!Next
  <2>1. Members' = Members /\ UNCHANGED <<Here, stage, aimed, got>>
    BY <1>5 DEF Refuse, Members, Here, TypeOK, TableInv, NoGhosts
  <2>2. s \notin Decided /\ Decided' = Decided \cup {s}
    BY <1>5, DecidedStep DEF Refuse, Decided, Entered, Steps
  <2>3. QED
    BY <1>3, <2>1, <2>2
<1>6. ASSUME NEW s \in Sockets, Accept(s) PROVE Audience!Next
  <2>1. s \notin Decided /\ Decided' = Decided \cup {s} /\ UNCHANGED <<Here, stage, aimed, got>>
    BY <1>6, DecidedStep DEF Accept, Decided, Entered, Steps, Here
  <2>2. CASE s \in open
    <3>1. Members' = Members \cup {s}
      BY <1>6, <2>2 DEF Accept, Members
    <3>2. Audience!Admit(s)
      BY <1>0, <2>1, <3>1 DEF Audience!Admit, Audience!eventVars, Members, Here
    <3>3. QED
      BY <3>2 DEF Audience!Next
  <2>3. CASE s \notin open
    <3>1. Members' = Members
      BY <1>6, <2>3 DEF Accept, Members
    <3>2. QED
      BY <1>3, <2>1, <3>1
  <2>4. QED
    BY <2>2, <2>3
<1>7. ASSUME NEW s \in Sockets, Write(s) PROVE UNCHANGED Audience!audienceVars
  <2>1. Decided' = Decided
    BY <1>7 DEF Write, Goto, Decided, Entered, TypeOK
  <2>2. QED
    BY <1>1, <1>7, <2>1 DEF Write, Members, Here
<1>8. ASSUME NEW s \in Sockets, WriteFails(s) \/ CloseReturns(s) \/ Disconnected(s) PROVE Audience!Next
  <2>1. Decided' = Decided
    BY <1>8 DEF WriteFails, CloseReturns, Disconnected, Leave, Goto, Decided, Entered, TypeOK
  <2>2. Members' = Members \ {s} /\ UNCHANGED <<Here, stage, aimed, got>>
    BY <1>8 DEF WriteFails, CloseReturns, Disconnected, Leave, Disconnect, Members, Here
  <2>3. QED
    BY <1>2, <2>1, <2>2
<1>9. ASSUME NEW s \in Sockets, Frame(s) PROVE [Audience!Next]_Audience!audienceVars
  <2>1. Decided' = Decided
    BY <1>9 DEF Frame, Receive, BinaryFrame, Leave, Goto, Decided, Entered, TypeOK
  <2>2. UNCHANGED <<Here, stage, aimed, got>> /\ (Members' = Members \/ Members' = Members \ {s})
    BY <1>9 DEF Frame, Receive, BinaryFrame, Leave, Disconnect, Members, Here
  <2>3. QED
    BY <1>1, <1>2, <2>1, <2>2
<1>10. ASSUME NEW s \in Sockets, ClientLeaves(s) \/ ClientVanishes(s) PROVE Audience!Next
  <2>1. Here' = Here \ {s}
    BY <1>10 DEF ClientLeaves, ClientVanishes, Here, TypeOK
  <2>2. UNCHANGED <<Decided, Members, stage, aimed, got>>
    BY <1>10 DEF ClientLeaves, ClientVanishes, Decided, Entered, Members
  <2>3. Audience!Vanish(s)
    BY <1>0, <2>1, <2>2 DEF Audience!Vanish, Audience!eventVars, Members, Here
  <2>4. QED
    BY <2>3 DEF Audience!Next
<1>11. CASE CheckerStep
  <2>1. CASE Wake
    BY <1>1, <2>1 DEF Wake, Decided, Entered, Members, Here
  <2>2. ASSUME NEW s \in Sockets, Visit(s) PROVE [Audience!Next]_Audience!audienceVars
    <3>1. UNCHANGED <<Decided, Here, stage, aimed, got>>
      BY <2>2 DEF Visit, Decided, Entered, Here
    <3>2. Members' = Members \/ Members' = Members \ {s}
      BY <2>2 DEF Visit, Disconnect, Members
    <3>3. QED
      BY <1>1, <1>2, <3>1, <3>2
  <2>3. CASE VictimClosed
    <3>1. victim \in Sockets /\ UNCHANGED <<Decided, Here, stage, aimed, got>>
      BY <2>3 DEF VictimClosed, Decided, Entered, Here, TypeOK
    <3>2. Members' = Members \ {victim}
      BY <2>3 DEF VictimClosed, Disconnect, Members
    <3>3. QED
      BY <1>2, <3>1, <3>2
  <2>4. QED
    BY <1>11, <2>1, <2>2, <2>3 DEF CheckerStep
<1>12. ASSUME NEW e \in Events, Broadcast(e) PROVE Audience!Next
  <2>1. UNCHANGED <<Decided, Members, Here, got>> /\ active \in SUBSET Sockets
    BY <1>12 DEF Broadcast, Decided, Entered, Members, Here, TypeOK
  <2>2. Members \subseteq active /\ active \subseteq Decided
    BY <1>0 DEF Members, Decided, Entered, TypeOK, TableInv, NoGhosts
  <2>3. Audience!Announce(e, active)
    BY <1>0, <1>12, <2>1, <2>2 DEF Audience!Announce, Audience!doorVars, Broadcast, Members, Here
  <2>4. QED
    BY <2>1, <2>3 DEF Audience!Next
<1>13. ASSUME NEW e \in Events, NEW s \in Sockets, Send(e, s)
       PROVE  [Audience!Next]_Audience!audienceVars
  <2>1. UNCHANGED <<Decided, Here, stage, aimed>>
    BY <1>13 DEF Send, Decided, Entered, Here
  <2>2. CASE UNCHANGED got
    <3>1. Members' = Members \/ Members' = Members \ {s}
      BY <1>13, <2>2 DEF Send, Disconnect, Members
    <3>2. QED
      BY <1>1, <1>2, <2>1, <2>2, <3>1
  <2>3. CASE got' # got
    <3>1. /\ s \in active \cap open /\ peer[s] = "up"
          /\ got' = [got EXCEPT ![s] = @ \cup {e}]
          /\ UNCHANGED <<open, table>>
      BY <1>13, <2>3 DEF Send
    <3>2. s \in aimed[e] /\ stage[e] = "sending"
      BY <1>13 DEF Send, SendsAsAimed, TypeOK
    <3>3. s \in Members /\ s \in Here /\ Members' = Members
      BY <3>1 DEF Members, Here
    <3>4. Audience!Hear(e, s)
      BY <1>0, <2>1, <3>1, <3>2, <3>3 DEF Audience!Hear, Audience!doorVars, Members, Here
    <3>5. QED
      BY <3>4 DEF Audience!Next
  <2>4. QED
    BY <2>2, <2>3
<1>14. ASSUME NEW e \in Events, Broadcasted(e) PROVE Audience!Next
  <2>1. UNCHANGED <<Decided, Members, Here, aimed, got>>
    BY <1>14 DEF Broadcasted, Decided, Entered, Members, Here
  <2>2. \A s \in aimed[e] \cap Members \cap Here : e \in got[s]
    BY <1>14 DEF Broadcasted, SnapshotInv, ServedSoFar, Members, Here
  <2>3. Audience!Finish(e)
    BY <1>0, <1>14, <2>1, <2>2 DEF Audience!Finish, Audience!doorVars, Broadcasted, Members, Here
  <2>4. QED
    BY <2>3 DEF Audience!Next
<1>15. CASE Tick
  BY <1>1, <1>15 DEF Tick, Decided, Entered, Members, Here
<1>16. CASE UNCHANGED vars
  BY <1>1, <1>16 DEF vars, Decided, Entered, Members, Here
<1>17. QED
  BY <1>4, <1>5, <1>6, <1>7, <1>8, <1>9, <1>10, <1>11, <1>12, <1>13, <1>14, <1>15, <1>16
     DEF Next, EndpointStep, BroadcastStep

(* The gateway keeps its promise to its clients: membership is decided     *)
(* once and never regained, and an event goes to those that were members   *)
(* when it was announced and are still, all of them and nobody else.       *)
THEOREM KeepsAudience == Spec => ImplementsAudience
<1>1. Init => Audience!Init
  BY DEF Init, Audience!Init
<1>2. QED
  BY <1>1, SendsKept, AudienceStep, PTL DEF Spec, ImplementsAudience, Audience!Spec
=============================================================================
