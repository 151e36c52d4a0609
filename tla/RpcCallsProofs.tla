--------------------------- MODULE RpcCallsProofs ---------------------------
(***************************************************************************)
(* Safety of RpcCalls for every number of calls, correlation ids, repeated *)
(* replies, reconnections and faults; how lasting a reconnection is.       *)
(***************************************************************************)
EXTENDS RpcCalls, TLAPS

(* A call that has not begun has no id, one that has not published no future. *)
Unstarted ==
  \A c \in Calls :
    /\ pc[c] = "idle" => corr[c] = NoId
    /\ pc[c] \in {"idle", "connect"} => future[c] = "none"

(* Replies come from the service, to messages that were published. *)
Answered ==
  /\ \A c \in Calls : inFlight[c] > 0 => served[c] > 0
  /\ \A c \in Calls : served[c] > 0 => c \in published
  /\ \A c \in published : pc[c] # "idle"

TypeInv == TypeOK /\ Unstarted

LEMMA TypeStep == TypeInv /\ [Next]_vars => TypeInv'
<1> SUFFICES ASSUME TypeInv, [Next]_vars PROVE TypeInv'
  OBVIOUS
<1> USE CallAssumption
    DEF TypeInv, TypeOK, Unstarted, Steps, callVars, channelVars, brokerVars
<1>1. ASSUME NEW c \in Calls, NEW i \in Ids, Call(c, i) PROVE TypeInv'
  BY <1>1 DEF Call, Register
<1>2. ASSUME NEW c \in Calls, Connect(c) PROVE TypeInv'
  BY <1>2 DEF Connect, Register
<1>3. ASSUME NEW c \in Calls, ConnectFails(c) PROVE TypeInv'
  BY <1>3 DEF ConnectFails
<1>4. ASSUME NEW c \in Calls, Send(c) PROVE TypeInv'
  BY <1>4 DEF Send
<1>5. ASSUME NEW c \in Calls, SendRefused(c) PROVE TypeInv'
  BY <1>5 DEF SendRefused, Leave
<1>6. ASSUME NEW c \in Calls, Unroutable(c) PROVE TypeInv'
  BY <1>6 DEF Unroutable, Leave
<1>7. ASSUME NEW c \in Calls, Confirm(c) PROVE TypeInv'
  BY <1>7 DEF Confirm
<1>8. ASSUME NEW c \in Calls, ConfirmFails(c) PROVE TypeInv'
  BY <1>8 DEF ConfirmFails, Leave
<1>9. ASSUME NEW c \in Calls, TimerFires(c) PROVE TypeInv'
  BY <1>9 DEF TimerFires
<1>10. ASSUME NEW c \in Calls, Return(c) PROVE TypeInv'
  BY <1>10 DEF Return, Leave
<1>11. ASSUME NEW c \in Calls, Serve(c) PROVE TypeInv'
  BY <1>11 DEF Serve
<1>12. ASSUME NEW c \in Calls, DeliverReply(c) PROVE TypeInv'
  BY <1>12 DEF DeliverReply, Addressee
<1>13. ASSUME NEW k \in 1..chan, ChannelLost(k) PROVE TypeInv'
  BY <1>13 DEF ChannelLost
<1>14. ASSUME NEW k \in 1..chan, ChannelRestored(k) PROVE TypeInv'
  BY <1>14 DEF ChannelRestored
<1>15. CASE UNCHANGED vars
  BY <1>15 DEF vars
<1>16. QED
  BY <1>1, <1>2, <1>3, <1>4, <1>5, <1>6, <1>7, <1>8, <1>9, <1>10, <1>11, <1>12, <1>13, <1>14,
     <1>15 DEF Next, CallStep

THEOREM Typed == Spec => []TypeInv
<1>1. Init => TypeInv
  BY CallAssumption DEF Init, TypeInv, TypeOK, Unstarted, Steps
<1>2. QED
  BY <1>1, TypeStep, PTL DEF Spec

(* Type correctness of every reachable state. *)
THEOREM TypeCorrect == Spec => []TypeOK
BY Typed, PTL DEF TypeInv

----------------------------------------------------------------------------
(* The table of futures *)

LEMMA TableStep == TypeInv /\ TableExact /\ [Next]_vars => TableExact'
<1> SUFFICES ASSUME TypeInv, TableExact, [Next]_vars PROVE TableExact'
  OBVIOUS
<1> USE CallAssumption
    DEF TypeInv, TypeOK, Unstarted, Steps, callVars, channelVars, brokerVars,
        TableExact, InProgress, Shared
<1>1. ASSUME NEW c \in Calls, NEW i \in Ids, Call(c, i) PROVE TableExact'
  BY <1>1 DEF Call, Register
<1>2. ASSUME NEW c \in Calls, Connect(c) PROVE TableExact'
  BY <1>2 DEF Connect, Register
<1>3. ASSUME NEW c \in Calls, ConnectFails(c) PROVE TableExact'
  BY <1>3 DEF ConnectFails
<1>4. ASSUME NEW c \in Calls, Send(c) PROVE TableExact'
  BY <1>4 DEF Send
<1>5. ASSUME NEW c \in Calls, SendRefused(c) PROVE TableExact'
  BY <1>5 DEF SendRefused, Leave
<1>6. ASSUME NEW c \in Calls, Unroutable(c) PROVE TableExact'
  BY <1>6 DEF Unroutable, Leave
<1>7. ASSUME NEW c \in Calls, Confirm(c) PROVE TableExact'
  BY <1>7 DEF Confirm
<1>8. ASSUME NEW c \in Calls, ConfirmFails(c) PROVE TableExact'
  BY <1>8 DEF ConfirmFails, Leave
<1>9. ASSUME NEW c \in Calls, TimerFires(c) PROVE TableExact'
  BY <1>9 DEF TimerFires
<1>10. ASSUME NEW c \in Calls, Return(c) PROVE TableExact'
  BY <1>10 DEF Return, Leave
<1>11. ASSUME NEW c \in Calls, Serve(c) PROVE TableExact'
  BY <1>11 DEF Serve
<1>12. ASSUME NEW c \in Calls, DeliverReply(c) PROVE TableExact'
  BY <1>12 DEF DeliverReply
<1>13. ASSUME NEW k \in 1..chan, ChannelLost(k) PROVE TableExact'
  BY <1>13 DEF ChannelLost
<1>14. ASSUME NEW k \in 1..chan, ChannelRestored(k) PROVE TableExact'
  BY <1>14 DEF ChannelRestored
<1>15. CASE UNCHANGED vars
  BY <1>15 DEF vars
<1>16. QED
  BY <1>1, <1>2, <1>3, <1>4, <1>5, <1>6, <1>7, <1>8, <1>9, <1>10, <1>11, <1>12, <1>13, <1>14,
     <1>15 DEF Next, CallStep

(* The table holds calls in progress, and every one whose id is its own. *)
THEOREM TableCorrect == Spec => []TableExact
<1>1. Init => TableExact
  BY DEF Init, TableExact, InProgress
<1>2. QED
  BY <1>1, Typed, TableStep, PTL DEF Spec

----------------------------------------------------------------------------
(* Whose answer a call gets *)

LEMMA AnsweredStep == TypeInv /\ Answered /\ [Next]_vars => Answered'
<1> SUFFICES ASSUME TypeInv, Answered, [Next]_vars PROVE Answered'
  OBVIOUS
<1> USE CallAssumption
    DEF TypeInv, TypeOK, Steps, callVars, channelVars, brokerVars, Answered
<1>1. ASSUME NEW c \in Calls, NEW i \in Ids, Call(c, i) PROVE Answered'
  BY <1>1 DEF Call, Register
<1>2. ASSUME NEW c \in Calls, CallStep(c) PROVE Answered'
  BY <1>2
     DEF CallStep, Connect, Register, ConnectFails, Send, SendRefused, Unroutable, Confirm,
         ConfirmFails, TimerFires, Return, Leave
<1>3. ASSUME NEW c \in Calls, Serve(c) PROVE Answered'
  BY <1>3 DEF Serve
<1>4. ASSUME NEW c \in Calls, DeliverReply(c) PROVE Answered'
  BY <1>4 DEF DeliverReply
<1>5. ASSUME NEW k \in 1..chan, ChannelLost(k) \/ ChannelRestored(k) PROVE Answered'
  BY <1>5 DEF ChannelLost, ChannelRestored
<1>6. CASE UNCHANGED vars
  BY <1>6 DEF vars
<1>7. QED
  BY <1>1, <1>2, <1>3, <1>4, <1>5, <1>6 DEF Next

(* The answer of a call was sent under its correlation id. *)
SameId ==
  \A c \in Calls : value[c] # NoCall => corr[value[c]] = corr[c] /\ served[value[c]] > 0

AnswerInv == Answered /\ SameId

LEMMA AnswerStep == TypeInv /\ TableExact /\ AnswerInv /\ [Next]_vars => AnswerInv'
<1> SUFFICES ASSUME TypeInv, TableExact, AnswerInv, [Next]_vars PROVE SameId'
  BY AnsweredStep DEF AnswerInv
<1> USE CallAssumption
    DEF TypeInv, TypeOK, Unstarted, Steps, callVars, channelVars, brokerVars,
        AnswerInv, Answered, SameId
<1>1. ASSUME NEW c \in Calls, NEW i \in Ids, Call(c, i) PROVE SameId'
  <2> SUFFICES ASSUME NEW d \in Calls, value'[d] # NoCall
               PROVE  corr'[value'[d]] = corr'[d] /\ served'[value'[d]] > 0
    OBVIOUS
  <2>1. value' = value /\ served' = served /\ value[d] \in published
    BY <1>1 DEF Call
  <2>2. value[d] # c /\ d # c
    BY <1>1, <2>1 DEF Call
  <2>3. QED
    BY <1>1, <2>1, <2>2 DEF Call
<1>2. ASSUME NEW c \in Calls, CallStep(c) PROVE SameId'
  BY <1>2
     DEF CallStep, Connect, Register, ConnectFails, Send, SendRefused, Unroutable, Confirm,
         ConfirmFails, TimerFires, Return, Leave
<1>3. ASSUME NEW c \in Calls, Serve(c) PROVE SameId'
  BY <1>3 DEF Serve
<1>4. ASSUME NEW c \in Calls, DeliverReply(c) PROVE SameId'
  BY <1>4 DEF DeliverReply, Addressee, TableExact
<1>5. ASSUME NEW k \in 1..chan, ChannelLost(k) \/ ChannelRestored(k) PROVE SameId'
  BY <1>5 DEF ChannelLost, ChannelRestored
<1>6. CASE UNCHANGED vars
  BY <1>6 DEF vars
<1>7. QED
  BY <1>1, <1>2, <1>3, <1>4, <1>5, <1>6 DEF Next

THEOREM AnswersSent == Spec => []AnswerInv
<1>1. Init => AnswerInv
  BY DEF Init, AnswerInv, Answered, SameId
<1>2. QED
  BY <1>1, Typed, TableCorrect, AnswerStep, PTL DEF Spec

(* A call gets the answer to its own message, or to one under the same id. *)
THEOREM AnswersBelong == Spec => []OwnAnswer
<1>1. TypeOK /\ AnswerInv => OwnAnswer
  BY DEF TypeOK, AnswerInv, SameId, OwnAnswer, Shared
<1>2. QED
  BY <1>1, TypeCorrect, AnswersSent, PTL

----------------------------------------------------------------------------
(* What a caller was told does not change. *)
THEOREM AnswersFinal == Spec => AnsweredOnce
<1>1. TypeInv /\ TableExact /\ Answered /\ [Next]_vars =>
        [\A c \in Calls : pc[c] = "done" \/ (pc[c] = "wait" /\ value[c] # NoCall)
           => value'[c] = value[c]]_vars
  <2> SUFFICES ASSUME TypeInv, TableExact, Answered, [Next]_vars,
                      NEW d \in Calls,
                      pc[d] = "done" \/ (pc[d] = "wait" /\ value[d] # NoCall)
               PROVE  value'[d] = value[d]
    OBVIOUS
  <2> USE CallAssumption
      DEF TypeInv, TypeOK, Steps, callVars, channelVars, brokerVars
  <2>1. ASSUME NEW c \in Calls, NEW i \in Ids, Call(c, i) PROVE value'[d] = value[d]
    BY <2>1 DEF Call
  <2>2. ASSUME NEW c \in Calls, CallStep(c) PROVE value'[d] = value[d]
    BY <2>2
       DEF CallStep, Connect, ConnectFails, Send, SendRefused, Unroutable, Confirm,
           ConfirmFails, TimerFires, Return
  <2>3. ASSUME NEW c \in Calls, Serve(c) PROVE value'[d] = value[d]
    BY <2>3 DEF Serve
  <2>4. ASSUME NEW c \in Calls, DeliverReply(c) PROVE value'[d] = value[d]
    BY <2>4 DEF DeliverReply, Addressee, TableExact, InProgress, Answered
  <2>5. ASSUME NEW k \in 1..chan, ChannelLost(k) \/ ChannelRestored(k)
        PROVE  value'[d] = value[d]
    BY <2>5 DEF ChannelLost, ChannelRestored
  <2>6. CASE UNCHANGED vars
    BY <2>6 DEF vars
  <2>7. QED
    BY <2>1, <2>2, <2>3, <2>4, <2>5, <2>6 DEF Next
<1>2. QED
  BY <1>1, Typed, TableCorrect, AnswersSent, PTL DEF Spec, AnsweredOnce, AnswerInv

----------------------------------------------------------------------------
(* What one reconnection costs: _setup_reply_to_consumer returns early     *)
(* because the tag of the old consumer is still set, so the new channel    *)
(* never gets a consumer for replies.                                      *)

(* The call has no channel on which the broker would take its message. *)
CutOff(c) ==
  /\ chan # tag
  /\ c \notin published
  /\ pc[c] \in {"idle", "connect", "done"} \/ via[c] # tag

LEMMA CutOffStep ==
  ASSUME TypeInv, Answered, [Next]_vars, NEW c \in Calls, CutOff(c)
  PROVE  CutOff(c)'
<1> USE CallAssumption
    DEF TypeInv, TypeOK, Steps, callVars, channelVars, brokerVars, CutOff
<1>1. ASSUME NEW d \in Calls, NEW i \in Ids, Call(d, i) PROVE CutOff(c)'
  BY <1>1 DEF Call, Register
<1>2. ASSUME NEW d \in Calls, Connect(d) PROVE CutOff(c)'
  BY <1>2 DEF Connect, Register
<1>3. ASSUME NEW d \in Calls, Send(d) PROVE CutOff(c)'
  BY <1>3 DEF Send
<1>4. ASSUME NEW d \in Calls, ConnectFails(d) \/ Confirm(d) \/ TimerFires(d) PROVE CutOff(c)'
  BY <1>4 DEF ConnectFails, Confirm, TimerFires
<1>5. ASSUME NEW d \in Calls, SendRefused(d) \/ Unroutable(d) \/ ConfirmFails(d) \/ Return(d)
      PROVE  CutOff(c)'
  <2>1. UNCHANGED <<chan, tag, published, via>> /\ pc' = [pc EXCEPT ![d] = "done"]
    BY <1>5 DEF SendRefused, Unroutable, ConfirmFails, Return, Leave
  <2>2. QED
    BY <2>1
<1>6. ASSUME NEW d \in Calls, Serve(d) \/ DeliverReply(d) PROVE CutOff(c)'
  BY <1>6 DEF Serve, DeliverReply
<1>7. ASSUME NEW k \in 1..chan, ChannelLost(k) \/ ChannelRestored(k) PROVE CutOff(c)'
  BY <1>7 DEF ChannelLost, ChannelRestored
<1>8. CASE UNCHANGED vars
  BY <1>8 DEF vars
<1>9. QED
  BY <1>1, <1>2, <1>3, <1>4, <1>5, <1>6, <1>7, <1>8 DEF Next, CallStep

(* Once the bus has connected anew, no call that is made afterwards has    *)
(* its message taken by the broker, so none gets an answer of its own: the *)
(* gateway stays deaf for as long as it runs.                              *)
THEOREM DeafAfterReconnect ==
  Spec => \A c \in Calls :
    [](chan # tag /\ pc[c] = "idle" => [](c \notin published /\ (Shared(c) \/ value[c] = NoCall)))
<1> SUFFICES ASSUME NEW c \in Calls
             PROVE  Spec => [](chan # tag /\ pc[c] = "idle"
                                 => [](c \notin published /\ (Shared(c) \/ value[c] = NoCall)))
  OBVIOUS
<1>1. Answered /\ chan # tag /\ pc[c] = "idle" => CutOff(c)
  BY DEF Answered, CutOff
<1>2. TypeInv /\ Answered /\ [Next]_vars /\ CutOff(c) => CutOff(c)'
  BY CutOffStep
<1>3. Answered /\ OwnAnswer /\ CutOff(c) => c \notin published /\ (Shared(c) \/ value[c] = NoCall)
  BY DEF Answered, OwnAnswer, CutOff
<1>4. Spec => [](TypeInv /\ Answered /\ OwnAnswer)
  BY Typed, AnswersSent, AnswersBelong, PTL DEF AnswerInv
<1>5. QED
  BY <1>1, <1>2, <1>3, <1>4, PTL DEF Spec
=============================================================================
