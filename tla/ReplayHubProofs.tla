---------------------------- MODULE ReplayHubProofs ----------------------------
(***************************************************************************)
(* The safety properties of ReplayHub for all values of its constants.     *)
(* Lemmas about the operations first, then one lemma for each part of the  *)
(* inductive invariant IInv with a step for every action, then the         *)
(* theorems.                                                               *)
(***************************************************************************)
EXTENDS ReplayHub, TLAPS

(* A session that moves to another state, but not to "sending", and leaves
   its commands alone.                                                      *)
LEMMA MoveTyped ==
  ASSUME TasksOK, NEW id \in Sessions, NEW l \in States \ {"sending"},
         Become(id, l), todo' = todo, history' \in [Sessions -> 0..MaxHistory]
  PROVE  TasksOK'
  BY DEF TasksOK, Become

(* A session that starts to send a list of actions.                         *)
LEMMA CommandTyped ==
  ASSUME TasksOK, NEW id \in Sessions, NEW t \in Seq(Actions), t # <<>>,
         Become(id, "sending"), todo' = [todo EXCEPT ![id] = t],
         history' = history
  PROVE  TasksOK'
<1>1. session' \in [Sessions -> States] /\ todo' \in [Sessions -> Seq(Actions)]
  BY DEF TasksOK, Become, States
<1>2. ASSUME NEW i \in Sessions, session'[i] = "sending" PROVE todo'[i] # <<>>
  BY <1>2 DEF TasksOK, Become
<1> QED
  BY <1>1, <1>2 DEF TasksOK

(* An action list is made of the arguments of the command, in their order.  *)
LEMMA ArgsTyped ==
  ASSUME NEW id \in Sessions, NEW op \in {"subscribe", "unsubscribe"},
         NEW args \in SeqOf(Symbols, MaxArgs) \ {<<>>}
  PROVE  LET t == [i \in DOMAIN args |->
                     [id |-> id, op |-> op, symbol |-> args[i]]]
         IN  t \in Seq(Actions) /\ t # <<>> /\ \A i \in DOMAIN t : t[i].id = id
<1> DEFINE t == [i \in DOMAIN args |->
                   [id |-> id, op |-> op, symbol |-> args[i]]]
<1>1. PICK n \in 0..MaxArgs : args \in [1..n -> Symbols]
  BY HubAssumption DEF SeqOf, HubAssumption
<1>2. args \in Seq(Symbols) /\ args # <<>> /\ DOMAIN args = 1..n
  BY <1>1, HubAssumption DEF HubAssumption
<1>3. n # 0
  BY <1>2
<1>4. t \in [1..n -> Actions]
  BY <1>1, <1>2 DEF Actions
<1>5. t \in Seq(Actions) /\ t # <<>>
  BY <1>1, <1>3, <1>4, HubAssumption DEF HubAssumption
<1> QED
  BY <1>5

(* What the hub finds in its channel.                                       *)
LEMMA HeadAction ==
  ASSUME ChannelsOK, actions # <<>>
  PROVE  /\ Head(actions) \in Actions
         /\ Head(actions).id \in Sessions
         /\ Head(actions).op # "leave" => Head(actions).symbol \in Symbols
         /\ Tail(actions) \in Seq(Actions)
         /\ Len(Tail(actions)) = Len(actions) - 1
<1>1. Head(actions) \in Actions /\ Tail(actions) \in Seq(Actions)
      /\ Len(Tail(actions)) = Len(actions) - 1
  BY DEF ChannelsOK
<1> QED
  BY <1>1 DEF Actions

(* HubAction is one of three operations on the maps, by a session.          *)
LEMMA HubOperation ==
  ASSUME ChannelsOK, HubAction
  PROVE  LET id == Head(actions).id IN
         \/ \E s \in Symbols : Subscribe(id, s) \/ Unsubscribe(id, s)
         \/ Head(actions).op = "leave" /\ UnsubscribeAll(id)
<1>1. actions # <<>>
  BY DEF HubAction
<1> QED
  BY <1>1, HeadAction DEF HubAction

(* What is left to send is well-typed after a choice of SendTo.             *)
LEMMA SendToTyped ==
  ASSUME NEW S \in SUBSET Sessions, SendTo(S)
  PROVE  SendingOK'
  BY DEF SendTo, SendingOK

(* The action channel before and after a send.                              *)
LEMMA Appended ==
  ASSUME ChannelsOK, NEW a \in Actions, actions' = Append(actions, a)
  PROVE  /\ DOMAIN actions = 1..Len(actions) /\ Len(actions) \in Nat
         /\ DOMAIN actions' = 1..(Len(actions) + 1)
         /\ \A j \in DOMAIN actions : actions'[j] = actions[j]
         /\ actions'[Len(actions) + 1] = a
  BY DEF ChannelsOK

(* ... and after a receive.                                                 *)
LEMMA Removed ==
  ASSUME ChannelsOK, actions # <<>>, actions' = Tail(actions)
  PROVE  /\ DOMAIN actions = 1..Len(actions) /\ Len(actions) \in Nat \ {0}
         /\ DOMAIN actions' = 1..(Len(actions) - 1)
         /\ \A j \in DOMAIN actions' : actions'[j] = actions[j + 1]
         /\ Head(actions) = actions[1]
  BY DEF ChannelsOK

(* An action of somebody else behind it does no harm to the last word of u. *)
LEMMA OthersAppend ==
  ASSUME ChannelsOK, NEW u \in Sessions, NEW a \in Actions, a.id # u,
         actions' = Append(actions, a), users' = users, LastIsLeaveOf(u)
  PROVE  LastIsLeaveOf(u)'
<1>1. CASE u \notin users /\ \A j \in DOMAIN actions : actions[j].id # u
  <2>1. \A j \in DOMAIN actions' : actions'[j].id # u
    BY <1>1, Appended
  <2> QED
    BY <1>1, <2>1 DEF LastIsLeaveOf
<1>2. CASE ~(u \notin users /\ \A j \in DOMAIN actions : actions[j].id # u)
  <2>1. PICK i \in DOMAIN actions :
             /\ actions[i] = Leave(u)
             /\ \A j \in DOMAIN actions : j > i => actions[j].id # u
    BY <1>2 DEF LastIsLeaveOf
  <2>2. i \in DOMAIN actions' /\ actions'[i] = Leave(u)
    BY <2>1, Appended
  <2>3. \A j \in DOMAIN actions' : j > i => actions'[j].id # u
    BY <2>1, Appended
  <2> QED
    BY <2>2, <2>3 DEF LastIsLeaveOf
<1> QED
  BY <1>1, <1>2

(* A session's own Unsubscribe(None) is its last word when it is sent.      *)
LEMMA OwnAppend ==
  ASSUME ChannelsOK, NEW u \in Sessions, actions' = Append(actions, Leave(u))
  PROVE  LastIsLeaveOf(u)'
<1>1. Leave(u) \in Actions
  BY DEF Leave, Actions
<1>2. Len(actions) + 1 \in DOMAIN actions'
      /\ actions'[Len(actions) + 1] = Leave(u)
  BY <1>1, Appended
<1>3. \A j \in DOMAIN actions' : ~(j > Len(actions) + 1)
  BY <1>1, Appended
<1> QED
  BY <1>2, <1>3 DEF LastIsLeaveOf

(* Every step keeps the types and the capacities.                            *)
LEMMA TypeStep ==
  TasksOK /\ ChannelsOK /\ MapsOK /\ SendingOK /\ [Next]_vars
    => TasksOK' /\ ChannelsOK' /\ MapsOK' /\ SendingOK'
<1> SUFFICES ASSUME TasksOK, ChannelsOK, MapsOK, SendingOK, [Next]_vars
      PROVE TasksOK' /\ ChannelsOK' /\ MapsOK' /\ SendingOK'
  OBVIOUS
<1> USE HubAssumption
        DEF HubAssumption, tasks, channels, userList, subList, sending, Closed
<1>1. ASSUME NEW id \in Sessions, Connect(id)
      PROVE TasksOK' /\ ChannelsOK' /\ MapsOK' /\ SendingOK'
  <2>1. TasksOK'
    <3>1. "idle" \in States \ {"sending"}
      BY DEF States
    <3> QED
      BY <1>1, <3>1, MoveTyped DEF Connect, TasksOK
  <2>2. ChannelsOK'
    BY <1>1 DEF Connect, Become, ChannelsOK
  <2>3. MapsOK'
    BY <1>1 DEF Connect, Become, MapsOK
  <2>4. SendingOK'
    BY <1>1 DEF Connect, Become, SendingOK
  <2> QED
    BY <2>1, <2>2, <2>3, <2>4
<1>2. ASSUME NEW id \in Sessions, Command(id)
      PROVE TasksOK' /\ ChannelsOK' /\ MapsOK' /\ SendingOK'
  <2>1. TasksOK'
    <3>1. PICK op \in {"subscribe", "unsubscribe"},
               args \in SeqOf(Symbols, MaxArgs) \ {<<>>} :
            todo' = [todo EXCEPT ![id] =
                      [i \in DOMAIN args |->
                         [id |-> id, op |-> op, symbol |-> args[i]]]]
      BY <1>2 DEF Command
    <3> DEFINE t == [i \in DOMAIN args |->
                       [id |-> id, op |-> op, symbol |-> args[i]]]
    <3>2. t \in Seq(Actions) /\ t # <<>>
      BY ArgsTyped
    <3>3. todo' = [todo EXCEPT ![id] = t]
      BY <3>1
    <3>4. Become(id, "sending") /\ history' = history
      BY <1>2 DEF Command
    <3> HIDE DEF t
    <3> QED
      BY <3>2, <3>3, <3>4, CommandTyped
  <2>2. ChannelsOK'
    BY <1>2 DEF Command, Become, ChannelsOK
  <2>3. MapsOK'
    BY <1>2 DEF Command, Become, MapsOK
  <2>4. SendingOK'
    BY <1>2 DEF Command, Become, SendingOK
  <2> QED
    BY <2>1, <2>2, <2>3, <2>4
<1>3. ASSUME NEW id \in Sessions, CommandAll(id)
      PROVE TasksOK' /\ ChannelsOK' /\ MapsOK' /\ SendingOK'
  <2>1. TasksOK'
    <3>1. Leave(id) \in Actions
      BY DEF Leave, Actions
    <3>2. <<Leave(id)>> \in Seq(Actions) /\ <<Leave(id)>> # <<>>
      BY <3>1
    <3> QED
      BY <1>3, <3>2, CommandTyped DEF CommandAll
  <2>2. ChannelsOK'
    BY <1>3 DEF CommandAll, Become, ChannelsOK
  <2>3. MapsOK'
    BY <1>3 DEF CommandAll, Become, MapsOK
  <2>4. SendingOK'
    BY <1>3 DEF CommandAll, Become, SendingOK
  <2> QED
    BY <2>1, <2>2, <2>3, <2>4
<1>4. ASSUME NEW id \in Sessions, CommandHistory(id)
      PROVE TasksOK' /\ ChannelsOK' /\ MapsOK' /\ SendingOK'
  <2>1. TasksOK'
    BY <1>4 DEF CommandHistory, TasksOK
  <2>2. ChannelsOK'
    BY <1>4 DEF CommandHistory, ChannelsOK
  <2>3. MapsOK'
    BY <1>4 DEF CommandHistory, MapsOK
  <2>4. SendingOK'
    BY <1>4 DEF CommandHistory, SendingOK
  <2> QED
    BY <2>1, <2>2, <2>3, <2>4
<1>5. ASSUME NEW id \in Sessions, CommandRefused(id)
      PROVE TasksOK' /\ ChannelsOK' /\ MapsOK' /\ SendingOK'
  <2>1. TasksOK'
    <3>1. "replying" \in States \ {"sending"}
      BY DEF States
    <3> QED
      BY <1>5, <3>1, MoveTyped DEF CommandRefused, TasksOK
  <2>2. ChannelsOK'
    BY <1>5 DEF CommandRefused, Become, ChannelsOK
  <2>3. MapsOK'
    BY <1>5 DEF CommandRefused, Become, MapsOK
  <2>4. SendingOK'
    BY <1>5 DEF CommandRefused, Become, SendingOK
  <2> QED
    BY <2>1, <2>2, <2>3, <2>4
<1>6. ASSUME NEW id \in Sessions, Disconnect(id)
      PROVE TasksOK' /\ ChannelsOK' /\ MapsOK' /\ SendingOK'
  <2>1. TasksOK'
    <3>1. "leaving" \in States \ {"sending"}
      BY DEF States
    <3> QED
      BY <1>6, <3>1, MoveTyped DEF Disconnect, TasksOK
  <2>2. ChannelsOK'
    BY <1>6 DEF Disconnect, Become, ChannelsOK
  <2>3. MapsOK'
    BY <1>6 DEF Disconnect, Become, MapsOK
  <2>4. SendingOK'
    BY <1>6 DEF Disconnect, Become, SendingOK
  <2> QED
    BY <2>1, <2>2, <2>3, <2>4
<1>7. ASSUME NEW id \in Sessions, BinaryPanic(id)
      PROVE TasksOK' /\ ChannelsOK' /\ MapsOK' /\ SendingOK'
  <2>1. TasksOK'
    <3>1. "crashed" \in States \ {"sending"}
      BY DEF States
    <3> QED
      BY <1>7, <3>1, MoveTyped DEF BinaryPanic, TasksOK
  <2>2. ChannelsOK'
    BY <1>7 DEF BinaryPanic, Become, ChannelsOK
  <2>3. MapsOK'
    BY <1>7 DEF BinaryPanic, Become, MapsOK
  <2>4. SendingOK'
    BY <1>7 DEF BinaryPanic, Become, SendingOK
  <2> QED
    BY <2>1, <2>2, <2>3, <2>4
<1>8. ASSUME NEW id \in Sessions, SendAction(id)
      PROVE TasksOK' /\ ChannelsOK' /\ MapsOK' /\ SendingOK'
  <2>1. TasksOK'
    <3>1. todo[id] \in Seq(Actions) /\ todo[id] # <<>>
      BY <1>8 DEF SendAction, TasksOK
    <3>2. Tail(todo[id]) \in Seq(Actions)
          /\ Len(Tail(todo[id])) = Len(todo[id]) - 1
      BY <3>1
    <3>3. session' \in [Sessions -> States]
          /\ todo' \in [Sessions -> Seq(Actions)]
      BY <1>8, <3>2 DEF SendAction, Become, TasksOK, States
    <3>4. ASSUME NEW i \in Sessions, session'[i] = "sending"
          PROVE todo'[i] # <<>>
      <4>1. CASE i = id
        <5>1. Len(todo[id]) # 1
          BY <1>8, <3>4, <4>1 DEF SendAction, Become, TasksOK
        <5>2. Len(todo[id]) \in Nat /\ Len(todo[id]) # 0
          BY <3>1
        <5>3. Len(Tail(todo[id])) # 0
          BY <3>2, <5>1, <5>2
        <5>4. ASSUME Tail(todo[id]) = <<>> PROVE FALSE
          <6>1. Len(<<>>) = 0
            OBVIOUS
          <6> QED
            BY <5>3, <5>4, <6>1
        <5> QED
          BY <1>8, <4>1, <5>4 DEF SendAction, TasksOK
      <4>2. CASE i # id
        BY <1>8, <3>4, <4>2 DEF SendAction, Become, TasksOK
      <4> QED
        BY <4>1, <4>2
    <3> QED
      BY <1>8, <3>3, <3>4 DEF SendAction, TasksOK
  <2>2. ChannelsOK'
    <3>1. todo[id] \in Seq(Actions) /\ todo[id] # <<>>
      BY <1>8 DEF SendAction, TasksOK
    <3>2. Head(todo[id]) \in Actions
      BY <3>1
    <3> QED
      BY <1>8, <3>2 DEF SendAction, ChannelsOK
  <2>3. MapsOK'
    BY <1>8 DEF SendAction, Become, MapsOK
  <2>4. SendingOK'
    BY <1>8 DEF SendAction, Become, SendingOK
  <2> QED
    BY <2>1, <2>2, <2>3, <2>4
<1>9. ASSUME NEW id \in Sessions, Reply(id)
      PROVE TasksOK' /\ ChannelsOK' /\ MapsOK' /\ SendingOK'
  <2>1. TasksOK'
    <3>1. "idle" \in States \ {"sending"}
      BY DEF States
    <3> QED
      BY <1>9, <3>1, MoveTyped DEF Reply, TasksOK
  <2>2. ChannelsOK'
    BY <1>9 DEF Reply, Become, ChannelsOK
  <2>3. MapsOK'
    BY <1>9 DEF Reply, Become, MapsOK
  <2>4. SendingOK'
    BY <1>9 DEF Reply, Become, SendingOK
  <2> QED
    BY <2>1, <2>2, <2>3, <2>4
<1>10. ASSUME NEW id \in Sessions, Deliver(id)
      PROVE TasksOK' /\ ChannelsOK' /\ MapsOK' /\ SendingOK'
  <2>1. TasksOK'
    <3>1. "leaving" \in States \ {"sending"}
      BY DEF States
    <3>2. CASE Become(id, "leaving")
      BY <1>10, <3>1, <3>2, MoveTyped DEF Deliver, TasksOK
    <3>3. CASE UNCHANGED session
      BY <1>10, <3>3 DEF Deliver, TasksOK
    <3> QED
      BY <1>10, <3>2, <3>3 DEF Deliver
  <2>2. ChannelsOK'
    BY <1>10 DEF Deliver, Become, ChannelsOK
  <2>3. MapsOK'
    BY <1>10 DEF Deliver, Become, MapsOK
  <2>4. SendingOK'
    BY <1>10 DEF Deliver, Become, SendingOK
  <2> QED
    BY <2>1, <2>2, <2>3, <2>4
<1>11. ASSUME NEW id \in Sessions, SessionEnd(id)
      PROVE TasksOK' /\ ChannelsOK' /\ MapsOK' /\ SendingOK'
  <2>1. TasksOK'
    <3>1. "gone" \in States \ {"sending"}
      BY DEF States
    <3> QED
      BY <1>11, <3>1, MoveTyped DEF SessionEnd, TasksOK
  <2>2. ChannelsOK'
    <3>1. Leave(id) \in Actions
      BY DEF Leave, Actions
    <3>2. actions' \in Seq(Actions) /\ Len(actions') <= ActionCap
      BY <1>11, <3>1 DEF SessionEnd, ChannelsOK
    <3>3. outbox' \in [Sessions -> 0..JsonCap]
      BY <1>11 DEF SessionEnd, ChannelsOK
    <3> QED
      BY <1>11, <3>2, <3>3 DEF SessionEnd, ChannelsOK
  <2>3. MapsOK'
    BY <1>11 DEF SessionEnd, Become, MapsOK
  <2>4. SendingOK'
    BY <1>11 DEF SessionEnd, Become, SendingOK
  <2> QED
    BY <2>1, <2>2, <2>3, <2>4
<1>12. ASSUME NEW id \in Sessions, HistorySend(id)
      PROVE TasksOK' /\ ChannelsOK' /\ MapsOK' /\ SendingOK'
  <2>1. TasksOK'
    <3>1. history[id] \in 0..MaxHistory /\ history[id] > 0
      BY <1>12 DEF HistorySend, TasksOK
    <3>2. 0 \in 0..MaxHistory /\ history[id] - 1 \in 0..MaxHistory
      BY <3>1
    <3>3. history' \in [Sessions -> 0..MaxHistory]
      BY <1>12, <3>2 DEF HistorySend, TasksOK
    <3> QED
      BY <1>12, <3>3 DEF HistorySend, TasksOK
  <2>2. ChannelsOK'
    BY <1>12 DEF HistorySend, ChannelsOK
  <2>3. MapsOK'
    BY <1>12 DEF HistorySend, MapsOK
  <2>4. SendingOK'
    BY <1>12 DEF HistorySend, SendingOK
  <2> QED
    BY <2>1, <2>2, <2>3, <2>4
<1>13. ASSUME NEW s \in Symbols, FeedSend(s)
      PROVE TasksOK' /\ ChannelsOK' /\ MapsOK' /\ SendingOK'
  <2>1. TasksOK'
    BY <1>13 DEF FeedSend, TasksOK
  <2>2. ChannelsOK'
    BY <1>13 DEF FeedSend, ChannelsOK
  <2>3. MapsOK'
    BY <1>13 DEF FeedSend, MapsOK
  <2>4. SendingOK'
    BY <1>13 DEF FeedSend, SendingOK
  <2> QED
    BY <2>1, <2>2, <2>3, <2>4
<1>14. CASE HubAction
  <2>1. TasksOK'
    BY <1>14
       DEF HubAction, SendTo, Subscribe, Unsubscribe, UnsubscribeAll,
           DropFeeds, TasksOK
  <2>2. ChannelsOK'
    BY <1>14
       DEF HubAction, SendTo, Subscribe, Unsubscribe, UnsubscribeAll,
           DropFeeds, ChannelsOK
  <2>3. MapsOK'
    <3> DEFINE id == Head(actions).id
    <3>1. id \in Sessions
      BY <1>14, HeadAction DEF HubAction
    <3>2. ASSUME NEW s \in Symbols, Subscribe(id, s) PROVE MapsOK'
      BY <3>1, <3>2 DEF Subscribe, MapsOK
    <3>3. ASSUME NEW s \in Symbols, Unsubscribe(id, s) PROVE MapsOK'
      BY <3>1, <3>3 DEF Unsubscribe, DropFeeds, MapsOK
    <3>4. CASE UnsubscribeAll(id)
      BY <3>1, <3>4 DEF UnsubscribeAll, DropFeeds, MapsOK
    <3> QED
      BY <1>14, <3>2, <3>3, <3>4, HubOperation
  <2>4. SendingOK'
    <3>1. {Head(actions).id} \cap users' \in SUBSET Sessions
      BY <1>14, HeadAction DEF HubAction
    <3> QED
      BY <1>14, <3>1, SendToTyped DEF HubAction
  <2> QED
    BY <2>1, <2>2, <2>3, <2>4
<1>15. CASE HubData
  <2>1. TasksOK'
    BY <1>15 DEF HubData, SendTo, TasksOK
  <2>2. ChannelsOK'
    BY <1>15 DEF HubData, SendTo, ChannelsOK
  <2>3. MapsOK'
    <3>1. Head(data) \in Symbols
      BY <1>15 DEF HubData, ChannelsOK
    <3> QED
      BY <1>15, <3>1 DEF HubData, MapsOK
  <2>4. SendingOK'
    <3>1. Head(data) \in Symbols
      BY <1>15 DEF HubData, ChannelsOK
    <3>2. subs[Head(data)] \in SUBSET Sessions
      BY <3>1 DEF MapsOK
    <3> QED
      BY <1>15, <3>2, SendToTyped DEF HubData
  <2> QED
    BY <2>1, <2>2, <2>3, <2>4
<1>16. CASE HubSend
  <2>1. TasksOK'
    BY <1>16 DEF HubSend, SendTo, TasksOK
  <2>2. ChannelsOK'
    BY <1>16 DEF HubSend, SendTo, ChannelsOK
  <2>3. MapsOK'
    BY <1>16 DEF HubSend, SendTo, MapsOK
  <2>4. SendingOK'
    BY <1>16 DEF HubSend, SendTo, SendingOK
  <2> QED
    BY <2>1, <2>2, <2>3, <2>4
<1>17. CASE UNCHANGED vars
  BY <1>17 DEF vars, TasksOK, ChannelsOK, MapsOK, SendingOK
<1> QED
  BY <1>1, <1>2, <1>3, <1>4, <1>5, <1>6, <1>7, <1>8, <1>9, <1>10, <1>11, <1>12,
     <1>13, <1>14, <1>15, <1>16, <1>17
     DEF Next, Commands, SessionRun, HubRun

(* A subscriber is entered in both maps, and leaves sub_list first.          *)
LEMMA UsersStep ==
  TypeOK /\ SubscribersAreUsers /\ [Next]_vars => SubscribersAreUsers'
<1> SUFFICES ASSUME TypeOK, SubscribersAreUsers, [Next]_vars
      PROVE SubscribersAreUsers'
  OBVIOUS
<1> USE HubAssumption
        DEF HubAssumption, tasks, channels, userList, subList, sending, TypeOK,
            MapsOK, SubscribersAreUsers
<1>1. ASSUME NEW id \in Sessions, Connect(id) PROVE SubscribersAreUsers'
  BY <1>1 DEF Connect, Become
<1>2. ASSUME NEW id \in Sessions, Command(id) PROVE SubscribersAreUsers'
  BY <1>2 DEF Command, Become
<1>3. ASSUME NEW id \in Sessions, CommandAll(id) PROVE SubscribersAreUsers'
  BY <1>3 DEF CommandAll, Become
<1>4. ASSUME NEW id \in Sessions, CommandHistory(id) PROVE SubscribersAreUsers'
  BY <1>4 DEF CommandHistory
<1>5. ASSUME NEW id \in Sessions, CommandRefused(id) PROVE SubscribersAreUsers'
  BY <1>5 DEF CommandRefused, Become
<1>6. ASSUME NEW id \in Sessions, Disconnect(id) PROVE SubscribersAreUsers'
  BY <1>6 DEF Disconnect, Become
<1>7. ASSUME NEW id \in Sessions, BinaryPanic(id) PROVE SubscribersAreUsers'
  BY <1>7 DEF BinaryPanic, Become
<1>8. ASSUME NEW id \in Sessions, SendAction(id) PROVE SubscribersAreUsers'
  BY <1>8 DEF SendAction, Become
<1>9. ASSUME NEW id \in Sessions, Reply(id) PROVE SubscribersAreUsers'
  BY <1>9 DEF Reply, Become
<1>10. ASSUME NEW id \in Sessions, Deliver(id) PROVE SubscribersAreUsers'
  BY <1>10 DEF Deliver, Become
<1>11. ASSUME NEW id \in Sessions, SessionEnd(id) PROVE SubscribersAreUsers'
  BY <1>11 DEF SessionEnd, Become
<1>12. ASSUME NEW id \in Sessions, HistorySend(id) PROVE SubscribersAreUsers'
  BY <1>12 DEF HistorySend
<1>13. ASSUME NEW s \in Symbols, FeedSend(s) PROVE SubscribersAreUsers'
  BY <1>13 DEF FeedSend
<1>14. CASE HubAction
  <2> DEFINE id == Head(actions).id
  <2>1. id \in Sessions
    BY <1>14, HeadAction DEF HubAction
  <2>2. ASSUME NEW s \in Symbols, Subscribe(id, s) PROVE SubscribersAreUsers'
    BY <2>1, <2>2 DEF Subscribe
  <2>3. ASSUME NEW s \in Symbols, Unsubscribe(id, s) PROVE SubscribersAreUsers'
    BY <2>1, <2>3 DEF Unsubscribe, DropFeeds
  <2>4. CASE UnsubscribeAll(id)
    BY <2>1, <2>4 DEF UnsubscribeAll, DropFeeds
  <2> QED
    BY <1>14, <2>2, <2>3, <2>4, HubOperation
<1>15. CASE HubData
  BY <1>15 DEF HubData, SendTo
<1>16. CASE HubSend
  BY <1>16 DEF HubSend, SendTo
<1>17. CASE UNCHANGED vars
  BY <1>17 DEF vars
<1> QED
  BY <1>1, <1>2, <1>3, <1>4, <1>5, <1>6, <1>7, <1>8, <1>9, <1>10, <1>11, <1>12,
     <1>13, <1>14, <1>15, <1>16, <1>17
     DEF Next, Commands, SessionRun, HubRun

(* json_handle puts its own id into every action.                            *)
LEMMA OwnStep ==
  TypeOK /\ TodoIsOwn /\ [Next]_vars => TodoIsOwn'
<1> SUFFICES ASSUME TypeOK, TodoIsOwn, [Next]_vars PROVE TodoIsOwn'
  OBVIOUS
<1> USE HubAssumption
        DEF HubAssumption, tasks, channels, userList, subList, sending, TypeOK,
            TasksOK, TodoIsOwn
<1>1. ASSUME NEW id \in Sessions, Connect(id) PROVE TodoIsOwn'
  BY <1>1 DEF Connect, Become
<1>2. ASSUME NEW id \in Sessions, Command(id) PROVE TodoIsOwn'
  <2>1. PICK op \in {"subscribe", "unsubscribe"},
             args \in SeqOf(Symbols, MaxArgs) \ {<<>>} :
          todo' = [todo EXCEPT ![id] =
                    [i \in DOMAIN args |->
                       [id |-> id, op |-> op, symbol |-> args[i]]]]
    BY <1>2 DEF Command
  <2> QED
    BY <2>1
<1>3. ASSUME NEW id \in Sessions, CommandAll(id) PROVE TodoIsOwn'
  <2>1. \A i \in DOMAIN <<Leave(id)>> : <<Leave(id)>>[i].id = id
    BY DEF Leave
  <2>2. todo'[id] = <<Leave(id)>>
        /\ \A u \in Sessions \ {id} : todo'[u] = todo[u]
    BY <1>3 DEF CommandAll
  <2> QED
    BY <2>1, <2>2
<1>4. ASSUME NEW id \in Sessions, CommandHistory(id) PROVE TodoIsOwn'
  BY <1>4 DEF CommandHistory
<1>5. ASSUME NEW id \in Sessions, CommandRefused(id) PROVE TodoIsOwn'
  BY <1>5 DEF CommandRefused, Become
<1>6. ASSUME NEW id \in Sessions, Disconnect(id) PROVE TodoIsOwn'
  BY <1>6 DEF Disconnect, Become
<1>7. ASSUME NEW id \in Sessions, BinaryPanic(id) PROVE TodoIsOwn'
  BY <1>7 DEF BinaryPanic, Become
<1>8. ASSUME NEW id \in Sessions, SendAction(id) PROVE TodoIsOwn'
  BY <1>8 DEF SendAction, Become
<1>9. ASSUME NEW id \in Sessions, Reply(id) PROVE TodoIsOwn'
  BY <1>9 DEF Reply, Become
<1>10. ASSUME NEW id \in Sessions, Deliver(id) PROVE TodoIsOwn'
  BY <1>10 DEF Deliver, Become
<1>11. ASSUME NEW id \in Sessions, SessionEnd(id) PROVE TodoIsOwn'
  BY <1>11 DEF SessionEnd, Become
<1>12. ASSUME NEW id \in Sessions, HistorySend(id) PROVE TodoIsOwn'
  BY <1>12 DEF HistorySend
<1>13. ASSUME NEW s \in Symbols, FeedSend(s) PROVE TodoIsOwn'
  BY <1>13 DEF FeedSend
<1>14. CASE HubAction
  BY <1>14
     DEF HubAction, SendTo, Subscribe, Unsubscribe, UnsubscribeAll, DropFeeds
<1>15. CASE HubData
  BY <1>15 DEF HubData, SendTo
<1>16. CASE HubSend
  BY <1>16 DEF HubSend, SendTo
<1>17. CASE UNCHANGED vars
  BY <1>17 DEF vars
<1> QED
  BY <1>1, <1>2, <1>3, <1>4, <1>5, <1>6, <1>7, <1>8, <1>9, <1>10, <1>11, <1>12,
     <1>13, <1>14, <1>15, <1>16, <1>17
     DEF Next, Commands, SessionRun, HubRun

(* Unsubscribe(None) stays the last word of a session that ended.            *)
LEMMA LeaveStep ==
  TypeOK /\ TodoIsOwn /\ LastIsLeave /\ [Next]_vars => LastIsLeave'
<1> SUFFICES ASSUME TypeOK, TodoIsOwn, LastIsLeave, [Next]_vars
      PROVE LastIsLeave'
  OBVIOUS
<1> USE HubAssumption
        DEF HubAssumption, tasks, channels, userList, subList, sending, TypeOK,
            TasksOK, ChannelsOK, MapsOK, TodoIsOwn, LastIsLeave, LastIsLeaveOf,
            Leave
<1>1. ASSUME NEW id \in Sessions, Connect(id) PROVE LastIsLeave'
  BY <1>1 DEF Connect, Become
<1>2. ASSUME NEW id \in Sessions, Command(id) PROVE LastIsLeave'
  BY <1>2 DEF Command, Become
<1>3. ASSUME NEW id \in Sessions, CommandAll(id) PROVE LastIsLeave'
  BY <1>3 DEF CommandAll, Become
<1>4. ASSUME NEW id \in Sessions, CommandHistory(id) PROVE LastIsLeave'
  BY <1>4 DEF CommandHistory
<1>5. ASSUME NEW id \in Sessions, CommandRefused(id) PROVE LastIsLeave'
  BY <1>5 DEF CommandRefused, Become
<1>6. ASSUME NEW id \in Sessions, Disconnect(id) PROVE LastIsLeave'
  BY <1>6 DEF Disconnect, Become
<1>7. ASSUME NEW id \in Sessions, BinaryPanic(id) PROVE LastIsLeave'
  BY <1>7 DEF BinaryPanic, Become
<1>8. ASSUME NEW id \in Sessions, SendAction(id) PROVE LastIsLeave'
  <2>1. Head(todo[id]) \in Actions /\ Head(todo[id]).id = id
    <3>1. todo[id] \in Seq(Actions) /\ todo[id] # <<>>
      BY <1>8 DEF SendAction
    <3>2. Head(todo[id]) = todo[id][1] /\ 1 \in DOMAIN todo[id]
          /\ Head(todo[id]) \in Actions
      BY <3>1
    <3> QED
      BY <3>2
  <2>2. actions' = Append(actions, Head(todo[id])) /\ users' = users
    BY <1>8 DEF SendAction
  <2>3. SUFFICES ASSUME NEW u \in Sessions, session'[u] = "gone"
                 PROVE  LastIsLeaveOf(u)'
    BY DEF LastIsLeaveOf
  <2>4. u # id /\ session[u] = "gone"
    BY <1>8, <2>3 DEF SendAction, Become
  <2>5. LastIsLeaveOf(u)
    BY <2>4 DEF LastIsLeaveOf
  <2> QED
    BY <2>1, <2>2, <2>4, <2>5, OthersAppend
<1>9. ASSUME NEW id \in Sessions, Reply(id) PROVE LastIsLeave'
  BY <1>9 DEF Reply, Become
<1>10. ASSUME NEW id \in Sessions, Deliver(id) PROVE LastIsLeave'
  BY <1>10 DEF Deliver, Become
<1>11. ASSUME NEW id \in Sessions, SessionEnd(id) PROVE LastIsLeave'
  <2>1. actions' = Append(actions, Leave(id)) /\ users' = users
    BY <1>11 DEF SessionEnd
  <2>2. Leave(id) \in Actions /\ Leave(id).id = id
    BY DEF Actions
  <2>3. SUFFICES ASSUME NEW u \in Sessions, session'[u] = "gone"
                 PROVE  LastIsLeaveOf(u)'
    BY DEF LastIsLeaveOf
  <2>4. CASE u = id
    BY <2>1, <2>4, OwnAppend
  <2>5. CASE u # id
    <3>1. session[u] = "gone"
      BY <1>11, <2>3, <2>5 DEF SessionEnd, Become
    <3>2. LastIsLeaveOf(u)
      BY <3>1 DEF LastIsLeaveOf
    <3> QED
      BY <2>1, <2>2, <2>5, <3>2, OthersAppend
  <2> QED
    BY <2>4, <2>5
<1>12. ASSUME NEW id \in Sessions, HistorySend(id) PROVE LastIsLeave'
  BY <1>12 DEF HistorySend
<1>13. ASSUME NEW s \in Symbols, FeedSend(s) PROVE LastIsLeave'
  BY <1>13 DEF FeedSend
<1>14. CASE HubAction
  <2> DEFINE a == Head(actions)
  <2>1. actions # <<>> /\ actions' = Tail(actions) /\ session' = session
    BY <1>14 DEF HubAction
  <2>2. ASSUME NEW u \in Sessions, u \notin users, u # a.id
        PROVE u \notin users'
    <3>1. ASSUME NEW s \in Symbols, Subscribe(a.id, s) \/ Unsubscribe(a.id, s)
          PROVE  u \notin users'
      BY <2>2, <3>1 DEF Subscribe, Unsubscribe
    <3>2. CASE UnsubscribeAll(a.id)
      BY <2>2, <3>2 DEF UnsubscribeAll
    <3> QED
      BY <1>14, <3>1, <3>2, HubOperation
  <2>3. SUFFICES ASSUME NEW u \in Sessions, session[u] = "gone"
                 PROVE  LastIsLeaveOf(u)'
    BY <2>1 DEF LastIsLeaveOf
  <2>4. LastIsLeaveOf(u)
    BY <2>3 DEF LastIsLeaveOf
  <2>5. CASE \E i \in DOMAIN actions :
               /\ actions[i] = Leave(u)
               /\ \A j \in DOMAIN actions : j > i => actions[j].id # u
    <3>1. PICK i \in DOMAIN actions :
               /\ actions[i] = Leave(u)
               /\ \A j \in DOMAIN actions : j > i => actions[j].id # u
      BY <2>5
    <3>2. CASE i = 1
      <4>1. a = Leave(u)
        BY <2>1, <3>1, <3>2, Removed
      <4>2. a.id = u /\ a.op = "leave"
        BY <4>1
      <4>3. u \notin users'
        BY <1>14, <4>2, HeadAction DEF HubAction, UnsubscribeAll
      <4> QED
        BY <2>1, <3>1, <3>2, <4>3, Removed DEF LastIsLeaveOf
    <3>3. CASE i # 1
      <4>1. i - 1 \in DOMAIN actions' /\ actions'[i - 1] = Leave(u)
        BY <2>1, <3>1, <3>3, Removed
      <4>2. \A j \in DOMAIN actions' : j > i - 1 => actions'[j].id # u
        BY <2>1, <3>1, Removed
      <4> QED
        BY <4>1, <4>2 DEF LastIsLeaveOf
    <3> QED
      BY <3>2, <3>3
  <2>6. CASE u \notin users /\ \A j \in DOMAIN actions : actions[j].id # u
    <3>1. a.id # u
      BY <2>1, <2>6, Removed
    <3>2. u \notin users'
      BY <2>2, <2>6, <3>1
    <3>3. \A j \in DOMAIN actions' : actions'[j].id # u
      BY <2>1, <2>6, Removed
    <3> QED
      BY <3>2, <3>3 DEF LastIsLeaveOf
  <2> QED
    BY <2>4, <2>5, <2>6 DEF LastIsLeaveOf
<1>15. CASE HubData
  BY <1>15 DEF HubData, SendTo
<1>16. CASE HubSend
  BY <1>16 DEF HubSend, SendTo
<1>17. CASE UNCHANGED vars
  BY <1>17 DEF vars
<1> QED
  BY <1>1, <1>2, <1>3, <1>4, <1>5, <1>6, <1>7, <1>8, <1>9, <1>10, <1>11, <1>12,
     <1>13, <1>14, <1>15, <1>16, <1>17
     DEF Next, Commands, SessionRun, HubRun

(* The hub and its sessions start with nothing.                             *)
LEMMA InvInit == Init => IInv
<1> SUFFICES ASSUME Init PROVE IInv
  OBVIOUS
<1> USE HubAssumption DEF Init, HubAssumption
<1>1. TasksOK
  BY DEF TasksOK, States
<1>2. ChannelsOK
  BY DEF ChannelsOK
<1>3. MapsOK /\ SendingOK
  BY DEF MapsOK, SendingOK
<1>4. SubscribersAreUsers /\ TodoIsOwn /\ LastIsLeave
  BY DEF SubscribersAreUsers, TodoIsOwn, LastIsLeave
<1> QED
  BY <1>1, <1>2, <1>3, <1>4 DEF IInv, TypeOK

(* The inductive invariant is kept by every step: the four lemmas above.    *)
LEMMA InvStep == IInv /\ [Next]_vars => IInv'
  BY TypeStep, UsersStep, OwnStep, LeaveStep DEF IInv, TypeOK

(* IInv is an invariant for every number of sessions and symbols and every
   capacity of the channels, the real ones (1024, 1024, 100) included.      *)
THEOREM Inductive == Spec => []IInv
  BY InvInit, InvStep, PTL DEF Spec

(* The types; no channel ever holds more than its capacity.                 *)
THEOREM TypeCorrect == Spec => []TypeOK
<1>1. IInv => TypeOK
  BY DEF IInv
<1> QED
  BY <1>1, Inductive, PTL

(* user_list and sub_list agree: data is pushed to users that asked for it. *)
THEOREM MapsAgree == Spec => []SubscribersAreUsers
<1>1. IInv => SubscribersAreUsers
  BY DEF IInv
<1> QED
  BY <1>1, Inductive, PTL

(* sub_list is changed by action_handle alone.                              *)
LEMMA SubsStep ==
  ASSUME [Next]_vars, ~HubAction
  PROVE  subs' = subs
BY DEF Next, Commands, SessionRun, HubRun, Connect, Command, CommandAll, CommandHistory,
       CommandRefused, Disconnect, BinaryPanic, SendAction, Reply, Deliver, SessionEnd,
       HistorySend, FeedSend, HubData, HubSend, subList, vars

(* Nobody's subscriptions change but on request.                            *)
THEOREM ChangesAreRequested == Spec => SubscriptionsChangeOnRequest
<1>1. TypeOK /\ [Next]_vars => [\A s \in Symbols : ChangedOnRequest(s)]_vars
  <2> SUFFICES ASSUME TypeOK, [Next]_vars, NEW s \in Symbols PROVE ChangedOnRequest(s)
    OBVIOUS
  <2>1. CASE ~HubAction
    BY <2>1, SubsStep DEF ChangedOnRequest
  <2>2. CASE HubAction
    <3> DEFINE a == Head(actions)
    <3>1. /\ to = NoSession /\ actions # <<>> /\ actions' = Tail(actions)
          /\ a \in Actions /\ a.id \in Sessions
      BY <2>2, HeadAction DEF HubAction, TypeOK
    <3>2. subs \in [Symbols -> SUBSET Sessions]
      BY DEF TypeOK, MapsOK
    <3>3. CASE a.op = "subscribe" /\ Subscribe(a.id, a.symbol)
      <4>1. a.symbol \in Symbols /\ a = [id |-> a.id, op |-> "subscribe", symbol |-> a.symbol]
        BY <3>1, <3>3 DEF Actions
      <4>2. subs' = subs \/ subs' = [subs EXCEPT ![a.symbol] = @ \cup {a.id}]
        BY <3>3 DEF Subscribe
      <4>3. \A id \in subs'[s] \ subs[s] : id = a.id /\ s = a.symbol
        BY <3>2, <4>1, <4>2
      <4>4. subs[s] \ subs'[s] = {}
        BY <3>2, <4>1, <4>2
      <4> QED
        BY <3>1, <4>1, <4>3, <4>4 DEF ChangedOnRequest
    <3>4. CASE a.op = "unsubscribe" /\ Unsubscribe(a.id, a.symbol)
      <4>1. subs'[s] = IF s = a.symbol THEN {} ELSE subs[s]
        BY <3>4 DEF Unsubscribe, DropFeeds
      <4> QED
        BY <3>1, <3>4, <4>1 DEF ChangedOnRequest
    <3>5. CASE a.op = "leave" /\ UnsubscribeAll(a.id)
      <4>1. subs'[s] = subs[s] \/ (subs'[s] = {} /\ s \in wanted[a.id])
        BY <3>5 DEF UnsubscribeAll, DropFeeds, subList
      <4> QED
        BY <3>1, <3>5, <4>1 DEF ChangedOnRequest
    <3> QED
      BY <2>2, <3>3, <3>4, <3>5 DEF HubAction
  <2> QED
    BY <2>1, <2>2
<1> QED
  BY <1>1, TypeCorrect, PTL DEF Spec, SubscriptionsChangeOnRequest

(* A session that ended is forgotten once its Unsubscribe(None) is handled:
   no action of its own can come after it and make it a user again.         *)
THEOREM EndedSessionsForgotten == Spec => []GoneAreForgotten
<1>1. IInv => GoneAreForgotten
  <2> SUFFICES ASSUME IInv, NEW id \in Sessions, session[id] = "gone",
                      Leave(id) \notin ToSet(actions)
               PROVE  id \notin users /\ \A s \in Symbols : id \notin subs[s]
    BY DEF GoneAreForgotten
  <2>1. \A i \in DOMAIN actions : actions[i] # Leave(id)
    BY DEF ToSet
  <2>2. id \notin users
    BY <2>1 DEF IInv, LastIsLeave, LastIsLeaveOf
  <2> QED
    BY <2>2 DEF IInv, SubscribersAreUsers
<1> QED
  BY <1>1, Inductive, PTL
==============================================================================
