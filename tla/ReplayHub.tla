------------------------------ MODULE ReplayHub ------------------------------
(***************************************************************************)
(* The websocket service of crypto-market-replay: one session task per     *)
(* client (handle_socket.rs), one hub task that keeps all subscriptions    *)
(* (msg_sub_handle in lib.rs), and the bounded tokio channels between      *)
(* them:                                                                   *)
(*                                                                         *)
(*   sessions --actions--> hub <--data-- feed tasks                        *)
(*   hub, history tasks and the session itself --outbox[id]--> session id  *)
(*                                                                         *)
(* A send on a full channel suspends the sending task, and with it all     *)
(* else that task does: a suspended session neither reads its outbox nor   *)
(* its socket, a suspended hub handles neither actions nor data.           *)
(***************************************************************************)
EXTENDS Naturals, Sequences, SequencesExt

CONSTANTS
  Sessions,     \* values of SOCKET_SESSION_ID, one for each connection
  Symbols,      \* market data streams, all of them configured
  NoSession,    \* a value that is no session
  ActionCap,    \* capacity of the action channel (1024 in main.rs)
  DataCap,      \* capacity of the data channel (1024 in lib.rs)
  JsonCap,      \* capacity of a session's outbox (100 in handle_socket.rs)
  MaxArgs,      \* bound: arguments of one command
  MaxHistory    \* bound: messages the history tasks of a session have to send

ASSUME HubAssumption ==
  /\ NoSession \notin Sessions
  /\ {ActionCap, DataCap, JsonCap, MaxArgs} \subseteq Nat \ {0}
  /\ MaxHistory \in Nat

VARIABLES
  session,      \* where each session task stands
  todo,         \* actions a session has yet to send for the current command
  history,      \* messages the history tasks of a session have yet to send
  outbox,       \* rx_json: number of messages queued for each session
  actions,      \* the action channel
  data,         \* the data channel
  users,        \* user_list: its keys
  wanted,       \* user_list: the symbols of each user
  feeds,        \* sub_list: its keys
  subs,         \* sub_list: the sessions subscribed to each symbol
  due,          \* hub: sessions the current message is still to be sent to
  to            \* hub: the one of them whose channel it waits for

tasks    == <<session, todo, history>>
channels == <<outbox, actions, data>>
userList == <<users, wanted>>
subList  == <<feeds, subs>>
sending  == <<due, to>>
vars     == <<tasks, channels, userList, subList, sending>>

(* Subscribe(s), Unsubscribe(Some(s)) and Unsubscribe(None)                *)
Actions ==
  [id : Sessions, op : {"subscribe", "unsubscribe"}, symbol : Symbols]
    \cup [id : Sessions, op : {"leave"}]

Leave(id) == [id |-> id, op |-> "leave"]

(* rx_json is dropped when the session task ends.                          *)
Closed(id) == session[id] \in {"gone", "crashed"}

Init ==
  /\ session = [id \in Sessions |-> "off"]
  /\ todo = [id \in Sessions |-> <<>>]
  /\ history = [id \in Sessions |-> 0]
  /\ outbox = [id \in Sessions |-> 0]
  /\ actions = <<>>
  /\ data = <<>>
  /\ users = {}
  /\ wanted = [id \in Sessions |-> {}]
  /\ feeds = {}
  /\ subs = [s \in Symbols |-> {}]
  /\ due = {}
  /\ to = NoSession

------------------------------------------------------------------------------
(* A session: handle_socket and json_handle *)

Become(id, l) == session' = [session EXCEPT ![id] = l]

(* A websocket is upgraded and gets the next id.                           *)
Connect(id) ==
  /\ session[id] = "off"
  /\ Become(id, "idle")
  /\ UNCHANGED <<todo, history, channels, userList, subList, sending>>

(* "subscribe" or "unsubscribe" with arguments: one action for each.       *)
Command(id) ==
  /\ session[id] = "idle"
  /\ \E op \in {"subscribe", "unsubscribe"}, args \in SeqOf(Symbols, MaxArgs) \ {<<>>} :
       todo' = [todo EXCEPT ![id] =
                 [i \in DOMAIN args |-> [id |-> id, op |-> op, symbol |-> args[i]]]]
  /\ Become(id, "sending")
  /\ UNCHANGED <<history, channels, userList, subList, sending>>

(* "unsubscribe" without arguments: from everything.                       *)
CommandAll(id) ==
  /\ session[id] = "idle"
  /\ todo' = [todo EXCEPT ![id] = <<Leave(id)>>]
  /\ Become(id, "sending")
  /\ UNCHANGED <<history, channels, userList, subList, sending>>

(* "history": a task of its own reads the files and fills the outbox.      *)
CommandHistory(id) ==
  /\ session[id] = "idle"
  /\ \E n \in 1..MaxHistory :
       /\ history[id] + n <= MaxHistory
       /\ history' = [history EXCEPT ![id] = @ + n]
  /\ UNCHANGED <<session, todo, channels, userList, subList, sending>>

(* An unknown action, or a history whose range is refused: the session puts
   an error into the outbox it is itself the reader of.                    *)
CommandRefused(id) ==
  /\ session[id] = "idle"
  /\ Become(id, "replying")
  /\ UNCHANGED <<todo, history, channels, userList, subList, sending>>

(* Text that is no command, a close frame, or a receive error: the loop
   ends, and the session will unsubscribe from everything.                 *)
Disconnect(id) ==
  /\ session[id] = "idle"
  /\ Become(id, "leaving")
  /\ UNCHANGED <<todo, history, channels, userList, subList, sending>>

(* Binary data is answered on the socket; if that fails the unwrap panics
   and nobody tells the hub.                                               *)
BinaryPanic(id) ==
  /\ session[id] = "idle"
  /\ Become(id, "crashed")
  /\ outbox' = [outbox EXCEPT ![id] = 0]
  /\ UNCHANGED <<todo, history, actions, data, userList, subList, sending>>

(* sender.send(...).await for the next action of the command.              *)
SendAction(id) ==
  /\ session[id] = "sending"
  /\ Len(actions) < ActionCap
  /\ actions' = Append(actions, Head(todo[id]))
  /\ todo' = [todo EXCEPT ![id] = Tail(@)]
  /\ IF Len(todo[id]) = 1 THEN Become(id, "idle") ELSE UNCHANGED session
  /\ UNCHANGED <<history, outbox, data, userList, subList, sending>>

(* tx_json.send(...).await by the session itself.                          *)
Reply(id) ==
  /\ session[id] = "replying"
  /\ outbox[id] < JsonCap
  /\ outbox' = [outbox EXCEPT ![id] = @ + 1]
  /\ Become(id, "idle")
  /\ UNCHANGED <<todo, history, actions, data, userList, subList, sending>>

(* The next queued message goes to the client; if the socket refuses it the
   loop ends.                                                              *)
Deliver(id) ==
  /\ session[id] = "idle"
  /\ outbox[id] > 0
  /\ outbox' = [outbox EXCEPT ![id] = @ - 1]
  /\ UNCHANGED session \/ Become(id, "leaving")
  /\ UNCHANGED <<todo, history, actions, data, userList, subList, sending>>

(* Mutant: the session ends without a word to the hub.                     *)
SessionEndSilently(id) ==
  /\ session[id] = "leaving"
  /\ Become(id, "gone")
  /\ outbox' = [outbox EXCEPT ![id] = 0]
  /\ UNCHANGED <<todo, history, actions, data, userList, subList, sending>>

(* Unsubscribe(None) is the last thing a session sends; then its outbox is
   dropped.                                                                *)
SessionEnd(id) ==
  /\ session[id] = "leaving"
  /\ Len(actions) < ActionCap
  /\ actions' = Append(actions, Leave(id))
  /\ Become(id, "gone")
  /\ outbox' = [outbox EXCEPT ![id] = 0]
  /\ UNCHANGED <<todo, history, data, userList, subList, sending>>

(* history_handle: the next message, or the panic of its expect() when the
   session is gone.                                                        *)
HistorySend(id) ==
  /\ history[id] > 0
  /\ IF Closed(id)
     THEN history' = [history EXCEPT ![id] = 0] /\ UNCHANGED outbox
     ELSE /\ outbox[id] < JsonCap
          /\ outbox' = [outbox EXCEPT ![id] = @ + 1]
          /\ history' = [history EXCEPT ![id] = @ - 1]
  /\ UNCHANGED <<session, todo, actions, data, userList, subList, sending>>

------------------------------------------------------------------------------
(* A feed task: the closure given to DynamicConfigHandler *)

FeedSend(s) ==
  /\ Len(data) < DataCap
  /\ data' = Append(data, s)
  /\ UNCHANGED <<tasks, outbox, actions, userList, subList, sending>>

------------------------------------------------------------------------------
(* The hub: msg_sub_handle.  It selects only when nothing is left to send. *)

SendTo(S) ==
  /\ due' = S
  /\ IF S = {} THEN to' = NoSession ELSE to' \in S

(* action_handle_subscribe.  A new user is entered with the symbol before it
   is known whether the symbol has a feed; a known user may only name a
   symbol it has already.                                                  *)
Subscribe(id, s) ==
  LET refused == id \in users /\ s \notin wanted[id] IN
  /\ users' = users \cup {id}
  /\ wanted' = IF id \in users THEN wanted ELSE [wanted EXCEPT ![id] = {s}]
  /\ subs' = IF refused \/ s \notin feeds THEN subs ELSE [subs EXCEPT ![s] = @ \cup {id}]
  /\ UNCHANGED feeds

(* Drop the symbols of S from sub_list, with all their subscribers.        *)
DropFeeds(S) ==
  /\ feeds' = feeds \ S
  /\ subs' = [s \in Symbols |-> IF s \in S THEN {} ELSE subs[s]]

(* action_handle_unsubscribe with a symbol.                                *)
Unsubscribe(id, s) ==
  /\ DropFeeds({s})
  /\ UNCHANGED userList

(* Mutant: the user is removed, its entries in sub_list are not.           *)
UnsubscribeAllKeepsFeeds(id) ==
  /\ users' = users \ {id}
  /\ wanted' = [wanted EXCEPT ![id] = {}]
  /\ UNCHANGED subList

(* Mutant: the entries are removed, the user is not.                       *)
UnsubscribeAllKeepsUser(id) ==
  /\ DropFeeds(wanted[id])
  /\ UNCHANGED userList

(* action_handle_unsubscribe without one.                                  *)
UnsubscribeAll(id) ==
  IF id \in users
  THEN /\ DropFeeds(wanted[id])
       /\ users' = users \ {id}
       /\ wanted' = [wanted EXCEPT ![id] = {}]
  ELSE UNCHANGED <<userList, subList>>

(* action_handle: the maps are updated, then the user, if it is one, is
   answered.                                                               *)
HubAction ==
  /\ to = NoSession
  /\ actions # <<>>
  /\ actions' = Tail(actions)
  /\ LET a == Head(actions) IN
       /\ \/ a.op = "subscribe" /\ Subscribe(a.id, a.symbol)
          \/ a.op = "unsubscribe" /\ Unsubscribe(a.id, a.symbol)
          \/ a.op = "leave" /\ UnsubscribeAll(a.id)
       /\ SendTo({a.id} \cap users')
  /\ UNCHANGED <<tasks, outbox, data>>

(* Mutant: each message stores a new entry for its symbol.                 *)
HubDataResets ==
  /\ to = NoSession
  /\ data # <<>>
  /\ data' = Tail(data)
  /\ feeds' = feeds \cup {Head(data)}
  /\ subs' = [subs EXCEPT ![Head(data)] = {}]
  /\ SendTo(subs[Head(data)])
  /\ UNCHANGED <<tasks, outbox, actions, userList>>

(* data_hander: the first message of a symbol creates its entry and is lost;
   later ones go to the subscribers in the order of a hash map.            *)
HubData ==
  /\ to = NoSession
  /\ data # <<>>
  /\ data' = Tail(data)
  /\ feeds' = feeds \cup {Head(data)}
  /\ SendTo(subs[Head(data)])
  /\ UNCHANGED <<tasks, outbox, actions, userList, subs>>

(* Mutant: the hub waits for a place in a channel nobody reads any more.   *)
HubSendWaits ==
  /\ to # NoSession
  /\ ~Closed(to)
  /\ outbox[to] < JsonCap
  /\ outbox' = [outbox EXCEPT ![to] = @ + 1]
  /\ SendTo(due \ {to})
  /\ UNCHANGED <<tasks, actions, data, userList, subList>>

(* tx_json.send(...).await completes, with an Err the hub ignores if the
   receiver has been dropped.                                              *)
HubSend ==
  /\ to # NoSession
  /\ \/ Closed(to) /\ UNCHANGED outbox
     \/ /\ ~Closed(to)
        /\ outbox[to] < JsonCap
        /\ outbox' = [outbox EXCEPT ![to] = @ + 1]
  /\ SendTo(due \ {to})
  /\ UNCHANGED <<tasks, actions, data, userList, subList>>

------------------------------------------------------------------------------
Commands(id) ==
  \/ Connect(id)
  \/ Command(id) \/ CommandAll(id) \/ CommandHistory(id)
  \/ CommandRefused(id) \/ Disconnect(id) \/ BinaryPanic(id)

SessionRun(id) == SendAction(id) \/ Reply(id) \/ Deliver(id) \/ SessionEnd(id)

HubRun == HubAction \/ HubData \/ HubSend

Next ==
  \/ \E id \in Sessions : Commands(id) \/ SessionRun(id) \/ HistorySend(id)
  \/ \E s \in Symbols : FeedSend(s)
  \/ HubRun

Spec == Init /\ [][Next]_vars

(* The runtime polls every task that can go on, and tokio serves the senders
   that wait for a channel first come, first served.  select! picks a ready
   branch at random: the hub does not pass over its actions for ever, nor a
   session over its outbox.  Clients read what they are sent.  Nothing is
   assumed of the feeds, the history tasks and of what clients send.       *)
FairSpec ==
  /\ Spec
  /\ SF_vars(HubAction)
  /\ SF_vars(HubRun)
  /\ \A id \in Sessions : SF_vars(SessionRun(id))

------------------------------------------------------------------------------
(* Invariants *)

States == {"off", "idle", "sending", "replying", "leaving", "gone", "crashed"}

TasksOK ==
  /\ session \in [Sessions -> States]
  /\ todo \in [Sessions -> Seq(Actions)]
  /\ history \in [Sessions -> 0..MaxHistory]
  /\ \A id \in Sessions : session[id] = "sending" => todo[id] # <<>>

ChannelsOK ==
  /\ outbox \in [Sessions -> 0..JsonCap]
  /\ actions \in Seq(Actions) /\ Len(actions) <= ActionCap
  /\ data \in Seq(Symbols) /\ Len(data) <= DataCap

MapsOK ==
  /\ users \in SUBSET Sessions
  /\ wanted \in [Sessions -> SUBSET Symbols]
  /\ feeds \in SUBSET Symbols
  /\ subs \in [Symbols -> SUBSET Sessions]

SendingOK ==
  /\ due \in SUBSET Sessions
  /\ IF due = {} THEN to = NoSession ELSE to \in due

(* The types, and the capacities of all channels.                          *)
TypeOK == TasksOK /\ ChannelsOK /\ MapsOK /\ SendingOK

(* The two maps of the hub agree: who is pushed a symbol is a user that asked
   for it.                                                                 *)
SubscribersAreUsers ==
  \A s \in Symbols : \A id \in subs[s] : id \in users /\ s \in wanted[id]

(* A session that ended properly is forgotten by the hub as soon as the last
   action it sent has been handled: it is no user and no subscriber.       *)
GoneAreForgotten ==
  \A id \in Sessions :
    session[id] = "gone" /\ Leave(id) \notin ToSet(actions) =>
      id \notin users /\ \A s \in Symbols : id \notin subs[s]

------------------------------------------------------------------------------
(* The inductive invariant behind the safety properties *)

(* A session sends only actions of its own.                                *)
TodoIsOwn ==
  \A id \in Sessions : \A i \in DOMAIN todo[id] : todo[id][i].id = id

(* The last word of an ended session is Unsubscribe(None): until the hub has
   handled it no other action of the session is behind it, then none is left
   at all and the session is no user.                                      *)
LastIsLeaveOf(id) ==
  \/ \E i \in DOMAIN actions :
       /\ actions[i] = Leave(id)
       /\ \A j \in DOMAIN actions : j > i => actions[j].id # id
  \/ /\ id \notin users
     /\ \A j \in DOMAIN actions : actions[j].id # id

LastIsLeave == \A id \in Sessions : session[id] = "gone" => LastIsLeaveOf(id)

IInv ==
  /\ TypeOK
  /\ SubscribersAreUsers
  /\ TodoIsOwn
  /\ LastIsLeave

------------------------------------------------------------------------------
(* Action property *)

(* The subscriptions of s change while no message is on its way to them, and
   by the next action of the channel: the subscriber's own, or, for the loss
   of one, anybody's unsubscribe of s or the leave of a user that wants s.  *)
ChangedOnRequest(s) ==
  LET a == Head(actions) IN
  /\ subs'[s] # subs[s] => to = NoSession /\ actions # <<>> /\ actions' = Tail(actions)
  /\ \A id \in subs'[s] \ subs[s] : a = [id |-> id, op |-> "subscribe", symbol |-> s]
  /\ subs[s] \ subs'[s] # {} =>
       \/ a.op = "unsubscribe" /\ a.symbol = s
       \/ a.op = "leave" /\ s \in wanted[a.id]

(* Whatever data come and go, an entry of sub_list that is created anew, an
   ended session, a subscribe that fails, a hub that waits: nobody is
   subscribed but by its own subscribe, nor loses a subscription but by a
   request that concerns this symbol, though it may be another session's.  *)
SubscriptionsChangeOnRequest == [][\A s \in Symbols : ChangedOnRequest(s)]_vars

------------------------------------------------------------------------------
(* Liveness *)

(* The hub waits for the outbox of id, id for a place in the action channel,
   which only the hub can empty.                                           *)
CircularWait(id) ==
  /\ to = id
  /\ session[id] \in {"sending", "leaving"}
  /\ outbox[id] = JsonCap
  /\ Len(actions) = ActionCap

(* A session waits for a place in the outbox only it can empty.            *)
SelfWait(id) == session[id] = "replying" /\ outbox[id] = JsonCap

Stuck == \E id \in Sessions : CircularWait(id) \/ SelfWait(id)

(* Unless a session is deadlocked with the hub or with itself, the hub comes
   back to its select loop.                                                *)
HubComesBack == to # NoSession ~> (to = NoSession \/ Stuck)

(* With the same reservation an ended session is forgotten in the end.     *)
EndedAreForgotten ==
  \A id \in Sessions : session[id] = "gone" ~> (id \notin users \/ Stuck)

==============================================================================
