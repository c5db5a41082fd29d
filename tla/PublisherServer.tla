--------------------------- MODULE PublisherServer ---------------------------
(***************************************************************************)
(* The QUIC publisher server of crypto-market-publisher/src/server.rs: two *)
(* global maps, each behind its own std::sync::Mutex, and the four threads *)
(* that share them.                                                        *)
(*                                                                         *)
(*   CLIENT_LIST       ConnectionId -> Client        here: list            *)
(*   CLIENT_SUBSCRIBE  topic -> set of ConnectionId  here: topics, subs    *)
(*                                                                         *)
(*   Conn   server_connection   reads datagrams, handles sub/unsub         *)
(*   Alive  server_alive_check  collects closed connections                *)
(*   Sender server_send         registers the topic, spawns the next one   *)
(*   Dist   the spawned task    pushes each message to the subscribers     *)
(*                                                                         *)
(* A step runs from one lock operation to the next: what a thread does     *)
(* while it holds a lock is invisible to the others until it asks for      *)
(* another lock or releases one.  A panic releases the locks its thread    *)
(* holds and poisons them, as std::sync::Mutex does.                       *)
(***************************************************************************)
EXTENDS Naturals, Sequences, SequencesExt

CONSTANTS
  Cids,           \* connection ids
  Topics,         \* names a client may put after the @ of a command
  Ipc,            \* the one topic the server is started for
  NoCid,          \* a value that is no connection id
  MaxCommands,    \* bound: commands in one chunk of stream data
  Contexts,       \* may the thread of server_send carry a tokio runtime
                  \* context?  A std::thread::spawn thread does not.
  SocketFaults    \* may recv_from / send_to fail with a fatal error?

ASSUME ConstantsAssumption ==
  /\ Ipc \in Topics
  /\ NoCid \notin Cids
  /\ MaxCommands \in Nat \ {0}
  /\ Contexts \in (SUBSET BOOLEAN) \ {{}}
  /\ SocketFaults \in BOOLEAN

VARIABLES
  up,             \* is the process running?
  pc,             \* where each thread stands
  listLock,       \* holder of the CLIENT_LIST mutex
  subLock,        \* holder of the CLIENT_SUBSCRIBE mutex
  listPoisoned,   \* has a thread panicked holding CLIENT_LIST?
  subPoisoned,    \* ... holding CLIENT_SUBSCRIBE?
  list,           \* CLIENT_LIST: state of each connection, "absent" if no key
  topics,         \* keys of CLIENT_SUBSCRIBE
  subs,           \* CLIENT_SUBSCRIBE: subscribers of each topic
  cur,            \* Conn: the client whose datagram is being handled
  todo,           \* Conn: commands of the chunk still to be handled
  left,           \* Dist: subscribers the current message has not reached
  pushed          \* Dist: clients the current message was written to

locks  == <<listLock, subLock>>
poison == <<listPoisoned, subPoisoned>>
maps   == <<list, topics, subs>>
chunk  == <<cur, todo>>
push   == <<left, pushed>>
vars   == <<up, pc, locks, poison, maps, chunk, push>>

Conn   == "conn"
Alive  == "alive"
Sender == "sender"
Dist   == "dist"
Nobody == "nobody"

Threads == {Conn, Alive, Sender, Dist}

(* What is_closed() and is_established() of a quiche connection tell apart.
   "draining": a CONNECTION_CLOSE was sent or received; only on_timeout(),
   which the server never calls, would turn it into "closed".              *)
Live     == {"handshake", "established", "draining"}
Statuses == Live \cup {"closed"}

Clients == {c \in Cids : list[c] # "absent"}

(* "sub@topic", "unsub@topic", another action, or text without one @       *)
Commands == [op : {"sub", "unsub", "other"}, topic : Topics]
              \cup {[op |-> "malformed"]}

------------------------------------------------------------------------------
(* Locks *)

At(t, l)   == up /\ pc[t] = l
Goto(t, l) == pc' = [pc EXCEPT ![t] = l]

(* Unwinding drops the guards of t: the mutexes are freed and poisoned.    *)
Panic(t) ==
  /\ Goto(t, "dead")
  /\ listPoisoned' = (listPoisoned \/ listLock = t)
  /\ subPoisoned'  = (subPoisoned \/ subLock = t)
  /\ listLock' = IF listLock = t THEN Nobody ELSE listLock
  /\ subLock'  = IF subLock = t THEN Nobody ELSE subLock

(* The same, for a lock() that returned an Err the caller unwraps.         *)
PanicOnPoison(t) == Panic(t) /\ UNCHANGED <<up, maps, chunk, push>>

LockList(t, l) ==
  /\ listLock = Nobody
  /\ ~listPoisoned
  /\ listLock' = t
  /\ Goto(t, l)
  /\ UNCHANGED subLock

LockSub(t, l) ==
  /\ subLock = Nobody
  /\ ~subPoisoned
  /\ subLock' = t
  /\ Goto(t, l)
  /\ UNCHANGED listLock

(* The end of a scope that holds CLIENT_LIST only.                         *)
DropList(t, l) ==
  /\ listLock' = Nobody
  /\ Goto(t, l)
  /\ UNCHANGED <<subLock, poison>>

DropSub(t, l) ==
  /\ subLock' = Nobody
  /\ Goto(t, l)
  /\ UNCHANGED <<listLock, poison>>

DropBoth(t, l) ==
  /\ listLock' = Nobody
  /\ subLock' = Nobody
  /\ Goto(t, l)
  /\ UNCHANGED poison

KeepLocks(t, l) == Goto(t, l) /\ UNCHANGED <<locks, poison>>

------------------------------------------------------------------------------
Init ==
  /\ up = TRUE
  /\ pc = [t \in Threads |-> CASE t = Conn   -> "poll"
                               [] t = Alive  -> "sleep"
                               [] t = Sender -> "lockSub"
                               [] t = Dist   -> "unborn"]
  /\ listLock = Nobody
  /\ subLock = Nobody
  /\ listPoisoned = FALSE
  /\ subPoisoned = FALSE
  /\ list = [c \in Cids |-> "absent"]
  /\ topics = {}
  /\ subs = [t \in Topics |-> {}]
  /\ cur = NoCid
  /\ todo = <<>>
  /\ left = {}
  /\ pushed = {}

------------------------------------------------------------------------------
(* server_connection *)

(* poll() reports the socket readable; its timeout is None.                *)
ConnPoll ==
  /\ At(Conn, "poll")
  /\ KeepLocks(Conn, "lockList")
  /\ UNCHANGED <<up, maps, chunk, push>>

(* Every turn of the read loop starts with CLIENT_LIST.lock().unwrap().    *)
ConnLockList ==
  /\ At(Conn, "lockList")
  /\ \/ LockList(Conn, "recv") /\ UNCHANGED <<up, poison, maps, chunk, push>>
     \/ listLock = Nobody /\ listPoisoned /\ PanicOnPoison(Conn)

(* A turn that ends without a client: the socket is drained, or answering
   with a version negotiation or a retry packet would block ("poll"); or
   the packet is dropped or was answered statelessly ("lockList").         *)
ConnNoClient ==
  /\ At(Conn, "recv")
  /\ \E l \in {"poll", "lockList"} : DropList(Conn, l)
  /\ UNCHANGED <<up, maps, chunk, push>>

(* recv_from, or the send_to of a stateless answer, failed for good.       *)
ConnSocketFault ==
  /\ At(Conn, "recv") \/ At(Conn, "send")
  /\ SocketFaults
  /\ Panic(Conn)
  /\ UNCHANGED <<up, maps, chunk, push>>

(* After conn.recv: the data of the readable streams is handled chunk by
   chunk, or there is none and the pending packets are sent.               *)
ServeStreams(c) ==
  /\ cur' = c
  /\ \/ /\ list'[c] # "closed"
        /\ todo' \in SeqOf(Commands, MaxCommands) \ {<<>>}
        /\ KeepLocks(Conn, "lockSub")
     \/ todo' = <<>> /\ KeepLocks(Conn, "send")

(* An Initial packet with a valid token for an unknown id: accept() and
   insert.  A first packet that cannot be processed closes the connection
   at once, and the closed client stays in the map.                        *)
ConnAccept(c) ==
  /\ At(Conn, "recv")
  /\ list[c] = "absent"
  /\ \/ /\ list' = [list EXCEPT ![c] = "handshake"]
        /\ ServeStreams(c)
     \/ /\ list' = [list EXCEPT ![c] = "closed"]
        /\ DropList(Conn, "lockList")
        /\ UNCHANGED chunk
  /\ UNCHANGED <<up, topics, subs, push>>

(* What conn.recv may make of a connection.                                *)
AfterRecv(s) ==
  CASE s = "handshake"   -> Live
    [] s = "established" -> {"established", "draining"}
    [] OTHER             -> {s}

(* Mutant: a client whose conn.recv fails is removed from the list at once. *)
ConnReceiveRemoves(c) ==
  /\ At(Conn, "recv")
  /\ list[c] # "absent"
  /\ \/ /\ list' = [list EXCEPT ![c] = "absent"]
        /\ DropList(Conn, "lockList")
        /\ UNCHANGED chunk
     \/ \E s \in AfterRecv(list[c]) :
          /\ list' = [list EXCEPT ![c] = s]
          /\ ServeStreams(c)
  /\ UNCHANGED <<up, topics, subs, push>>

(* A packet for a client of the map.  If conn.recv fails the connection is
   being closed and the turn ends; otherwise its streams are served.       *)
ConnReceive(c) ==
  /\ At(Conn, "recv")
  /\ list[c] # "absent"
  /\ \/ /\ list[c] # "closed"
        /\ list' = [list EXCEPT ![c] = "draining"]
        /\ DropList(Conn, "lockList")
        /\ UNCHANGED chunk
     \/ \E s \in AfterRecv(list[c]) :
          /\ list' = [list EXCEPT ![c] = s]
          /\ ServeStreams(c)
  /\ UNCHANGED <<up, topics, subs, push>>

(* handle_sub: CLIENT_SUBSCRIBE.lock().unwrap() while CLIENT_LIST is held. *)
ConnLockSub ==
  /\ At(Conn, "lockSub")
  /\ \/ LockSub(Conn, "commands") /\ UNCHANGED <<up, poison, maps, chunk, push>>
     \/ subLock = Nobody /\ subPoisoned /\ PanicOnPoison(Conn)

(* Mutant: the topic is created on demand (entry().or_default()).          *)
ConnCommandCreates ==
  /\ At(Conn, "commands")
  /\ todo # <<>>
  /\ LET cmd == Head(todo) IN
       /\ todo' = IF cmd.op = "malformed" THEN <<>> ELSE Tail(todo)
       /\ subs' = IF cmd.op \in {"sub", "unsub"}
                  THEN [subs EXCEPT ![cmd.topic] =
                          IF cmd.op = "sub" THEN @ \cup {cur} ELSE @ \ {cur}]
                  ELSE subs
  /\ KeepLocks(Conn, "commands")
  /\ UNCHANGED <<up, list, topics, cur, push>>

(* One command of handle_sub.  An unknown topic or action is answered with
   an error and changes nothing; malformed text ends the whole chunk.      *)
ConnCommand ==
  /\ At(Conn, "commands")
  /\ todo # <<>>
  /\ LET cmd == Head(todo) IN
       /\ todo' = IF cmd.op = "malformed" THEN <<>> ELSE Tail(todo)
       /\ subs' = IF cmd.op \in {"sub", "unsub"} /\ cmd.topic \in topics
                  THEN [subs EXCEPT ![cmd.topic] =
                          IF cmd.op = "sub" THEN @ \cup {cur} ELSE @ \ {cur}]
                  ELSE subs
  /\ KeepLocks(Conn, "commands")
  /\ UNCHANGED <<up, list, topics, cur, push>>

(* Mutant: the guard lives on while the next chunk is read.                *)
ConnCommandsDoneKeeps ==
  /\ At(Conn, "commands")
  /\ todo = <<>>
  /\ \/ todo' \in SeqOf(Commands, MaxCommands) \ {<<>>} /\ KeepLocks(Conn, "lockSub")
     \/ todo' = <<>> /\ DropSub(Conn, "send")
  /\ UNCHANGED <<up, maps, cur, push>>

(* The end of handle_sub: the guard is dropped; another chunk or the
   pending packets are next.                                               *)
ConnCommandsDone ==
  /\ At(Conn, "commands")
  /\ todo = <<>>
  /\ \/ todo' \in SeqOf(Commands, MaxCommands) \ {<<>>} /\ DropSub(Conn, "lockSub")
     \/ todo' = <<>> /\ DropSub(Conn, "send")
  /\ UNCHANGED <<up, maps, cur, push>>

(* send_package on client c: conn.send() may fail and close c.             *)
SendPackage(c) ==
  \/ UNCHANGED list
  \/ list[c] \in Live /\ list' = [list EXCEPT ![c] = "draining"]

(* send_package, and the end of the turn.                                  *)
ConnSend ==
  /\ At(Conn, "send")
  /\ SendPackage(cur)
  /\ DropList(Conn, "lockList")
  /\ cur' = NoCid
  /\ UNCHANGED <<up, topics, subs, todo, push>>

------------------------------------------------------------------------------
(* server_alive_check *)

AliveWake ==
  /\ At(Alive, "sleep")
  /\ KeepLocks(Alive, "lockList")
  /\ UNCHANGED <<up, maps, chunk, push>>

(* Mutant: the poison is ignored (into_inner).                             *)
AliveLockListAnyway ==
  /\ At(Alive, "lockList")
  /\ listLock = Nobody
  /\ listLock' = Alive
  /\ Goto(Alive, "lockSub")
  /\ UNCHANGED <<up, subLock, poison, maps, chunk, push>>

(* A poisoned mutex makes the thread go back to sleep, not panic.          *)
AliveLockList ==
  /\ At(Alive, "lockList")
  /\ \/ LockList(Alive, "lockSub") /\ UNCHANGED poison
     \/ listLock = Nobody /\ listPoisoned /\ KeepLocks(Alive, "sleep")
  /\ UNCHANGED <<up, maps, chunk, push>>

AliveLockSub ==
  /\ At(Alive, "lockSub")
  /\ \/ LockSub(Alive, "retain") /\ UNCHANGED poison
     \/ subLock = Nobody /\ subPoisoned /\ DropList(Alive, "sleep")
  /\ UNCHANGED <<up, maps, chunk, push>>

(* Mutant: only clients that occur in a topic are examined.                *)
AliveRetainSubscribers ==
  /\ At(Alive, "retain")
  /\ list' = [c \in Cids |-> IF list[c] = "closed" /\ (\E t \in topics : c \in subs[t])
                             THEN "absent" ELSE list[c]]
  /\ subs' = [t \in Topics |-> {c \in subs[t] : list[c] # "closed"}]
  /\ DropBoth(Alive, "sleep")
  /\ UNCHANGED <<up, topics, chunk, push>>

(* retain(): closed clients leave every topic, then the list.              *)
AliveRetain ==
  /\ At(Alive, "retain")
  /\ list' = [c \in Cids |-> IF list[c] = "closed" THEN "absent" ELSE list[c]]
  /\ subs' = [t \in Topics |-> {c \in subs[t] : list[c] # "closed"}]
  /\ DropBoth(Alive, "sleep")
  /\ UNCHANGED <<up, topics, chunk, push>>

------------------------------------------------------------------------------
(* server_send *)

(* CLIENT_SUBSCRIBE.lock().unwrap(), the first thing the thread does: no
   thread can have poisoned it (Dist, the one thread but Sender that panics
   holding it, is spawned later).                                          *)
SenderLockSub ==
  /\ At(Sender, "lockSub")
  /\ LockSub(Sender, "register")
  /\ UNCHANGED <<up, poison, maps, chunk, push>>

(* tokio::task::spawn while the guard is held: it panics on a thread without
   a runtime context.                                                      *)
Spawn ==
  \/ /\ TRUE \in Contexts
     /\ pc' = [pc EXCEPT ![Sender] = "done", ![Dist] = "next"]
     /\ subLock' = Nobody
     /\ UNCHANGED <<listLock, poison>>
  \/ FALSE \in Contexts /\ Panic(Sender)

(* Insert the topic, then spawn the distributing task.                     *)
SenderSpawn ==
  /\ At(Sender, "register")
  /\ topics' = topics \cup {Ipc}
  /\ subs' = [subs EXCEPT ![Ipc] = {}]
  /\ Spawn
  /\ UNCHANGED <<up, list, chunk, push>>

------------------------------------------------------------------------------
(* The distributing task and distribute() *)

(* The next ZeroMQ message; or the connection to the topic fails, before
   the loop or in it, and the task returns.                                *)
DistNext ==
  /\ At(Dist, "next")
  /\ \E l \in {"lockSub", "done"} : KeepLocks(Dist, l)
  /\ UNCHANGED <<up, maps, chunk, push>>

(* Mutant: the subscribers are cloned and the mutex released at once.      *)
DistLockSubSnapshot ==
  /\ At(Dist, "lockSub")
  /\ subLock = Nobody
  /\ ~subPoisoned
  /\ KeepLocks(Dist, "lockList")
  /\ left' = subs[Ipc]
  /\ pushed' = {}
  /\ UNCHANGED <<up, maps, chunk>>

(* CLIENT_SUBSCRIBE first.  The early returns of distribute() for a poisoned
   mutex and for a missing topic are never taken: the topic was registered
   before the task was spawned, and a Dist that poisoned the mutex is dead. *)
DistLockSub ==
  /\ At(Dist, "lockSub")
  /\ LockSub(Dist, "lockList")
  /\ left' = subs[Ipc]
  /\ pushed' = {}
  /\ UNCHANGED <<up, poison, maps, chunk>>

(* Mutant: a poisoned CLIENT_LIST is answered with a return, as a poisoned
   CLIENT_SUBSCRIBE is two statements above.                               *)
DistLockListReturns ==
  /\ At(Dist, "lockList")
  /\ \/ LockList(Dist, "push") /\ UNCHANGED poison
     \/ listLock = Nobody /\ listPoisoned /\ DropSub(Dist, "next")
  /\ UNCHANGED <<up, maps, chunk, push>>

(* CLIENT_LIST.lock().unwrap() while CLIENT_SUBSCRIBE is held.             *)
DistLockList ==
  /\ At(Dist, "lockList")
  /\ \/ LockList(Dist, "push") /\ UNCHANGED <<up, poison, maps, chunk, push>>
     \/ listLock = Nobody /\ listPoisoned /\ PanicOnPoison(Dist)

(* Mutant: the loop waits for a client whose handshake is not over.        *)
DistPushWaits(c) ==
  /\ At(Dist, "push")
  /\ c \in left
  /\ list[c] # "absent"
  /\ IF list[c] = "established"
     THEN left' = left \ {c} /\ pushed' = pushed \cup {c} /\ SendPackage(c)
     ELSE UNCHANGED <<left, pushed, list>>
  /\ KeepLocks(Dist, "push")
  /\ UNCHANGED <<up, topics, subs, chunk>>

(* clients.get_mut(cid).unwrap(), then stream_send and send_package if the
   connection is established.  is_established() stays true for a draining
   connection, but what goes out for it is its close and no data: it is
   visited, it may meet a socket error, and it is not pushed to.  A fatal
   socket error ends the task.                                             *)
DistPush(c) ==
  /\ At(Dist, "push")
  /\ c \in left
  /\ \/ /\ list[c] # "absent"
        /\ left' = left \ {c}
        /\ \/ /\ list[c] = "established"
              /\ pushed' = pushed \cup {c}
              /\ SendPackage(c)
           \/ list[c] # "established" /\ UNCHANGED <<list, pushed>>
        /\ KeepLocks(Dist, "push")
     \/ /\ list[c] = "absent" \/ (SocketFaults /\ list[c] \in {"established", "draining"})
        /\ Panic(Dist)
        /\ UNCHANGED <<list, push>>
  /\ UNCHANGED <<up, topics, subs, chunk>>

DistDone ==
  /\ At(Dist, "push")
  /\ left = {}
  /\ pushed' = {}
  /\ DropBoth(Dist, "next")
  /\ UNCHANGED <<up, maps, chunk, left>>

------------------------------------------------------------------------------
(* create_server joins server_connection first: its panic panics main.
   Dropping the runtime then waits for the distributing task, which has no
   await and leaves its worker thread only by returning or panicking.      *)
MainExit ==
  /\ At(Conn, "dead")
  /\ pc[Dist] \in {"unborn", "done", "dead"}
  /\ up' = FALSE
  /\ UNCHANGED <<pc, locks, poison, maps, chunk, push>>

ConnRun ==
  \/ ConnLockList \/ ConnNoClient \/ ConnSocketFault
  \/ \E c \in Cids : ConnAccept(c) \/ ConnReceive(c)
  \/ ConnLockSub \/ ConnCommand \/ ConnCommandsDone \/ ConnSend

AliveRun  == AliveWake \/ AliveLockList \/ AliveLockSub \/ AliveRetain
SenderRun == SenderLockSub \/ SenderSpawn
DistRun   == DistLockSub \/ DistLockList \/ (\E c \in Cids : DistPush(c)) \/ DistDone

(* A process that has exited stays down: nothing here restarts it.         *)
Down == ~up /\ UNCHANGED vars

Next ==
  \/ ConnPoll \/ ConnRun
  \/ AliveRun
  \/ SenderRun
  \/ DistNext \/ DistRun
  \/ MainExit \/ Down

Spec == Init /\ [][Next]_vars

(* Every thread is scheduled, and a mutex that is free again and again is
   obtained at last.  Nothing is assumed of the network or of ZeroMQ: no
   fairness for ConnPoll and DistNext; but a datagram brings a finite number
   of chunks, so that ConnCommandsDone comes to "send" at last.            *)
FairSpec ==
  /\ Spec
  /\ SF_vars(ConnRun)
  /\ SF_vars(ConnCommandsDone /\ pc'[Conn] = "send")
  /\ SF_vars(AliveRun)
  /\ SF_vars(SenderRun)
  /\ SF_vars(DistRun)
  /\ WF_vars(MainExit)

------------------------------------------------------------------------------
(* Invariants *)

(* The locations of each thread.                                           *)
Labels(t) ==
  CASE t = Conn   -> {"poll", "lockList", "recv", "lockSub", "commands", "send", "dead"}
    [] t = Alive  -> {"sleep", "lockList", "lockSub", "retain"}
    [] t = Sender -> {"lockSub", "register", "done", "dead"}
    [] t = Dist   -> {"unborn", "next", "lockSub", "lockList", "push", "done", "dead"}

(* Where server_connection is busy with the client cur.                    *)
Serving == {"lockSub", "commands", "send"}

PcOK ==
  /\ pc \in [Threads -> UNION {Labels(t) : t \in Threads}]
  /\ \A t \in Threads : pc[t] \in Labels(t)

LocksOK ==
  /\ {listLock, subLock} \subseteq Threads \cup {Nobody}
  /\ {listPoisoned, subPoisoned} \subseteq BOOLEAN

DataOK ==
  /\ list \in [Cids -> Statuses \cup {"absent"}]
  /\ topics \in SUBSET {Ipc}
  /\ subs \in [Topics -> SUBSET Cids]
  /\ cur \in Cids \cup {NoCid}
  /\ todo \in Seq(Commands)
  /\ left \in SUBSET Cids
  /\ pushed \in SUBSET Cids

(* The type of every variable; no topic but the server's own ever exists.  *)
TypeOK ==
  /\ up \in BOOLEAN
  /\ PcOK
  /\ LocksOK
  /\ DataOK
  /\ pc[Conn] \in Serving => cur \in Cids

(* The locations at which each thread holds a lock.                        *)
HoldsList(t) ==
  \/ t = Conn /\ pc[t] \in {"recv", "lockSub", "commands", "send"}
  \/ t = Alive /\ pc[t] \in {"lockSub", "retain"}
  \/ t = Dist /\ pc[t] = "push"

HoldsSub(t) ==
  \/ t = Conn /\ pc[t] = "commands"
  \/ t = Alive /\ pc[t] = "retain"
  \/ t = Sender /\ pc[t] = "register"
  \/ t = Dist /\ pc[t] \in {"lockList", "push"}

(* A mutex is held by the thread whose location says so, and by it alone:
   no path out of server.rs's lock scopes forgets a guard.                 *)
LockInv ==
  \A t \in Threads :
    /\ listLock = t <=> HoldsList(t)
    /\ subLock = t <=> HoldsSub(t)

(* Every subscriber is a key of CLIENT_LIST, whatever the interleaving of
   subscriptions, collections and panics: the unwrap of
   clients.get_mut(cid) in distribute() never meets a missing client.      *)
SubscribersAreListed == \A t \in Topics : subs[t] \subseteq Clients

(* Nothing a client does poisons CLIENT_SUBSCRIBE: when server_send registers
   the topic and when distribute() looks it up the mutex is sound, so that
   the early returns for poison are never needed and no message is dropped
   by them.                                                                *)
NoPoisonAtLookup ==
  pc[Sender] = "lockSub" \/ pc[Dist] = "lockSub" => ~subPoisoned

(* Dist holds CLIENT_SUBSCRIBE and waits for CLIENT_LIST, which is held by
   a thread that waits for CLIENT_SUBSCRIBE.                               *)
LockCycle ==
  /\ pc[Dist] = "lockList"
  /\ \E t \in {Conn, Alive} : listLock = t /\ pc[t] = "lockSub"

(* The thread that has the mutex t asks for.                               *)
WaitsFor(t) ==
  CASE pc[t] = "lockList" -> listLock
    [] pc[t] = "lockSub"  -> subLock
    [] OTHER              -> Nobody

(* Neither waiting for a mutex nor resting or at its end.                  *)
CanGoOn(t) ==
  WaitsFor(t) = Nobody /\ pc[t] \notin {"poll", "sleep", "next", "unborn", "done", "dead"}

(* Of all the ways in which four threads can wait for two mutexes that they
   take in different orders, LockCycle is the only deadlock: otherwise whoever
   waits waits for a thread that can go on, or for one that waits for such a
   thread, and no thread rests, ends or dies with a mutex in its hands.    *)
OnlyTheCycleDeadlocks ==
  \A t \in Threads : WaitsFor(t) # Nobody =>
    \/ LockCycle
    \/ \E h \in {WaitsFor(t), WaitsFor(WaitsFor(t))} \ {Nobody} : CanGoOn(h)

------------------------------------------------------------------------------
(* The inductive invariant behind the safety properties *)

(* server_connection serves a client of the map: nobody collects it while
   CLIENT_LIST is held.                                                    *)
ServedIsListed ==
  pc[Conn] \in Serving => cur \in Clients

(* No topic exists before server_send registered it, and a topic that does
   not exist has no subscribers.                                           *)
RegisteredOnce ==
  /\ pc[Sender] \in {"lockSub", "register"} => topics = {}
  /\ \A t \in Topics \ topics : subs[t] = {}

(* The task is born when server_send is done; only those two can poison
   CLIENT_SUBSCRIBE, by dying, and the task dies with or of a poisoned
   CLIENT_LIST.                                                            *)
SubPoisonedBy ==
  /\ pc[Dist] = "unborn" <=> pc[Sender] # "done"
  /\ subPoisoned => pc[Sender] = "dead" \/ pc[Dist] = "dead"
  /\ pc[Dist] = "dead" => listPoisoned

(* distribute() works through the current subscribers: those it is done with,
   and no others, were written to if they are established.                                *)
PushProgress ==
  /\ pc[Dist] = "lockList" => left = subs[Ipc] /\ pushed = {}
  /\ pc[Dist] = "push" =>
       /\ left \subseteq subs[Ipc]
       /\ left \cap pushed = {}
       /\ \A c \in subs[Ipc] \ left : list[c] = "established" => c \in pushed

PoisonedIsFree == listPoisoned => listLock = Nobody

IInv ==
  /\ TypeOK
  /\ LockInv
  /\ SubscribersAreListed
  /\ ServedIsListed
  /\ RegisteredOnce
  /\ SubPoisonedBy
  /\ PushProgress
  /\ PoisonedIsFree

------------------------------------------------------------------------------
(* Action properties *)

PushedNow == pushed' \ pushed \subseteq subs[Ipc]

ReachedNow ==
  pc[Dist] = "push" /\ pc'[Dist] = "next" =>
    \A c \in subs[Ipc] : list[c] = "established" => c \in pushed

FrozenNow == listPoisoned => UNCHANGED <<list, subs>>

KeptNow ==
  \A t \in Topics : \A c \in subs[t] \ subs'[t] :
    (pc[Conn] = "commands" /\ cur = c) \/ list'[c] = "absent"

(* distribute() writes only to clients subscribed at that moment: an unsub
   handled before the push is respected.                                   *)
PushOnlyToSubscribers == [][PushedNow]_vars

(* When distribute() ends normally, every established subscriber has been
   written to: a client whose connection fails does not cut off the rest.  *)
DistributionReachesAll == [][ReachedNow]_vars

(* After a thread panicked while it held CLIENT_LIST, nobody changes the
   clients or their subscriptions any more.                                *)
FrozenAfterPoison == [][FrozenNow]_vars

(* A subscription ends only by a command of that client, or when the client
   is collected: the registration of the topic by server_send, which stores
   an empty set, never erases one.                                         *)
SubscriptionKept == [][KeptNow]_vars

(* TopicService, of the topic Ipc: a message is in delivery while distribute()
   holds both mutexes, and the service has failed when its task is dead.   *)
Service ==
  INSTANCE TopicService WITH
    Clients <- Cids,
    members <- subs[Ipc],
    ready   <- {c \in Cids : list[c] = "established"},
    status  <- CASE pc[Dist] = "push" -> "delivering"
                 [] pc[Dist] = "dead" -> "failed"
                 [] OTHER             -> "idle",
    reached <- IF pc[Dist] = "push" THEN pushed ELSE {}

(* The four threads with their two mutexes are a TopicService: to its clients
   the delivery of a message is one step, and its failure is final.        *)
ImplementsService == Service!Spec

------------------------------------------------------------------------------
(* Liveness *)

Stuck == LockCycle \/ listPoisoned \/ subPoisoned \/ ~up

(* server_alive_check removes every closed client, unless the two mutexes
   are deadlocked or poisoned.                                             *)
ClosedAreCollected ==
  \A c \in Cids : list[c] = "closed" ~> (list[c] = "absent" \/ Stuck)

(* A message taken from ZeroMQ is distributed, with the same reservation.  *)
DistributionCompletes ==
  pc[Dist] = "lockSub" ~> (pc[Dist] = "next" \/ Stuck)

(* Dist waits for ZeroMQ, or is still to be spawned.                       *)
DistRests == pc[Dist] = "next" \/ (pc[Dist] = "unborn" /\ pc[Sender] # "dead")

(* No panic leaves a server that only looks alive.  After one under
   CLIENT_SUBSCRIBE, the first chunk of commands takes the process down: the
   connection thread dies at that mutex and takes CLIENT_LIST along, main
   panics at the join.  After one under CLIENT_LIST, whichever of the two
   threads had it, a datagram does, unless the task rests: then both, the
   datagram and the next message.                                          *)
PanicsEndTheServer ==
  /\ subPoisoned /\ pc[Conn] = "lockSub" ~> ~up
  /\ listPoisoned /\ pc[Conn] # "poll" /\ ~DistRests ~> ~up

(* server.rs:516: a client subscribes by sending sub@topic.  Without socket
   errors no command makes server_connection die.                          *)
CommandsAreSurvived == pc[Conn] # "dead"

==============================================================================
