------------------------ MODULE PublisherServerProofs ------------------------
(***************************************************************************)
(* The safety properties of PublisherServer for all values of its          *)
(* constants.  The types come first; then one lemma for each part of the   *)
(* inductive invariant IInv (locks, poison, maps, distribution), each with *)
(* a step for every action; then the theorems.                             *)
(***************************************************************************)
EXTENDS PublisherServer, TLAPS

(* Whatever a chunk holds, it is a sequence of commands.                    *)
LEMMA ChunksAreCommands == SeqOf(Commands, MaxCommands) \subseteq Seq(Commands)
  BY ConstantsAssumption DEF SeqOf, ConstantsAssumption

(* Serving the streams of c makes c the current client and queues commands. *)
LEMMA ServedChunk ==
  ASSUME NEW c \in Cids, ServeStreams(c)
  PROVE  todo' \in Seq(Commands) /\ cur' = c
<1>1. CASE todo' \in SeqOf(Commands, MaxCommands)
  BY <1>1, ChunksAreCommands DEF ServeStreams
<1>2. CASE todo' = <<>>
  BY <1>2 DEF ServeStreams
<1> QED
  BY <1>1, <1>2 DEF ServeStreams

(* send_package leaves every client of the map with a proper status.        *)
LEMMA SentClient ==
  ASSUME NEW c \in Cids, list \in [Cids -> Statuses \cup {"absent"}], SendPackage(c)
  PROVE  list' \in [Cids -> Statuses \cup {"absent"}]
  BY DEF SendPackage, Statuses, Live

(* conn.recv gives its client some status, and never takes it off the map.  *)
LEMMA ReceivedStatus ==
  ASSUME NEW c \in Cids, DataOK, ConnReceive(c)
  PROVE  \E s \in Statuses : list' = [list EXCEPT ![c] = s]
<1>1. list[c] \in Statuses
  BY DEF ConnReceive, DataOK
<1>2. AfterRecv(list[c]) \subseteq Statuses
  BY <1>1 DEF AfterRecv, Statuses, Live
<1> QED
  BY <1>2 DEF ConnReceive, Statuses, Live

(* A thread that moves to one of its labels keeps pc well-typed.            *)
LEMMA GotoTyped ==
  ASSUME PcOK, NEW t \in Threads, NEW l \in Labels(t), Goto(t, l)
  PROVE  PcOK'
<1>1. l \in UNION {Labels(u) : u \in Threads}
  OBVIOUS
<1>2. pc' \in [Threads -> UNION {Labels(u) : u \in Threads}]
  BY <1>1 DEF PcOK, Goto
<1>3. ASSUME NEW u \in Threads PROVE pc'[u] \in Labels(u)
  BY DEF PcOK, Goto
<1> QED
  BY <1>2, <1>3 DEF PcOK

(* The maps start empty, the threads at their first labels.                 *)
LEMMA TypeInit == Init => TypeOK
<1> USE DEF Conn, Alive, Sender, Dist, Nobody
<1> SUFFICES ASSUME Init PROVE TypeOK
  OBVIOUS
<1>1. PcOK
  BY DEF Init, PcOK, Labels, Threads
<1>2. LocksOK
  BY DEF Init, LocksOK
<1>3. DataOK
  BY DEF Init, DataOK, Statuses
<1>4. pc[Conn] \notin Serving
  BY DEF Init, Serving, Threads
<1> QED
  BY <1>1, <1>2, <1>3, <1>4 DEF TypeOK, Init

(* Every step keeps the types.  The command step needs that the client
   being served is a real one, which is why TypeOK says so.                 *)
LEMMA TypeStep == TypeOK /\ [Next]_vars => TypeOK'
<1> USE DEF Conn, Alive, Sender, Dist, Nobody
<1> SUFFICES ASSUME TypeOK, [Next]_vars PROVE TypeOK'
  OBVIOUS
<1> USE DEF At, locks, poison, maps, chunk, push
<1>a. PcOK /\ LocksOK /\ DataOK /\ up \in BOOLEAN
  BY DEF TypeOK
<1>b. pc[Conn] \in Serving => cur \in Cids
  BY DEF TypeOK
<1>1. CASE ConnPoll
  <2>1. PcOK'
    BY <1>a, <1>1, GotoTyped DEF ConnPoll, KeepLocks, Labels, Threads
  <2>2. LocksOK'
    BY <1>a, <1>1 DEF ConnPoll, KeepLocks, LocksOK, Threads
  <2>3. DataOK'
    BY <1>a, <1>1 DEF ConnPoll, DataOK
  <2>4. pc'[Conn] \in Serving => cur' \in Cids
    BY <1>a, <1>b, <1>1 DEF ConnPoll, KeepLocks, PcOK, Goto, Threads, Serving
  <2> QED
    BY <1>a, <1>1, <2>1, <2>2, <2>3, <2>4 DEF TypeOK, ConnPoll
<1>2. CASE ConnLockList
  <2>1. PcOK'
    BY <1>a, <1>2, GotoTyped
       DEF ConnLockList, LockList, PanicOnPoison, Panic, Labels, Threads
  <2>2. LocksOK'
    BY <1>a, <1>2
       DEF ConnLockList, LockList, PanicOnPoison, Panic, LocksOK,
           Threads
  <2>3. DataOK'
    BY <1>a, <1>2 DEF ConnLockList, PanicOnPoison, DataOK
  <2>4. pc'[Conn] \in Serving => cur' \in Cids
    BY <1>a, <1>b, <1>2
       DEF ConnLockList, LockList, PanicOnPoison, Panic, PcOK, Goto,
           Threads, Serving
  <2> QED
    BY <1>a, <1>2, <2>1, <2>2, <2>3, <2>4
       DEF TypeOK, ConnLockList, PanicOnPoison
<1>3. CASE ConnNoClient
  <2>1. PcOK'
    BY <1>a, <1>3, GotoTyped DEF ConnNoClient, DropList, Labels, Threads
  <2>2. LocksOK'
    BY <1>a, <1>3 DEF ConnNoClient, DropList, LocksOK, Threads
  <2>3. DataOK'
    BY <1>a, <1>3 DEF ConnNoClient, DataOK
  <2>4. pc'[Conn] \in Serving => cur' \in Cids
    BY <1>a, <1>b, <1>3 DEF ConnNoClient, DropList, PcOK, Goto, Threads, Serving
  <2> QED
    BY <1>a, <1>3, <2>1, <2>2, <2>3, <2>4 DEF TypeOK, ConnNoClient
<1>4. CASE ConnSocketFault
  <2>1. PcOK'
    BY <1>a, <1>4, GotoTyped DEF ConnSocketFault, Panic, Labels, Threads
  <2>2. LocksOK'
    BY <1>a, <1>4 DEF ConnSocketFault, Panic, LocksOK, Threads
  <2>3. DataOK'
    BY <1>a, <1>4 DEF ConnSocketFault, DataOK
  <2>4. pc'[Conn] \in Serving => cur' \in Cids
    BY <1>a, <1>b, <1>4 DEF ConnSocketFault, Panic, PcOK, Goto, Threads, Serving
  <2> QED
    BY <1>a, <1>4, <2>1, <2>2, <2>3, <2>4 DEF TypeOK, ConnSocketFault
<1>5. ASSUME NEW c \in Cids, ConnAccept(c) PROVE TypeOK'
  <2>1. PcOK'
    BY <1>a, <1>5, GotoTyped
       DEF ConnAccept, ServeStreams, DropList, KeepLocks, Labels,
           Threads
  <2>2. LocksOK'
    BY <1>a, <1>5
       DEF ConnAccept, ServeStreams, DropList, KeepLocks, LocksOK,
           Threads
  <2>3. DataOK'
    <3>1. todo' \in Seq(Commands) /\ cur' \in Cids \cup {NoCid}
      BY <1>a, <1>5, ServedChunk DEF ConnAccept, DataOK
    <3>2. list' \in [Cids -> Statuses \cup {"absent"}]
      BY <1>a, <1>5 DEF ConnAccept, DataOK, Statuses, Live
    <3> QED
      BY <1>a, <1>5, <3>1, <3>2 DEF ConnAccept, DataOK
  <2>4. pc'[Conn] \in Serving => cur' \in Cids
    BY <1>a, <1>b, <1>5
       DEF ConnAccept, ServeStreams, DropList, KeepLocks, PcOK, Goto,
           Threads, Serving
  <2> QED
    BY <1>a, <1>5, <2>1, <2>2, <2>3, <2>4 DEF TypeOK, ConnAccept
<1>6. ASSUME NEW c \in Cids, ConnReceive(c) PROVE TypeOK'
  <2>1. PcOK'
    BY <1>a, <1>6, GotoTyped
       DEF ConnReceive, ServeStreams, DropList, KeepLocks, Labels,
           Threads
  <2>2. LocksOK'
    BY <1>a, <1>6
       DEF ConnReceive, ServeStreams, DropList, KeepLocks, LocksOK,
           Threads
  <2>3. DataOK'
    <3>1. todo' \in Seq(Commands) /\ cur' \in Cids \cup {NoCid}
      BY <1>a, <1>6, ServedChunk DEF ConnReceive, DataOK
    <3>2. list' \in [Cids -> Statuses \cup {"absent"}]
      BY <1>a, <1>6, ReceivedStatus DEF DataOK
    <3> QED
      BY <1>a, <1>6, <3>1, <3>2 DEF ConnReceive, DataOK
  <2>4. pc'[Conn] \in Serving => cur' \in Cids
    BY <1>a, <1>b, <1>6
       DEF ConnReceive, ServeStreams, DropList, KeepLocks, PcOK, Goto,
           Threads, Serving
  <2> QED
    BY <1>a, <1>6, <2>1, <2>2, <2>3, <2>4 DEF TypeOK, ConnReceive
<1>7. CASE ConnLockSub
  <2>1. PcOK'
    BY <1>a, <1>7, GotoTyped
       DEF ConnLockSub, LockSub, PanicOnPoison, Panic, Labels, Threads
  <2>2. LocksOK'
    BY <1>a, <1>7
       DEF ConnLockSub, LockSub, PanicOnPoison, Panic, LocksOK, Threads
  <2>3. DataOK'
    BY <1>a, <1>7 DEF ConnLockSub, PanicOnPoison, DataOK
  <2>4. pc'[Conn] \in Serving => cur' \in Cids
    BY <1>a, <1>b, <1>7
       DEF ConnLockSub, LockSub, PanicOnPoison, Panic, PcOK, Goto,
           Threads, Serving
  <2> QED
    BY <1>a, <1>7, <2>1, <2>2, <2>3, <2>4 DEF TypeOK, ConnLockSub, PanicOnPoison
<1>8. CASE ConnCommand
  <2>1. PcOK'
    BY <1>a, <1>8, GotoTyped DEF ConnCommand, KeepLocks, Labels, Threads
  <2>2. LocksOK'
    BY <1>a, <1>8 DEF ConnCommand, KeepLocks, LocksOK, Threads
  <2>3. DataOK'
    <3>1. cur \in Cids
      BY <1>b, <1>8 DEF ConnCommand, Serving
    <3>2. todo' \in Seq(Commands)
      BY <1>a, <1>8 DEF ConnCommand, DataOK
    <3>3. subs' \in [Topics -> SUBSET Cids]
      <4> DEFINE cmd == Head(todo)
      <4>1. CASE subs' = subs
        BY <1>a, <4>1 DEF DataOK
      <4>2. CASE subs' = [subs EXCEPT ![cmd.topic] =
                            IF cmd.op = "sub" THEN @ \cup {cur} ELSE @ \ {cur}]
        BY <1>a, <3>1, <4>2 DEF DataOK
      <4> QED
        BY <1>8, <4>1, <4>2 DEF ConnCommand
    <3> QED
      BY <1>a, <1>8, <3>2, <3>3 DEF ConnCommand, DataOK
  <2>4. pc'[Conn] \in Serving => cur' \in Cids
    BY <1>a, <1>b, <1>8 DEF ConnCommand, KeepLocks, PcOK, Goto, Threads, Serving
  <2> QED
    BY <1>a, <1>8, <2>1, <2>2, <2>3, <2>4 DEF TypeOK, ConnCommand
<1>9. CASE ConnCommandsDone
  <2>1. PcOK'
    BY <1>a, <1>9, GotoTyped DEF ConnCommandsDone, DropSub, Labels, Threads
  <2>2. LocksOK'
    BY <1>a, <1>9 DEF ConnCommandsDone, DropSub, LocksOK, Threads
  <2>3. DataOK'
    <3>1. todo' \in Seq(Commands)
      <4>1. CASE todo' \in SeqOf(Commands, MaxCommands)
        BY <4>1, ChunksAreCommands
      <4>2. CASE todo' = <<>>
        BY <4>2
      <4> QED
        BY <1>9, <4>1, <4>2 DEF ConnCommandsDone
    <3> QED
      BY <1>a, <1>9, <3>1 DEF ConnCommandsDone, DataOK
  <2>4. pc'[Conn] \in Serving => cur' \in Cids
    BY <1>a, <1>b, <1>9
       DEF ConnCommandsDone, DropSub, PcOK, Goto, Threads, Serving
  <2> QED
    BY <1>a, <1>9, <2>1, <2>2, <2>3, <2>4 DEF TypeOK, ConnCommandsDone
<1>10. CASE ConnSend
  <2>1. PcOK'
    BY <1>a, <1>10, GotoTyped DEF ConnSend, DropList, Labels, Threads
  <2>2. LocksOK'
    BY <1>a, <1>10 DEF ConnSend, DropList, LocksOK, Threads
  <2>3. DataOK'
    BY <1>a, <1>b, <1>10, SentClient DEF ConnSend, DataOK, Serving
  <2>4. pc'[Conn] \in Serving => cur' \in Cids
    BY <1>a, <1>b, <1>10 DEF ConnSend, DropList, PcOK, Goto, Threads, Serving
  <2> QED
    BY <1>a, <1>10, <2>1, <2>2, <2>3, <2>4 DEF TypeOK, ConnSend
<1>11. CASE AliveWake
  <2>1. PcOK'
    BY <1>a, <1>11, GotoTyped DEF AliveWake, KeepLocks, Labels, Threads
  <2>2. LocksOK'
    BY <1>a, <1>11 DEF AliveWake, KeepLocks, LocksOK, Threads
  <2>3. DataOK'
    BY <1>a, <1>11 DEF AliveWake, DataOK
  <2>4. pc'[Conn] \in Serving => cur' \in Cids
    BY <1>a, <1>b, <1>11 DEF AliveWake, KeepLocks, PcOK, Goto, Threads, Serving
  <2> QED
    BY <1>a, <1>11, <2>1, <2>2, <2>3, <2>4 DEF TypeOK, AliveWake
<1>12. CASE AliveLockList
  <2>1. PcOK'
    BY <1>a, <1>12, GotoTyped
       DEF AliveLockList, LockList, KeepLocks, Labels, Threads
  <2>2. LocksOK'
    BY <1>a, <1>12 DEF AliveLockList, LockList, KeepLocks, LocksOK, Threads
  <2>3. DataOK'
    BY <1>a, <1>12 DEF AliveLockList, DataOK
  <2>4. pc'[Conn] \in Serving => cur' \in Cids
    BY <1>a, <1>b, <1>12
       DEF AliveLockList, LockList, KeepLocks, PcOK, Goto, Threads,
           Serving
  <2> QED
    BY <1>a, <1>12, <2>1, <2>2, <2>3, <2>4 DEF TypeOK, AliveLockList
<1>13. CASE AliveLockSub
  <2>1. PcOK'
    BY <1>a, <1>13, GotoTyped
       DEF AliveLockSub, LockSub, DropList, Labels, Threads
  <2>2. LocksOK'
    BY <1>a, <1>13 DEF AliveLockSub, LockSub, DropList, LocksOK, Threads
  <2>3. DataOK'
    BY <1>a, <1>13 DEF AliveLockSub, DataOK
  <2>4. pc'[Conn] \in Serving => cur' \in Cids
    BY <1>a, <1>b, <1>13
       DEF AliveLockSub, LockSub, DropList, PcOK, Goto, Threads, Serving
  <2> QED
    BY <1>a, <1>13, <2>1, <2>2, <2>3, <2>4 DEF TypeOK, AliveLockSub
<1>14. CASE AliveRetain
  <2>1. PcOK'
    BY <1>a, <1>14, GotoTyped DEF AliveRetain, DropBoth, Labels, Threads
  <2>2. LocksOK'
    BY <1>a, <1>14 DEF AliveRetain, DropBoth, LocksOK, Threads
  <2>3. DataOK'
    BY <1>a, <1>14 DEF AliveRetain, DataOK
  <2>4. pc'[Conn] \in Serving => cur' \in Cids
    BY <1>a, <1>b, <1>14 DEF AliveRetain, DropBoth, PcOK, Goto, Threads, Serving
  <2> QED
    BY <1>a, <1>14, <2>1, <2>2, <2>3, <2>4 DEF TypeOK, AliveRetain
<1>15. CASE SenderLockSub
  <2>1. PcOK'
    BY <1>a, <1>15, GotoTyped DEF SenderLockSub, LockSub, Labels, Threads
  <2>2. LocksOK'
    BY <1>a, <1>15 DEF SenderLockSub, LockSub, LocksOK, Threads
  <2>3. DataOK'
    BY <1>a, <1>15 DEF SenderLockSub, DataOK
  <2>4. pc'[Conn] \in Serving => cur' \in Cids
    BY <1>a, <1>b, <1>15
       DEF SenderLockSub, LockSub, PcOK, Goto, Threads, Serving
  <2> QED
    BY <1>a, <1>15, <2>1, <2>2, <2>3, <2>4 DEF TypeOK, SenderLockSub
<1>16. CASE SenderSpawn
  <2>1. PcOK'
    <3>1. CASE pc' = [pc EXCEPT ![Sender] = "done", ![Dist] = "next"]
      <4>1. pc' = [pc EXCEPT ![Sender] = "done", ![Dist] = "next"]
        BY <3>1
      <4>2. "done" \in Labels(Sender) /\ "next" \in Labels(Dist)
        BY DEF Labels
      <4> QED
        BY <1>a, <4>1, <4>2 DEF PcOK, Threads
    <3>2. CASE Panic(Sender)
      BY <1>a, <1>16, <3>2, GotoTyped DEF SenderSpawn, Spawn, Panic, Labels, Threads
    <3> QED
      BY <1>16, <3>1, <3>2 DEF SenderSpawn, Spawn
  <2>2. LocksOK'
    BY <1>a, <1>16 DEF SenderSpawn, Spawn, Panic, LocksOK, Threads
  <2>3. DataOK'
    BY <1>a, <1>16 DEF SenderSpawn, DataOK
  <2>4. pc'[Conn] \in Serving => cur' \in Cids
    BY <1>a, <1>b, <1>16 DEF SenderSpawn, Spawn, Panic, PcOK, Goto, Threads, Serving
  <2> QED
    BY <1>a, <1>16, <2>1, <2>2, <2>3, <2>4 DEF TypeOK, SenderSpawn
<1>17. CASE DistNext
  <2>1. PcOK'
    BY <1>a, <1>17, GotoTyped DEF DistNext, KeepLocks, Labels, Threads
  <2>2. LocksOK'
    BY <1>a, <1>17 DEF DistNext, KeepLocks, LocksOK, Threads
  <2>3. DataOK'
    BY <1>a, <1>17 DEF DistNext, DataOK
  <2>4. pc'[Conn] \in Serving => cur' \in Cids
    BY <1>a, <1>b, <1>17 DEF DistNext, KeepLocks, PcOK, Goto, Threads, Serving
  <2> QED
    BY <1>a, <1>17, <2>1, <2>2, <2>3, <2>4 DEF TypeOK, DistNext
<1>18. CASE DistLockSub
  <2>1. PcOK'
    BY <1>a, <1>18, GotoTyped DEF DistLockSub, LockSub, Labels, Threads
  <2>2. LocksOK'
    BY <1>a, <1>18 DEF DistLockSub, LockSub, LocksOK, Threads
  <2>3. DataOK'
    <3>1. subs[Ipc] \in SUBSET Cids
      BY <1>a, ConstantsAssumption DEF DataOK, ConstantsAssumption
    <3> QED
      BY <1>a, <1>18, <3>1 DEF DistLockSub, DataOK
  <2>4. pc'[Conn] \in Serving => cur' \in Cids
    BY <1>a, <1>b, <1>18 DEF DistLockSub, LockSub, PcOK, Goto, Threads, Serving
  <2> QED
    BY <1>a, <1>18, <2>1, <2>2, <2>3, <2>4 DEF TypeOK, DistLockSub
<1>19. CASE DistLockList
  <2>1. PcOK'
    BY <1>a, <1>19, GotoTyped
       DEF DistLockList, LockList, PanicOnPoison, Panic, Labels, Threads
  <2>2. LocksOK'
    BY <1>a, <1>19
       DEF DistLockList, LockList, PanicOnPoison, Panic, LocksOK,
           Threads
  <2>3. DataOK'
    BY <1>a, <1>19 DEF DistLockList, PanicOnPoison, DataOK
  <2>4. pc'[Conn] \in Serving => cur' \in Cids
    BY <1>a, <1>b, <1>19
       DEF DistLockList, LockList, PanicOnPoison, Panic, PcOK, Goto,
           Threads, Serving
  <2> QED
    BY <1>a, <1>19, <2>1, <2>2, <2>3, <2>4
       DEF TypeOK, DistLockList, PanicOnPoison
<1>20. ASSUME NEW c \in Cids, DistPush(c) PROVE TypeOK'
  <2>1. PcOK'
    BY <1>a, <1>20, GotoTyped DEF DistPush, KeepLocks, Panic, Labels, Threads
  <2>2. LocksOK'
    BY <1>a, <1>20 DEF DistPush, KeepLocks, Panic, LocksOK, Threads
  <2>3. DataOK'
    <3>1. list' \in [Cids -> Statuses \cup {"absent"}]
      BY <1>a, <1>20, SentClient DEF DistPush, DataOK
    <3>2. left' \in SUBSET Cids /\ pushed' \in SUBSET Cids
      BY <1>a, <1>20 DEF DistPush, DataOK
    <3> QED
      BY <1>a, <1>20, <3>1, <3>2 DEF DistPush, DataOK
  <2>4. pc'[Conn] \in Serving => cur' \in Cids
    BY <1>a, <1>b, <1>20
       DEF DistPush, KeepLocks, Panic, PcOK, Goto, Threads, Serving
  <2> QED
    BY <1>a, <1>20, <2>1, <2>2, <2>3, <2>4 DEF TypeOK, DistPush
<1>21. CASE DistDone
  <2>1. PcOK'
    BY <1>a, <1>21, GotoTyped DEF DistDone, DropBoth, Labels, Threads
  <2>2. LocksOK'
    BY <1>a, <1>21 DEF DistDone, DropBoth, LocksOK, Threads
  <2>3. DataOK'
    BY <1>a, <1>21 DEF DistDone, DataOK
  <2>4. pc'[Conn] \in Serving => cur' \in Cids
    BY <1>a, <1>b, <1>21 DEF DistDone, DropBoth, PcOK, Goto, Threads, Serving
  <2> QED
    BY <1>a, <1>21, <2>1, <2>2, <2>3, <2>4 DEF TypeOK, DistDone
<1>22. CASE MainExit
  <2>1. PcOK'
    BY <1>a, <1>22 DEF MainExit, PcOK
  <2>2. LocksOK'
    BY <1>a, <1>22 DEF MainExit, LocksOK, Threads
  <2>3. DataOK'
    BY <1>a, <1>22 DEF MainExit, DataOK
  <2>4. pc'[Conn] \in Serving => cur' \in Cids
    BY <1>a, <1>b, <1>22 DEF MainExit, PcOK, Goto, Threads, Serving
  <2> QED
    BY <1>a, <1>22, <2>1, <2>2, <2>3, <2>4 DEF TypeOK, MainExit
<1>23. CASE UNCHANGED vars
  BY <1>23 DEF vars, TypeOK, PcOK, LocksOK, DataOK
<1> QED
  BY <1>1, <1>2, <1>3, <1>4, <1>5, <1>6, <1>7, <1>8, <1>9, <1>10, <1>11,
     <1>12, <1>13, <1>14, <1>15, <1>16, <1>17, <1>18, <1>19, <1>20, <1>21,
     <1>22, <1>23
     DEF Next, ConnRun, AliveRun, SenderRun, DistRun, Down

(* TypeOK holds in every behaviour: in particular the topic map never grows
   a key a client invented, and the labels of server.rs's threads do not
   mix.                                                                     *)
THEOREM TypeCorrect == Spec => []TypeOK
  BY TypeInit, TypeStep, PTL DEF Spec

(* Both mutexes: taken only when free and sound, given back by every exit
   of a scope, by panics too, and free for ever once poisoned.              *)
LEMMA LockStep ==
  /\ PcOK
  /\ LocksOK
  /\ LockInv
  /\ PoisonedIsFree
  /\ [Next]_vars
  => LockInv' /\ PoisonedIsFree'
<1> SUFFICES ASSUME PcOK, LocksOK, LockInv, PoisonedIsFree, [Next]_vars
             PROVE  LockInv' /\ PoisonedIsFree'
  OBVIOUS
<1> USE DEF Conn, Alive, Sender, Dist, Nobody, At, Goto, locks, poison,
            LockInv, HoldsList, HoldsSub, Threads, PcOK, LocksOK,
            PoisonedIsFree
<1>1. CASE ConnPoll
  BY <1>1 DEF ConnPoll, KeepLocks
<1>2. CASE ConnLockList
  <2>1. CASE LockList(Conn, "recv") /\ UNCHANGED poison
    BY <1>2, <2>1 DEF ConnLockList, LockList
  <2>2. CASE listLock = Nobody /\ PanicOnPoison(Conn)
    BY <1>2, <2>2 DEF ConnLockList, PanicOnPoison, Panic
  <2> QED
    BY <1>2, <2>1, <2>2 DEF ConnLockList
<1>3. CASE ConnNoClient
  BY <1>3 DEF ConnNoClient, DropList
<1>4. CASE ConnSocketFault
  BY <1>4 DEF ConnSocketFault, Panic
<1>5. ASSUME NEW c \in Cids, ConnAccept(c) PROVE LockInv' /\ PoisonedIsFree'
  BY <1>5 DEF ConnAccept, ServeStreams, DropList, KeepLocks
<1>6. ASSUME NEW c \in Cids, ConnReceive(c) PROVE LockInv' /\ PoisonedIsFree'
  BY <1>6 DEF ConnReceive, ServeStreams, DropList, KeepLocks
<1>7. CASE ConnLockSub
  <2>1. CASE LockSub(Conn, "commands") /\ UNCHANGED poison
    BY <1>7, <2>1 DEF ConnLockSub, LockSub
  <2>2. CASE subLock = Nobody /\ PanicOnPoison(Conn)
    BY <1>7, <2>2 DEF ConnLockSub, PanicOnPoison, Panic
  <2> QED
    BY <1>7, <2>1, <2>2 DEF ConnLockSub
<1>8. CASE ConnCommand
  BY <1>8 DEF ConnCommand, KeepLocks
<1>9. CASE ConnCommandsDone
  BY <1>9 DEF ConnCommandsDone, DropSub
<1>10. CASE ConnSend
  BY <1>10 DEF ConnSend, DropList
<1>11. CASE AliveWake
  BY <1>11 DEF AliveWake, KeepLocks
<1>12. CASE AliveLockList
  BY <1>12 DEF AliveLockList, LockList, KeepLocks
<1>13. CASE AliveLockSub
  BY <1>13 DEF AliveLockSub, LockSub, DropList
<1>14. CASE AliveRetain
  BY <1>14 DEF AliveRetain, DropBoth
<1>15. CASE SenderLockSub
  BY <1>15 DEF SenderLockSub, LockSub
<1>16. CASE SenderSpawn
  <2>1. CASE pc' = [pc EXCEPT ![Sender] = "done", ![Dist] = "next"]
             /\ subLock' = Nobody /\ UNCHANGED <<listLock, poison>>
    BY <1>16, <2>1 DEF SenderSpawn
  <2>2. CASE Panic(Sender)
    BY <1>16, <2>2 DEF SenderSpawn, Panic
  <2> QED
    BY <1>16, <2>1, <2>2 DEF SenderSpawn, Spawn
<1>17. CASE DistNext
  BY <1>17 DEF DistNext, KeepLocks
<1>18. CASE DistLockSub
  BY <1>18 DEF DistLockSub, LockSub
<1>19. CASE DistLockList
  <2>1. CASE LockList(Dist, "push") /\ UNCHANGED poison
    BY <1>19, <2>1 DEF DistLockList, LockList
  <2>2. CASE listLock = Nobody /\ PanicOnPoison(Dist)
    BY <1>19, <2>2 DEF DistLockList, PanicOnPoison, Panic
  <2> QED
    BY <1>19, <2>1, <2>2 DEF DistLockList
<1>20. ASSUME NEW c \in Cids, DistPush(c) PROVE LockInv' /\ PoisonedIsFree'
  BY <1>20 DEF DistPush, KeepLocks, Panic
<1>21. CASE DistDone
  BY <1>21 DEF DistDone, DropBoth
<1>22. CASE MainExit
  BY <1>22 DEF MainExit
<1>23. CASE UNCHANGED vars
  BY <1>23 DEF vars
<1> QED
  BY <1>1, <1>2, <1>3, <1>4, <1>5, <1>6, <1>7, <1>8, <1>9, <1>10, <1>11,
     <1>12, <1>13, <1>14, <1>15, <1>16, <1>17, <1>18, <1>19, <1>20, <1>21,
     <1>22, <1>23
     DEF Next, ConnRun, AliveRun, SenderRun, DistRun, Down

(* Only server_send, before it has spawned the task, and the task itself
   can die with CLIENT_SUBSCRIBE in their hands.                            *)
LEMMA PoisonStep ==
  /\ PcOK
  /\ LockInv
  /\ SubPoisonedBy
  /\ [Next]_vars
  => SubPoisonedBy'
<1> SUFFICES ASSUME PcOK, LockInv, SubPoisonedBy, [Next]_vars
        PROVE SubPoisonedBy'
  OBVIOUS
<1> USE DEF Conn, Alive, Sender, Dist, Nobody, At, Goto, locks, poison, maps,
            chunk, push, PcOK, LockInv, HoldsList, HoldsSub, SubPoisonedBy,
            Threads
<1>1. CASE ConnPoll
  BY <1>1 DEF ConnPoll, KeepLocks
<1>2. CASE ConnLockList
  <2>1. CASE LockList(Conn, "recv") /\ UNCHANGED poison
    BY <1>2, <2>1 DEF ConnLockList, LockList
  <2>2. CASE listLock = Nobody /\ PanicOnPoison(Conn)
    BY <1>2, <2>2 DEF ConnLockList, PanicOnPoison, Panic
  <2> QED
    BY <1>2, <2>1, <2>2 DEF ConnLockList
<1>3. CASE ConnNoClient
  BY <1>3 DEF ConnNoClient, DropList
<1>4. CASE ConnSocketFault
  BY <1>4 DEF ConnSocketFault, Panic
<1>5. ASSUME NEW c \in Cids, ConnAccept(c) PROVE SubPoisonedBy'
  BY <1>5 DEF ConnAccept, ServeStreams, DropList, KeepLocks
<1>6. ASSUME NEW c \in Cids, ConnReceive(c) PROVE SubPoisonedBy'
  BY <1>6 DEF ConnReceive, ServeStreams, DropList, KeepLocks, AfterRecv
<1>7. CASE ConnLockSub
  <2>1. CASE LockSub(Conn, "commands") /\ UNCHANGED poison
    BY <1>7, <2>1 DEF ConnLockSub, LockSub
  <2>2. CASE subLock = Nobody /\ PanicOnPoison(Conn)
    BY <1>7, <2>2 DEF ConnLockSub, PanicOnPoison, Panic
  <2> QED
    BY <1>7, <2>1, <2>2 DEF ConnLockSub
<1>8. CASE ConnCommand
  BY <1>8 DEF ConnCommand, KeepLocks
<1>9. CASE ConnCommandsDone
  BY <1>9 DEF ConnCommandsDone, DropSub
<1>10. CASE ConnSend
  BY <1>10 DEF ConnSend, SendPackage, DropList
<1>11. CASE AliveWake
  BY <1>11 DEF AliveWake, KeepLocks
<1>12. CASE AliveLockList
  BY <1>12 DEF AliveLockList, LockList, KeepLocks
<1>13. CASE AliveLockSub
  BY <1>13 DEF AliveLockSub, LockSub, DropList
<1>14. CASE AliveRetain
  BY <1>14 DEF AliveRetain, DropBoth
<1>15. CASE SenderLockSub
  BY <1>15 DEF SenderLockSub, LockSub
<1>16. CASE SenderSpawn
  <2>1. CASE pc' = [pc EXCEPT ![Sender] = "done", ![Dist] = "next"]
             /\ subLock' = Nobody /\ UNCHANGED <<listLock, poison>>
    BY <1>16, <2>1 DEF SenderSpawn
  <2>2. CASE Panic(Sender)
    BY <1>16, <2>2 DEF SenderSpawn, Panic
  <2> QED
    BY <1>16, <2>1, <2>2 DEF SenderSpawn, Spawn
<1>17. CASE DistNext
  BY <1>17 DEF DistNext, KeepLocks
<1>18. CASE DistLockSub
  BY <1>18 DEF DistLockSub, LockSub
<1>19. CASE DistLockList
  <2>1. CASE LockList(Dist, "push") /\ UNCHANGED poison
    BY <1>19, <2>1 DEF DistLockList, LockList
  <2>2. CASE listLock = Nobody /\ PanicOnPoison(Dist)
    BY <1>19, <2>2 DEF DistLockList, PanicOnPoison, Panic
  <2> QED
    BY <1>19, <2>1, <2>2 DEF DistLockList
<1>20. ASSUME NEW c \in Cids, DistPush(c) PROVE SubPoisonedBy'
  <2>1. listLock = Dist
    <3>1. Dist \in Threads /\ HoldsList(Dist)
      BY <1>20 DEF DistPush
    <3> QED
      BY ONLY <3>1, LockInv DEF LockInv
  <2>2. CASE KeepLocks(Dist, "push")
    BY <1>20, <2>2 DEF KeepLocks, DistPush
  <2>3. CASE Panic(Dist)
    BY <1>20, <2>1, <2>3 DEF Panic, DistPush
  <2> QED
    BY <1>20, <2>2, <2>3 DEF DistPush
<1>21. CASE DistDone
  BY <1>21 DEF DistDone, DropBoth
<1>22. CASE MainExit
  BY <1>22 DEF MainExit
<1>23. CASE UNCHANGED vars
  BY <1>23 DEF vars
<1> QED
  BY <1>1, <1>2, <1>3, <1>4, <1>5, <1>6, <1>7, <1>8, <1>9, <1>10, <1>11,
     <1>12, <1>13, <1>14, <1>15, <1>16, <1>17, <1>18, <1>19, <1>20, <1>21,
     <1>22, <1>23
     DEF Next, ConnRun, AliveRun, SenderRun, DistRun, Down

(* The two maps agree: a subscriber is a client, the client being served is
   one, and a topic that is not registered has no subscriber.               *)
LEMMA MapStep ==
  /\ TypeOK
  /\ LockInv
  /\ SubscribersAreListed
  /\ ServedIsListed
  /\ RegisteredOnce
  /\ [Next]_vars
  => SubscribersAreListed' /\ ServedIsListed' /\ RegisteredOnce'
<1> SUFFICES ASSUME TypeOK, LockInv, SubscribersAreListed, ServedIsListed, RegisteredOnce, [Next]_vars
        PROVE SubscribersAreListed' /\ ServedIsListed' /\ RegisteredOnce'
  OBVIOUS
<1> USE DEF Conn, Alive, Sender, Dist, Nobody, At, Goto, locks, poison, maps,
            chunk, push, TypeOK, PcOK, DataOK, LockInv, HoldsList, HoldsSub,
            SubscribersAreListed, ServedIsListed, RegisteredOnce, Clients,
            Serving, Threads
<1>1. CASE ConnPoll
  BY <1>1 DEF ConnPoll, KeepLocks
<1>2. CASE ConnLockList
  BY <1>2 DEF ConnLockList, LockList, PanicOnPoison, Panic
<1>3. CASE ConnNoClient
  BY <1>3 DEF ConnNoClient, DropList
<1>4. CASE ConnSocketFault
  BY <1>4 DEF ConnSocketFault, Panic
<1>5. ASSUME NEW c \in Cids, ConnAccept(c)
        PROVE SubscribersAreListed' /\ ServedIsListed' /\ RegisteredOnce'
  BY <1>5 DEF ConnAccept, ServeStreams, DropList, KeepLocks
<1>6. ASSUME NEW c \in Cids, ConnReceive(c)
        PROVE SubscribersAreListed' /\ ServedIsListed' /\ RegisteredOnce'
  <2>1. PICK s \in Statuses : list' = [list EXCEPT ![c] = s]
    BY <1>6, ReceivedStatus
  <2>2. Clients \subseteq Clients'
    BY <2>1 DEF Statuses, Live
  <2>3. c \in Clients'
    BY <2>1 DEF Statuses, Live
  <2>4. SubscribersAreListed'
    BY <1>6, <2>2 DEF ConnReceive
  <2>5. ServedIsListed'
    BY <1>6, <2>3 DEF ConnReceive, ServeStreams, DropList, KeepLocks
  <2>6. RegisteredOnce'
    BY <1>6 DEF ConnReceive, ServeStreams, DropList, KeepLocks
  <2> QED
    BY <2>4, <2>5, <2>6
<1>7. CASE ConnLockSub
  BY <1>7 DEF ConnLockSub, LockSub, PanicOnPoison, Panic
<1>8. CASE ConnCommand
  BY <1>8 DEF ConnCommand, KeepLocks
<1>9. CASE ConnCommandsDone
  BY <1>9 DEF ConnCommandsDone, DropSub
<1>10. CASE ConnSend
  BY <1>10 DEF ConnSend, SendPackage, DropList
<1>11. CASE AliveWake
  BY <1>11 DEF AliveWake, KeepLocks
<1>12. CASE AliveLockList
  BY <1>12 DEF AliveLockList, LockList, KeepLocks
<1>13. CASE AliveLockSub
  BY <1>13 DEF AliveLockSub, LockSub, DropList
<1>14. CASE AliveRetain
  BY <1>14 DEF AliveRetain, DropBoth
<1>15. CASE SenderLockSub
  BY <1>15 DEF SenderLockSub, LockSub
<1>16. CASE SenderSpawn
  BY <1>16 DEF SenderSpawn, Spawn, Panic
<1>17. CASE DistNext
  BY <1>17 DEF DistNext, KeepLocks
<1>18. CASE DistLockSub
  BY <1>18 DEF DistLockSub, LockSub
<1>19. CASE DistLockList
  BY <1>19 DEF DistLockList, LockList, PanicOnPoison, Panic
<1>20. ASSUME NEW c \in Cids, DistPush(c)
        PROVE SubscribersAreListed' /\ ServedIsListed' /\ RegisteredOnce'
  BY <1>20 DEF DistPush, SendPackage, KeepLocks, Panic
<1>21. CASE DistDone
  BY <1>21 DEF DistDone, DropBoth
<1>22. CASE MainExit
  BY <1>22 DEF MainExit
<1>23. CASE UNCHANGED vars
  BY <1>23 DEF vars
<1> QED
  BY <1>1, <1>2, <1>3, <1>4, <1>5, <1>6, <1>7, <1>8, <1>9, <1>10, <1>11,
     <1>12, <1>13, <1>14, <1>15, <1>16, <1>17, <1>18, <1>19, <1>20, <1>21,
     <1>22, <1>23
     DEF Next, ConnRun, AliveRun, SenderRun, DistRun, Down

(* While distribute() holds both mutexes neither the subscribers nor the
   clients it has not come to change under it.                              *)
LEMMA PushStep ==
  /\ TypeOK
  /\ LockInv
  /\ PushProgress
  /\ [Next]_vars
  => PushProgress'
<1> SUFFICES ASSUME TypeOK, LockInv, PushProgress, [Next]_vars
        PROVE PushProgress'
  OBVIOUS
<1> USE DEF Conn, Alive, Sender, Dist, Nobody, At, Goto, locks, poison, maps,
            chunk, push, TypeOK, PcOK, DataOK, LockInv, HoldsList, HoldsSub,
            PushProgress, Threads
<1>1. CASE ConnPoll
  BY <1>1 DEF ConnPoll, KeepLocks
<1>2. CASE ConnLockList
  BY <1>2 DEF ConnLockList, LockList, PanicOnPoison, Panic
<1>3. CASE ConnNoClient
  BY <1>3 DEF ConnNoClient, DropList
<1>4. CASE ConnSocketFault
  BY <1>4 DEF ConnSocketFault, Panic
<1>5. ASSUME NEW c \in Cids, ConnAccept(c) PROVE PushProgress'
  BY <1>5 DEF ConnAccept, ServeStreams, DropList, KeepLocks
<1>6. ASSUME NEW c \in Cids, ConnReceive(c) PROVE PushProgress'
  BY <1>6 DEF ConnReceive, ServeStreams, DropList, KeepLocks, AfterRecv
<1>7. CASE ConnLockSub
  BY <1>7 DEF ConnLockSub, LockSub, PanicOnPoison, Panic
<1>8. CASE ConnCommand
  BY <1>8 DEF ConnCommand, KeepLocks
<1>9. CASE ConnCommandsDone
  BY <1>9 DEF ConnCommandsDone, DropSub
<1>10. CASE ConnSend
  BY <1>10 DEF ConnSend, SendPackage, DropList
<1>11. CASE AliveWake
  BY <1>11 DEF AliveWake, KeepLocks
<1>12. CASE AliveLockList
  BY <1>12 DEF AliveLockList, LockList, KeepLocks
<1>13. CASE AliveLockSub
  BY <1>13 DEF AliveLockSub, LockSub, DropList
<1>14. CASE AliveRetain
  BY <1>14 DEF AliveRetain, DropBoth
<1>15. CASE SenderLockSub
  BY <1>15 DEF SenderLockSub, LockSub
<1>16. CASE SenderSpawn
  BY <1>16 DEF SenderSpawn, Spawn, Panic
<1>17. CASE DistNext
  BY <1>17 DEF DistNext, KeepLocks
<1>18. CASE DistLockSub
  BY <1>18 DEF DistLockSub, LockSub
<1>19. CASE DistLockList
  BY <1>19 DEF DistLockList, LockList, PanicOnPoison, Panic
<1>20. ASSUME NEW c \in Cids, DistPush(c) PROVE PushProgress'
  <2>1. CASE pc'[Dist] = "push" /\ left' = left \ {c}
    <3>1. /\ pc[Dist] = "push"
          /\ c \in left
          /\ UNCHANGED <<subs, pc>>
      BY <1>20, <2>1 DEF DistPush, KeepLocks, Panic
    <3>2. ASSUME NEW d \in subs[Ipc] \ left', list'[d] = "established"
          PROVE  d \in pushed'
      <4>1. CASE d = c
        BY <1>20, <2>1, <3>1, <3>2, <4>1 DEF DistPush, SendPackage
      <4>2. CASE d # c
        <5>1. list[d] = "established" /\ d \in pushed
          BY <1>20, <2>1, <3>1, <3>2, <4>2, ConstantsAssumption
             DEF DistPush, SendPackage, ConstantsAssumption
        <5> QED
          BY <1>20, <5>1 DEF DistPush
      <4> QED
        BY <4>1, <4>2
    <3>3. left' \cap pushed' = {}
      <4>1. pushed' \subseteq pushed \cup {c}
        BY <1>20, <2>1 DEF DistPush
      <4> QED
        BY <2>1, <3>1, <4>1
    <3> QED
      BY <2>1, <3>1, <3>2, <3>3
  <2>2. CASE pc'[Dist] = "dead"
    BY <2>2
  <2> QED
    BY <1>20, <2>1, <2>2 DEF DistPush, KeepLocks, Panic
<1>21. CASE DistDone
  BY <1>21 DEF DistDone, DropBoth
<1>22. CASE MainExit
  BY <1>22 DEF MainExit
<1>23. CASE UNCHANGED vars
  BY <1>23 DEF vars
<1> QED
  BY <1>1, <1>2, <1>3, <1>4, <1>5, <1>6, <1>7, <1>8, <1>9, <1>10, <1>11,
     <1>12, <1>13, <1>14, <1>15, <1>16, <1>17, <1>18, <1>19, <1>20, <1>21,
     <1>22, <1>23
     DEF Next, ConnRun, AliveRun, SenderRun, DistRun, Down

(* The inductive invariant holds at the start.                              *)
LEMMA InvInit == Init => IInv
<1> SUFFICES ASSUME Init PROVE IInv
  OBVIOUS
<1> USE DEF Init, Conn, Alive, Sender, Dist, Nobody, Threads
<1>1. TypeOK
  BY TypeInit
<1>2. LockInv
  BY DEF LockInv, HoldsList, HoldsSub
<1>3. SubscribersAreListed
  BY DEF SubscribersAreListed
<1>4. ServedIsListed
  BY DEF ServedIsListed, Serving
<1>5. RegisteredOnce
  BY DEF RegisteredOnce
<1>6. SubPoisonedBy
  BY DEF SubPoisonedBy
<1>7. PushProgress
  BY DEF PushProgress
<1>8. PoisonedIsFree
  BY DEF PoisonedIsFree
<1> QED
  BY <1>1, <1>2, <1>3, <1>4, <1>5, <1>6, <1>7, <1>8 DEF IInv

(* The inductive invariant is kept by every step: the five lemmas above.    *)
LEMMA InvStep == IInv /\ [Next]_vars => IInv'
  BY TypeStep, LockStep, PoisonStep, MapStep, PushStep DEF IInv, TypeOK

(* IInv is an invariant for every set of clients and topics, every length
   of a command list, with or without a runtime context and socket faults.  *)
THEOREM Inductive == Spec => []IInv
  BY InvInit, InvStep, PTL DEF Spec

(* The mutual exclusion of server.rs: pc tells who holds which mutex.       *)
THEOREM LocksCorrect == Spec => []LockInv
<1>1. IInv => LockInv
  BY DEF IInv
<1> QED
  BY <1>1, Inductive, PTL

(* LockCycle is the only deadlock of the two mutexes: distribute() takes them
   in the order opposite to that of everyone else, and no other two threads
   ever wait for one another.                                               *)
THEOREM DeadlocksAreTheCycle == Spec => []OnlyTheCycleDeadlocks
<1>1. IInv => OnlyTheCycleDeadlocks
  <2> SUFFICES ASSUME IInv, ~LockCycle, NEW t \in Threads, WaitsFor(t) # Nobody
               PROVE  \E h \in {WaitsFor(t), WaitsFor(WaitsFor(t))} \ {Nobody} : CanGoOn(h)
    BY DEF OnlyTheCycleDeadlocks
  <2> USE DEF Conn, Alive, Sender, Dist, Nobody, Threads
  <2>1. /\ listLock \in Threads \cup {Nobody} /\ subLock \in Threads \cup {Nobody}
        /\ \A h \in Threads : pc[h] \in Labels(h)
        /\ \A h \in Threads : (listLock = h <=> HoldsList(h)) /\ (subLock = h <=> HoldsSub(h))
    BY DEF IInv, TypeOK, PcOK, LocksOK, LockInv
  <2>2. ASSUME NEW h \in Threads, h = listLock, ~CanGoOn(h)
        PROVE  h \in {Conn, Alive} /\ pc[h] = "lockSub" /\ WaitsFor(h) = subLock /\ subLock # Nobody
    BY <2>1, <2>2 DEF HoldsList, CanGoOn, WaitsFor
  <2>3. ASSUME NEW h \in Threads, h = subLock, ~CanGoOn(h)
        PROVE  h = Dist /\ pc[h] = "lockList" /\ WaitsFor(h) = listLock /\ listLock # Nobody
    BY <2>1, <2>3 DEF HoldsSub, CanGoOn, WaitsFor
  <2>4. CASE WaitsFor(t) = listLock
    <3>1. listLock \in Threads
      BY <2>1, <2>4
    <3>2. CASE ~CanGoOn(listLock)
      <4>1. /\ listLock \in {Conn, Alive} /\ pc[listLock] = "lockSub"
            /\ WaitsFor(listLock) = subLock /\ subLock \in Threads
        BY <2>1, <2>2, <3>1, <3>2
      <4>2. CanGoOn(subLock)
        BY <2>3, <4>1 DEF LockCycle
      <4> QED
        BY <2>4, <4>1, <4>2
    <3> QED
      BY <2>4, <3>1, <3>2
  <2>5. CASE WaitsFor(t) = subLock
    <3>1. subLock \in Threads
      BY <2>1, <2>5
    <3>2. CASE ~CanGoOn(subLock)
      <4>1. /\ pc[Dist] = "lockList" /\ WaitsFor(subLock) = listLock /\ listLock \in Threads
        BY <2>1, <2>3, <3>1, <3>2
      <4>2. CanGoOn(listLock)
        BY <2>2, <4>1 DEF LockCycle
      <4> QED
        BY <2>5, <4>1, <4>2
    <3> QED
      BY <2>5, <3>1, <3>2
  <2>6. WaitsFor(t) \in {listLock, subLock}
    BY DEF WaitsFor
  <2> QED
    BY <2>4, <2>5, <2>6
<1> QED
  BY <1>1, Inductive, PTL

(* clients.get_mut(cid).unwrap() of distribute() (server.rs:383) finds
   every subscriber.                                                        *)
THEOREM SubscribersListed == Spec => []SubscribersAreListed
<1>1. IInv => SubscribersAreListed
  BY DEF IInv
<1> QED
  BY <1>1, Inductive, PTL

(* CLIENT_SUBSCRIBE is sound when server_send registers and when
   distribute() looks up, so the branches for its poison are unreachable.   *)
THEOREM LookupsSound == Spec => []NoPoisonAtLookup
<1>1. IInv => NoPoisonAtLookup
  BY DEF IInv, SubPoisonedBy, NoPoisonAtLookup
<1> QED
  BY <1>1, Inductive, PTL

(* Under PushProgress a push goes to a subscriber.                          *)
LEMMA PushedStep == PushProgress /\ [Next]_vars => PushedNow
<1> SUFFICES ASSUME PushProgress, [Next]_vars PROVE PushedNow
  OBVIOUS
<1> USE DEF Conn, Alive, Sender, Dist, Nobody, At, Goto, locks, poison, maps,
            chunk, push, PushedNow, PushProgress
<1>1. CASE ConnPoll \/ ConnRun
  BY <1>1 DEF ConnRun, ConnPoll, KeepLocks, ConnLockList, LockList,
              PanicOnPoison, Panic, ConnNoClient, DropList, ConnSocketFault,
              ConnAccept, ServeStreams, ConnReceive, AfterRecv, ConnLockSub,
              LockSub, ConnCommand, ConnCommandsDone, DropSub, ConnSend,
              SendPackage
<1>2. CASE AliveRun
  BY <1>2 DEF AliveRun, AliveWake, KeepLocks, AliveLockList, LockList,
              AliveLockSub, LockSub, DropList, AliveRetain, DropBoth
<1>3. CASE SenderRun
  BY <1>3 DEF SenderRun, SenderLockSub, LockSub, SenderSpawn, Spawn, Panic
<1>4. CASE DistNext \/ DistRun
  BY <1>4 DEF DistRun, DistNext, KeepLocks, DistLockSub, LockSub,
              DistLockList, LockList, PanicOnPoison, Panic, DistPush,
              SendPackage, DistDone, DropBoth
<1>5. CASE MainExit \/ Down \/ UNCHANGED vars
  BY <1>5 DEF MainExit, Down, vars
<1> QED
  BY <1>1, <1>2, <1>3, <1>4, <1>5 DEF Next

(* distribute() writes to current subscribers only.                         *)
THEOREM PushedAreSubscribers == Spec => PushOnlyToSubscribers
  BY Inductive, PushedStep, PTL DEF IInv, Spec, PushOnlyToSubscribers

(* Under PushProgress the end of the loop leaves no established subscriber
   out.                                                                     *)
LEMMA ReachedStep ==
  /\ PcOK
  /\ SubPoisonedBy
  /\ PushProgress
  /\ [Next]_vars
  => ReachedNow
<1> SUFFICES ASSUME PcOK, SubPoisonedBy, PushProgress, [Next]_vars
        PROVE ReachedNow
  OBVIOUS
<1> USE DEF Conn, Alive, Sender, Dist, Nobody, At, Goto, locks, poison, maps,
            chunk, push, ReachedNow, PushProgress, SubPoisonedBy, PcOK,
            Threads
<1>1. CASE ConnPoll \/ ConnRun
  BY <1>1 DEF ConnRun, ConnPoll, KeepLocks, ConnLockList, LockList,
              PanicOnPoison, Panic, ConnNoClient, DropList, ConnSocketFault,
              ConnAccept, ServeStreams, ConnReceive, AfterRecv, ConnLockSub,
              LockSub, ConnCommand, ConnCommandsDone, DropSub, ConnSend,
              SendPackage
<1>2. CASE AliveRun
  BY <1>2 DEF AliveRun, AliveWake, KeepLocks, AliveLockList, LockList,
              AliveLockSub, LockSub, DropList, AliveRetain, DropBoth
<1>3. CASE SenderRun
  BY <1>3 DEF SenderRun, SenderLockSub, LockSub, SenderSpawn, Spawn, Panic
<1>4. CASE DistNext \/ DistRun
  <2>1. CASE DistLockSub
    BY <2>1 DEF DistLockSub, LockSub
  <2>2. CASE DistLockList
    BY <2>2 DEF DistLockList, LockList, PanicOnPoison, Panic
  <2>3. ASSUME NEW c \in Cids, DistPush(c) PROVE ReachedNow
    BY <2>3 DEF DistPush, SendPackage, KeepLocks, Panic
  <2>4. CASE DistDone
    BY <2>4 DEF DistDone, DropBoth
  <2>5. CASE DistNext
    BY <2>5 DEF DistNext, KeepLocks
  <2> QED
    BY <1>4, <2>1, <2>2, <2>3, <2>4, <2>5 DEF DistRun
<1>5. CASE MainExit \/ Down \/ UNCHANGED vars
  BY <1>5 DEF MainExit, Down, vars
<1> QED
  BY <1>1, <1>2, <1>3, <1>4, <1>5 DEF Next

(* A distribution that ends normally has reached every established
   subscriber.                                                              *)
THEOREM SubscribersAreReached == Spec => DistributionReachesAll
  BY Inductive, ReachedStep, PTL DEF IInv, TypeOK, Spec, DistributionReachesAll

(* Whoever changes the clients or their subscriptions holds CLIENT_LIST,
   but for server_send, which stores an empty set over an empty set.        *)
LEMMA FrozenStep ==
  /\ PcOK
  /\ DataOK
  /\ LockInv
  /\ RegisteredOnce
  /\ PoisonedIsFree
  /\ [Next]_vars
  => FrozenNow
<1> SUFFICES ASSUME PcOK, DataOK, LockInv, RegisteredOnce, PoisonedIsFree, [Next]_vars
        PROVE FrozenNow
  OBVIOUS
<1> USE DEF Conn, Alive, Sender, Dist, Nobody, At, Goto, locks, poison, maps,
            chunk, push, FrozenNow, PoisonedIsFree, LockInv, HoldsList,
            HoldsSub, PcOK, DataOK, RegisteredOnce, Threads
<1>1. CASE ConnPoll \/ ConnRun
  BY <1>1 DEF ConnRun, ConnPoll, KeepLocks, ConnLockList, LockList,
              PanicOnPoison, Panic, ConnNoClient, DropList, ConnSocketFault,
              ConnAccept, ServeStreams, ConnReceive, AfterRecv, ConnLockSub,
              LockSub, ConnCommand, ConnCommandsDone, DropSub, ConnSend,
              SendPackage
<1>2. CASE AliveRun
  BY <1>2 DEF AliveRun, AliveWake, KeepLocks, AliveLockList, LockList,
              AliveLockSub, LockSub, DropList, AliveRetain, DropBoth
<1>3. CASE SenderRun
  <2>1. CASE SenderSpawn
    <3>1. topics = {} /\ subs[Ipc] = {}
      BY <2>1, ConstantsAssumption DEF SenderSpawn, ConstantsAssumption
    <3>2. subs' = subs
      BY <2>1, <3>1, ConstantsAssumption DEF SenderSpawn, ConstantsAssumption
    <3> QED
      BY <2>1, <3>2 DEF SenderSpawn
  <2>2. CASE SenderLockSub
    BY <2>2 DEF SenderLockSub, LockSub
  <2> QED
    BY <1>3, <2>1, <2>2 DEF SenderRun
<1>4. CASE DistNext \/ DistRun
  BY <1>4 DEF DistRun, DistNext, KeepLocks, DistLockSub, LockSub,
              DistLockList, LockList, PanicOnPoison, Panic, DistPush,
              SendPackage, DistDone, DropBoth
<1>5. CASE MainExit \/ Down \/ UNCHANGED vars
  BY <1>5 DEF MainExit, Down, vars
<1> QED
  BY <1>1, <1>2, <1>3, <1>4, <1>5 DEF Next

(* After a panic under CLIENT_LIST clients and subscriptions never change
   again.                                                                   *)
THEOREM PoisonFreezes == Spec => FrozenAfterPoison
  BY Inductive, FrozenStep, PTL DEF IInv, TypeOK, Spec, FrozenAfterPoison

(* What removes a subscription: the client's command or its collection.     *)
LEMMA KeptStep == DataOK /\ RegisteredOnce /\ [Next]_vars => KeptNow
<1> SUFFICES ASSUME DataOK, RegisteredOnce, [Next]_vars PROVE KeptNow
  OBVIOUS
<1> USE DEF Conn, Alive, Sender, Dist, Nobody, At, Goto, locks, poison, maps,
            chunk, push, KeptNow, DataOK, RegisteredOnce
<1>1. CASE ConnPoll \/ ConnRun
  BY <1>1 DEF ConnRun, ConnPoll, KeepLocks, ConnLockList, LockList,
              PanicOnPoison, Panic, ConnNoClient, DropList, ConnSocketFault,
              ConnAccept, ServeStreams, ConnReceive, AfterRecv, ConnLockSub,
              LockSub, ConnCommand, ConnCommandsDone, DropSub, ConnSend,
              SendPackage
<1>2. CASE AliveRun
  BY <1>2 DEF AliveRun, AliveWake, KeepLocks, AliveLockList, LockList,
              AliveLockSub, LockSub, DropList, AliveRetain, DropBoth
<1>3. CASE SenderRun
  <2>1. CASE SenderSpawn
    BY <2>1 DEF SenderSpawn, Spawn, Panic
  <2>2. CASE SenderLockSub
    BY <2>2 DEF SenderLockSub, LockSub
  <2> QED
    BY <1>3, <2>1, <2>2 DEF SenderRun
<1>4. CASE DistNext \/ DistRun
  BY <1>4 DEF DistRun, DistNext, KeepLocks, DistLockSub, LockSub,
              DistLockList, LockList, PanicOnPoison, Panic, DistPush,
              SendPackage, DistDone, DropBoth
<1>5. CASE MainExit \/ Down \/ UNCHANGED vars
  BY <1>5 DEF MainExit, Down, vars
<1> QED
  BY <1>1, <1>2, <1>3, <1>4, <1>5 DEF Next

(* No subscription is lost for another reason, the start-up order of
   server_send and server_connection included.                              *)
THEOREM SubscriptionsAreKept == Spec => SubscriptionKept
  BY Inductive, KeptStep, PTL DEF IInv, TypeOK, Spec, SubscriptionKept

------------------------------------------------------------------------------
(* The refinement of TopicService *)

(* A step that leaves alone what the service is made of.                    *)
LEMMA Quiet ==
  ASSUME pc'[Dist] = pc[Dist], subs'[Ipc] = subs[Ipc], pushed' = pushed,
         \A c \in Cids : list'[c] = "established" <=> list[c] = "established"
  PROVE  UNCHANGED Service!vars
<1>1. {c \in Cids : list[c] = "established"}' = {c \in Cids : list[c] = "established"}
  OBVIOUS
<1> QED
  BY <1>1 DEF Service!vars

(* While another thread holds CLIENT_LIST nothing is in delivery, and the
   service has not failed.                                                  *)
LEMMA HeldIsIdle ==
  ASSUME IInv, listLock \in {Conn, Alive}
  PROVE  pc[Dist] \notin {"push", "dead"}
BY DEF IInv, LockInv, HoldsList, SubPoisonedBy, PoisonedIsFree, Conn, Alive, Dist,
       Nobody, Threads

(* A change of the state of one client is a Turn, or nothing.               *)
LEMMA OneTurns ==
  ASSUME IInv, listLock \in {Conn, Alive}, NEW c \in Cids,
         \A d \in Cids : d # c => list'[d] = list[d],
         pc'[Dist] = pc[Dist], subs' = subs, pushed' = pushed
  PROVE  [Service!Next]_Service!vars
<1> DEFINE R == {d \in Cids : list[d] = "established"}
<1>1. R' = R \cup {c} \/ R' = R \ {c}
  BY SMT
<1>2. pc[Dist] \notin {"push", "dead"}
  BY HeldIsIdle
<1>3. Service!Turn(c)
  BY <1>1, <1>2 DEF Service!Turn
<1> QED
  BY <1>3 DEF Service!Next

(* Every thread but the distributing one changes the service only when it is
   idle, and in one thing at a time.                                        *)
LEMMA ConnService ==
  ASSUME IInv, ConnPoll \/ ConnRun
  PROVE  [Service!Next]_Service!vars
<1> USE DEF Conn, Alive, Sender, Dist, Nobody, At, Goto, locks, poison, maps,
            chunk, push, Threads
<1>1. pc \in [Threads -> UNION {Labels(t) : t \in Threads}] /\ list \in [Cids -> Statuses \cup {"absent"}]
      /\ subs \in [Topics -> SUBSET Cids]
  BY DEF IInv, TypeOK, PcOK, DataOK
<1>2. pc[Conn] \in {"recv", "commands", "send"} => listLock = Conn
  BY DEF IInv, LockInv, HoldsList
<1>3. ASSUME NEW c \in Cids, ConnAccept(c) PROVE [Service!Next]_Service!vars
  <2>1. /\ pc'[Dist] = pc[Dist] /\ subs' = subs /\ pushed' = pushed
        /\ \A d \in Cids : d # c => list'[d] = list[d]
    BY <1>1, <1>3 DEF ConnAccept, ServeStreams, DropList, KeepLocks
  <2>2. listLock = Conn
    BY <1>2, <1>3 DEF ConnAccept
  <2> QED
    BY <2>1, <2>2, OneTurns
<1>4. ASSUME NEW c \in Cids, ConnReceive(c) PROVE [Service!Next]_Service!vars
  <2>1. /\ pc'[Dist] = pc[Dist] /\ subs' = subs /\ pushed' = pushed
        /\ \A d \in Cids : d # c => list'[d] = list[d]
    BY <1>1, <1>4 DEF ConnReceive, ServeStreams, DropList, KeepLocks
  <2>2. listLock = Conn
    BY <1>2, <1>4 DEF ConnReceive
  <2> QED
    BY <2>1, <2>2, OneTurns
<1>5. CASE ConnSend
  <2>1. cur \in Cids /\ listLock = Conn
    BY <1>2, <1>5 DEF ConnSend, IInv, TypeOK, Serving
  <2>2. /\ pc'[Dist] = pc[Dist] /\ subs' = subs /\ pushed' = pushed
        /\ \A d \in Cids : d # cur => list'[d] = list[d]
    BY <1>1, <1>5 DEF ConnSend, SendPackage, DropList
  <2> QED
    BY <2>1, <2>2, OneTurns
<1>6. CASE ConnCommand
  <2>1. pc[Dist] \notin {"push", "dead"} /\ cur \in Cids
    BY <1>2, <1>6, HeldIsIdle DEF ConnCommand, IInv, TypeOK, Serving
  <2>2. pc'[Dist] = pc[Dist] /\ list' = list /\ pushed' = pushed
    BY <1>1, <1>6 DEF ConnCommand, KeepLocks
  <2>3. subs'[Ipc] = subs[Ipc] \/ subs'[Ipc] = subs[Ipc] \cup {cur} \/ subs'[Ipc] = subs[Ipc] \ {cur}
    BY <1>1, <1>6, ConstantsAssumption DEF ConnCommand, ConstantsAssumption
  <2>4. CASE subs'[Ipc] = subs[Ipc]
    BY <2>2, <2>4, Quiet
  <2>5. CASE subs'[Ipc] = subs[Ipc] \cup {cur}
    <3>1. Service!Join(cur)
      BY <2>1, <2>2, <2>5 DEF Service!Join
    <3> QED
      BY <2>1, <3>1 DEF Service!Next
  <2>6. CASE subs'[Ipc] = subs[Ipc] \ {cur}
    <3>1. Service!Leave({cur})
      BY <2>1, <2>2, <2>6 DEF Service!Leave
    <3> QED
      BY <2>1, <3>1 DEF Service!Next
  <2> QED
    BY <2>3, <2>4, <2>5, <2>6
<1>7. CASE ConnPoll \/ ConnLockList \/ ConnNoClient \/ ConnSocketFault \/ ConnLockSub
           \/ ConnCommandsDone
  <2>1. pc'[Dist] = pc[Dist] /\ UNCHANGED <<list, subs, pushed>>
    BY <1>1, <1>7 DEF ConnPoll, ConnLockList, ConnNoClient, ConnSocketFault, ConnLockSub,
       ConnCommandsDone, KeepLocks, LockList, LockSub, DropList, DropSub, PanicOnPoison, Panic
  <2> QED
    BY <2>1, Quiet
<1> QED
  BY <1>3, <1>4, <1>5, <1>6, <1>7 DEF ConnRun

(* server_alive_check: those who are collected leave.                       *)
LEMMA AliveService ==
  ASSUME IInv, AliveRun
  PROVE  [Service!Next]_Service!vars
<1> USE DEF Conn, Alive, Sender, Dist, Nobody, At, Goto, locks, poison, maps,
            chunk, push, Threads
<1>1. pc \in [Threads -> UNION {Labels(t) : t \in Threads}] /\ list \in [Cids -> Statuses \cup {"absent"}]
      /\ subs \in [Topics -> SUBSET Cids]
  BY DEF IInv, TypeOK, PcOK, DataOK
<1>2. CASE AliveRetain
  <2>1. listLock = Alive
    BY <1>2 DEF AliveRetain, IInv, LockInv, HoldsList
  <2>2. pc[Dist] \notin {"push", "dead"}
    BY <2>1, HeldIsIdle
  <2>3. pc'[Dist] = pc[Dist] /\ pushed' = pushed
    BY <1>1, <1>2 DEF AliveRetain, DropBoth
  <2>4. {c \in Cids : list[c] = "established"}' = {c \in Cids : list[c] = "established"}
    BY <1>1, <1>2 DEF AliveRetain
  <2>5. subs'[Ipc] = subs[Ipc] \ {c \in Cids : list[c] = "closed"}
    BY <1>1, <1>2, ConstantsAssumption DEF AliveRetain, ConstantsAssumption
  <2>6. Service!Leave({c \in Cids : list[c] = "closed"})
    BY <2>2, <2>3, <2>4, <2>5 DEF Service!Leave
  <2> QED
    BY <2>6 DEF Service!Next
<1>3. CASE AliveWake \/ AliveLockList \/ AliveLockSub
  <2>1. pc'[Dist] = pc[Dist] /\ UNCHANGED <<list, subs, pushed>>
    BY <1>1, <1>3 DEF AliveWake, AliveLockList, AliveLockSub, KeepLocks, LockList, LockSub, DropList
  <2> QED
    BY <2>1, Quiet
<1> QED
  BY <1>2, <1>3 DEF AliveRun

(* server_send: the service is idle before the task is born, and after.     *)
LEMMA SenderService ==
  ASSUME IInv, SenderRun
  PROVE  [Service!Next]_Service!vars
<1> USE DEF Conn, Alive, Sender, Dist, Nobody, At, Goto, locks, poison, maps,
            chunk, push, Threads
<1>1. pc \in [Threads -> UNION {Labels(t) : t \in Threads}] /\ subs \in [Topics -> SUBSET Cids]
  BY DEF IInv, TypeOK, PcOK, DataOK
<1>2. CASE SenderSpawn
  <2>1. pc[Dist] = "unborn"
    BY <1>2 DEF SenderSpawn, IInv, SubPoisonedBy
  <2>2. pc'[Dist] \in {"unborn", "next"} /\ list' = list /\ pushed' = pushed
    BY <1>1, <1>2, <2>1 DEF SenderSpawn, Spawn, Panic
  <2>3. subs[Ipc] = {} /\ subs'[Ipc] = {}
    BY <1>1, <1>2, ConstantsAssumption
    DEF SenderSpawn, IInv, RegisteredOnce, ConstantsAssumption
  <2>4. UNCHANGED Service!vars
    BY <2>1, <2>2, <2>3 DEF Service!vars
  <2> QED
    BY <2>4
<1>3. CASE SenderLockSub
  <2>1. pc'[Dist] = pc[Dist] /\ UNCHANGED <<list, subs, pushed>>
    BY <1>1, <1>3 DEF SenderLockSub, LockSub
  <2> QED
    BY <2>1, Quiet
<1> QED
  BY <1>2, <1>3 DEF SenderRun

(* The distributing task: one message, from its begin to its end.           *)
LEMMA DistService ==
  ASSUME IInv, DistNext \/ DistRun
  PROVE  [Service!Next]_Service!vars
<1> USE DEF Conn, Alive, Sender, Dist, Nobody, At, Goto, locks, poison, maps,
            chunk, push, Threads
<1> DEFINE R == {d \in Cids : list[d] = "established"}
<1>1. pc \in [Threads -> UNION {Labels(t) : t \in Threads}] /\ list \in [Cids -> Statuses \cup {"absent"}]
      /\ subs \in [Topics -> SUBSET Cids]
  BY DEF IInv, TypeOK, PcOK, DataOK
<1>2. CASE DistNext \/ DistLockSub
  <2>1. /\ pc[Dist] \in {"next", "lockSub"} /\ pc'[Dist] \in {"lockSub", "lockList", "done"}
        /\ UNCHANGED <<list, subs>>
    BY <1>1, <1>2 DEF DistNext, DistLockSub, KeepLocks, LockSub
  <2>2. UNCHANGED Service!vars
    BY <2>1 DEF Service!vars
  <2> QED
    BY <2>2
<1>3. CASE DistLockList
  <2>1. pc[Dist] = "lockList" /\ pushed = {} /\ UNCHANGED <<list, subs, pushed>>
    BY <1>3 DEF DistLockList, IInv, PushProgress, LockList, PanicOnPoison
  <2>2. CASE pc'[Dist] = "push"
    <3>1. Service!Begin
      BY <2>1, <2>2 DEF Service!Begin
    <3> QED
      BY <3>1 DEF Service!Next
  <2>3. CASE pc'[Dist] = "dead"
    <3>1. Service!Fail
      BY <2>1, <2>3 DEF Service!Fail
    <3> QED
      BY <3>1 DEF Service!Next
  <2> QED
    BY <1>1, <1>3, <2>2, <2>3 DEF DistLockList, LockList, PanicOnPoison, Panic
<1>4. ASSUME NEW c \in Cids, DistPush(c) PROVE [Service!Next]_Service!vars
  <2>1. pc[Dist] = "push" /\ c \in left /\ subs' = subs
    BY <1>4 DEF DistPush
  <2>2. c \in subs[Ipc] /\ c \notin pushed
    BY <2>1 DEF IInv, PushProgress
  <2>3. CASE pc'[Dist] = "dead" /\ list' = list
    <3>1. Service!Fail
      BY <2>1, <2>3 DEF Service!Fail
    <3> QED
      BY <3>1 DEF Service!Next
  <2>4. CASE pc'[Dist] = "push" /\ list[c] = "established" /\ pushed' = pushed \cup {c} /\ SendPackage(c)
    <3>1. R' = R \/ R' = R \ {c}
      BY <1>1, <2>4 DEF SendPackage
    <3>2. Service!Reach(c)
      BY <2>1, <2>2, <2>4, <3>1 DEF Service!Reach
    <3> QED
      BY <3>2 DEF Service!Next
  <2>5. CASE pc'[Dist] = "push" /\ UNCHANGED <<list, pushed>>
    BY <2>1, <2>5, Quiet
  <2> QED
    BY <1>1, <1>4, <2>3, <2>4, <2>5 DEF DistPush, KeepLocks, Panic
<1>5. CASE DistDone
  <2>1. pc[Dist] = "push" /\ pc'[Dist] = "next" /\ left = {} /\ UNCHANGED <<list, subs>>
    BY <1>1, <1>5 DEF DistDone, DropBoth
  <2>2. \A c \in subs[Ipc] : list[c] = "established" => c \in pushed
    BY <2>1 DEF IInv, PushProgress
  <2>3. Service!End
    BY <2>1, <2>2 DEF Service!End
  <2> QED
    BY <2>3 DEF Service!Next
<1> QED
  BY <1>2, <1>3, <1>4, <1>5 DEF DistRun

(* The mutexes make of the four threads one service: a delivery is never
   mixed with a subscription or a collection, and reaches all it should.    *)
THEOREM ServiceImplemented == Spec => ImplementsService
<1>1. Init => Service!Init
  <2> SUFFICES ASSUME Init PROVE Service!Init
    OBVIOUS
  <2>1. pc[Dist] = "unborn"
    BY DEF Init, Threads, Conn, Alive, Sender, Dist
  <2> QED
    BY <2>1, ConstantsAssumption DEF Init, Service!Init, ConstantsAssumption
<1>2. IInv /\ [Next]_vars => [Service!Next]_Service!vars
  <2> SUFFICES ASSUME IInv, [Next]_vars PROVE [Service!Next]_Service!vars
    OBVIOUS
  <2>1. CASE MainExit \/ Down \/ UNCHANGED vars
    <3>1. UNCHANGED <<pc, list, subs, pushed>>
      BY <2>1 DEF MainExit, Down, vars, maps, push
    <3> QED
      BY <3>1, Quiet
  <2> QED
    BY <2>1, ConnService, AliveService, SenderService, DistService DEF Next
<1> QED
  BY <1>1, <1>2, Inductive, PTL DEF Spec, ImplementsService, Service!Spec
==============================================================================
