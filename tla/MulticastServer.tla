---------------------------- MODULE MulticastServer ----------------------------
(***************************************************************************)
(* The server of crypto-market-multicast: one task for each ZeroMQ IPC url *)
(* of conf/ipc.json puts the messages of that url into a channel; the main *)
(* thread sends what the channel holds to the multicast group.  The thread *)
(* of a file watcher (DynamicConfigHandler in file/config.rs) re-reads the *)
(* file when it is modified and starts and aborts tasks to follow it.      *)
(*                                                                         *)
(* The file may change at any time, also between two steps of the start-up *)
(* and between an event and its handler; a file caught half-written does   *)
(* not parse (Broken).                                                     *)
(***************************************************************************)
EXTENDS Naturals, Sequences, FiniteSets, SequencesExt

CONSTANTS
  Urls,           \* ZeroMQ endpoints
  Types,          \* the number that stands before each url in the file
  NoType,         \* a value that is no type
  Configs,        \* what the file may say: sequences of <<type, url>>
  Broken,         \* ... or nothing that can be parsed
  MaxEdits,       \* bound: how often the file is written
  MaxQueue        \* bound: messages in the (unbounded) channel

ASSUME MulticastAssumption ==
  /\ NoType \notin Types
  /\ Configs \subseteq Seq(Types \X Urls)
  /\ Broken \notin Configs
  /\ \A S \in SUBSET Urls : S # Broken
  /\ MaxEdits \in Nat
  /\ MaxQueue \in Nat

VARIABLES
  pc,             \* where server() stands
  file,           \* what ipc.json says
  edits,          \* how often it was written
  unread,         \* Modify events the watcher thread has not handled
  stale,          \* history: was the file last written after initiate() had
                  \* read it and before the watcher was there to notice?
  types,          \* ipcs_map: the type of each url, NoType if no key
  owned,          \* urls whose task in ipcs_map is running
  loose,          \* running tasks of each url whose handle was dropped
  dying,          \* tasks of each url that were aborted and still run
  queue           \* the channel: the urls of its messages

fileVars == <<file, edits, unread, stale>>
tasks    == <<types, owned, loose, dying>>
vars     == <<pc, fileVars, tasks, queue>>

Mapped  == {u \in Urls : types[u] # NoType}

(* The map as a set of IpcBasicRepr.                                       *)
Current == {<<types[u], u>> : u \in Mapped}

UrlsOf(ipcs) == {ipc[2] : ipc \in ipcs}

Running(u) == u \in owned \/ loose[u] > 0 \/ dying[u] > 0

Init ==
  /\ pc = "initiate"
  /\ file \in Configs \cup {Broken}
  /\ edits = 0
  /\ unread = 0
  /\ stale = FALSE
  /\ types = [u \in Urls |-> NoType]
  /\ owned = {}
  /\ loose = [u \in Urls |-> 0]
  /\ dying = [u \in Urls |-> 0]
  /\ queue = <<>>

------------------------------------------------------------------------------
(* DynamicConfigHandler *)

Occurs(u, ipcs) == {i \in DOMAIN ipcs : ipcs[i][2] = u}

(* The types of the last entry of u: one, or none.                         *)
Latest(u, ipcs) ==
  {ipcs[i][1] : i \in {i \in Occurs(u, ipcs) : \A j \in Occurs(u, ipcs) : j <= i}}

(* register(): each entry spawns a task and is inserted in turn, the keys of
   `kept` being in the map already.  The handle an insert replaces is
   dropped, which detaches its task and does not stop it.                  *)
Register(kept, ipcs) ==
  LET new == {u \in Urls : Occurs(u, ipcs) # {}} IN
  /\ types' \in [Urls -> Types \cup {NoType}]
  /\ \A u \in Urls :
       CASE u \in new        -> types'[u] \in Latest(u, ipcs)
         [] u \in kept \ new -> types'[u] = types[u]
         [] OTHER            -> types'[u] = NoType
  /\ owned' = new \cup (owned \cap kept)
  /\ loose' = [u \in Urls |->
       IF u \in new
       THEN loose[u] + (Cardinality(Occurs(u, ipcs)) - 1)
              + (IF u \in owned \cap kept THEN 1 ELSE 0)
       ELSE loose[u]]

(* cleanup(): the keys are removed and their tasks aborted.                *)
Cleanup(urls) ==
  dying' = [u \in Urls |-> IF u \in urls \cap owned THEN dying[u] + 1 ELSE dying[u]]

(* Mutant: everything is aborted and started anew.                         *)
UpdateRestarts ==
  LET new == ToSet(file) IN
  /\ Cleanup(Mapped)
  /\ \E ipcs \in SetToSeqs(new) : Register({}, ipcs)

(* Mutant: register() before cleanup(): a url whose type changed goes.     *)
UpdateSwapped ==
  LET removed == Current \ ToSet(file)
      added   == ToSet(file) \ Current
      gone    == UrlsOf(removed) IN
  /\ dying' = [u \in Urls |->
       IF u \in gone /\ (u \in owned \/ u \in UrlsOf(added)) THEN dying[u] + 1 ELSE dying[u]]
  /\ types' = [u \in Urls |-> IF u \in gone THEN NoType
                              ELSE IF u \in UrlsOf(added)
                              THEN CHOOSE t \in Types : <<t, u>> \in added
                              ELSE types[u]]
  /\ owned' = (owned \cup UrlsOf(added)) \ gone
  /\ UNCHANGED loose

(* Mutant: diff_ipc does not take what is there already out of `new`.      *)
UpdateAddsAll ==
  LET removed == Current \ ToSet(file) IN
  /\ Cleanup(UrlsOf(removed))
  /\ \E ipcs \in SetToSeqs(ToSet(file)) : Register(Mapped \ UrlsOf(removed), ipcs)

(* Mutant: without cleanup().                                              *)
UpdateAddsOnly ==
  /\ UNCHANGED dying
  /\ \E ipcs \in SetToSeqs(ToSet(file) \ Current) : Register(Mapped, ipcs)

(* diff() on sets of (type, url), cleanup() of the removed, then register()
   of the added, in the order of a hash set.                               *)
Update ==
  LET removed == Current \ ToSet(file)
      added   == ToSet(file) \ Current IN
  /\ Cleanup(UrlsOf(removed))
  /\ \E ipcs \in SetToSeqs(added) : Register(Mapped \ UrlsOf(removed), ipcs)

(* Mutant: a burst of events is dropped as a whole.                        *)
HandleEventDropsBursts ==
  /\ pc = "serve"
  /\ unread > 0
  /\ unread' = 0
  /\ IF file = Broken \/ unread > 1 THEN UNCHANGED tasks ELSE Update
  /\ UNCHANGED <<pc, file, edits, stale, queue>>

(* A Modify event: the file is read now, not as it was when it was written;
   if that fails the map stays as it is.                                   *)
HandleEvent ==
  /\ pc = "serve"
  /\ unread > 0
  /\ unread' = unread - 1
  /\ IF file = Broken THEN UNCHANGED tasks ELSE Update
  /\ UNCHANGED <<pc, file, edits, stale, queue>>

------------------------------------------------------------------------------
(* server() *)

(* handler.initiate(): all entries are registered, none is compared.       *)
Initiate ==
  /\ pc = "initiate"
  /\ IF file = Broken
     THEN pc' = "stopped" /\ UNCHANGED tasks
     ELSE pc' = "watch" /\ Register({}, file) /\ UNCHANGED dying
  /\ UNCHANGED <<fileVars, queue>>

(* create_watcher(): from now on modifications are noticed; or it fails.   *)
Watch ==
  /\ pc = "watch"
  /\ pc' \in {"serve", "stopped"}
  /\ UNCHANGED <<fileVars, tasks, queue>>

(* socket.send_to(); an error ends the loop, server() and the process.     *)
Multicast ==
  /\ pc = "serve"
  /\ queue # <<>>
  /\ \/ queue' = Tail(queue) /\ UNCHANGED pc
     \/ pc' = "stopped" /\ UNCHANGED queue
  /\ UNCHANGED <<fileVars, tasks>>

------------------------------------------------------------------------------
(* receive_data, one task *)

Receive(u) ==
  /\ pc # "stopped"
  /\ Running(u)
  /\ Len(queue) < MaxQueue
  /\ queue' = Append(queue, u)
  /\ UNCHANGED <<pc, fileVars, tasks>>

(* The stream ends or reports an error: the task returns, its entry in the
   map stays.                                                              *)
StreamEnd(u) ==
  /\ pc # "stopped"
  /\ \/ u \in owned /\ owned' = owned \ {u} /\ UNCHANGED loose
     \/ loose[u] > 0 /\ loose' = [loose EXCEPT ![u] = @ - 1] /\ UNCHANGED owned
  /\ UNCHANGED <<pc, fileVars, types, dying, queue>>

(* An aborted task reaches an await.                                       *)
Aborted(u) ==
  /\ pc # "stopped"
  /\ dying[u] > 0
  /\ dying' = [dying EXCEPT ![u] = @ - 1]
  /\ UNCHANGED <<pc, fileVars, types, owned, loose, queue>>

------------------------------------------------------------------------------
(* Whoever writes ipc.json *)

Edit ==
  /\ pc # "stopped"
  /\ edits < MaxEdits
  /\ edits' = edits + 1
  /\ file' \in Configs \cup {Broken}
  /\ unread' = IF pc = "serve" THEN unread + 1 ELSE unread
  /\ stale' = (pc = "watch")
  /\ UNCHANGED <<pc, tasks, queue>>

------------------------------------------------------------------------------
Next ==
  \/ Initiate \/ Watch \/ Multicast
  \/ HandleEvent
  \/ \E u \in Urls : Receive(u) \/ StreamEnd(u) \/ Aborted(u)
  \/ Edit

Spec == Init /\ [][Next]_vars

(* Both threads run; an aborted task is stopped at its next await.  Nothing
   is assumed of the streams and of the file.                              *)
FairSpec ==
  /\ Spec
  /\ WF_vars(Initiate \/ Watch)
  /\ WF_vars(HandleEvent)
  /\ WF_vars(Multicast)
  /\ \A u \in Urls : WF_vars(Aborted(u))

------------------------------------------------------------------------------
(* Invariants *)

TasksOK ==
  /\ types \in [Urls -> Types \cup {NoType}]
  /\ owned \in SUBSET Mapped
  /\ loose \in [Urls -> Nat]
  /\ dying \in [Urls -> Nat]

FileOK ==
  /\ file \in Configs \cup {Broken}
  /\ edits \in 0..MaxEdits
  /\ unread \in 0..edits
  /\ stale \in BOOLEAN

(* The types; a task the map owns belongs to one of its keys, and an event
   has an edit as its cause.                                               *)
TypeOK ==
  /\ pc \in {"initiate", "watch", "serve", "stopped"}
  /\ FileOK
  /\ TasksOK
  /\ queue \in Seq(Urls)

(* The map agrees with the file: its entries are entries of the file, and no
   url of the file is missing.                                             *)
InSync ==
  /\ Current \subseteq ToSet(file)
  /\ UrlsOf(Current) = UrlsOf(ToSet(file))

(* Whatever edits were made while events were handled, once none is left the
   map agrees with the file; unless the file does not parse, or was written
   in the gap between initiate() and the watcher.                          *)
FollowsFile ==
  pc = "serve" /\ unread = 0 /\ file # Broken /\ ~stale => InSync

(* The same between the start and the first event.                         *)
Tracked ==
  pc \in {"watch", "serve"} /\ unread = 0 /\ file # Broken /\ ~stale => InSync

(* Before initiate() there are no entries, before the watcher no events.   *)
StartsEmpty ==
  /\ pc = "initiate" => Mapped = {}
  /\ pc \in {"initiate", "watch"} => unread = 0

IInv == TypeOK /\ StartsEmpty /\ Tracked

------------------------------------------------------------------------------
(* The promise of the handler *)

Follower == INSTANCE ConfigFollower
  WITH Entries    <- Urls,
       Unreadable <- Broken,
       phase      <- CASE pc = "initiate" -> "off"
                       [] pc = "watch"    -> "deaf"
                       [] pc = "serve"    -> "on"
                       [] OTHER           -> "down",
       content    <- IF file = Broken THEN Broken ELSE UrlsOf(ToSet(file)),
       followed   <- Mapped,
       behind     <- unread > 0,
       missed     <- stale

(* The handler implements ConfigFollower for the urls of the file: whatever
   edits come while events are handled, ipcs_map changes only to what the
   file says, and agrees with it once no event is pending.                 *)
ImplementsFollower == Follower!Spec

(* ... and it catches up: a file that is left alone is followed in the end. *)
FollowerSettles == Follower!Settles

------------------------------------------------------------------------------
(* Action and liveness properties *)

SparedNow ==
  unread' < unread =>
    \A u \in Mapped : types'[u] = types[u] =>
      (u \in owned' <=> u \in owned) /\ loose'[u] = loose[u] /\ dying'[u] = dying[u]

(* An event leaves the tasks of unchanged entries alone: they are neither
   aborted nor started twice (config.rs:142, "it is not changed").         *)
UpdateSparesUnchanged == [][SparedNow]_vars

(* The file read by a step has two entries for u.                          *)
NamedTwice(u) == file # Broken /\ \E i, j \in Occurs(u, file) : i # j

LostNow == \A u \in Urls : loose'[u] > loose[u] => NamedTwice(u)

(* ipcs_map loses the handle of a running task only where the file names a
   url twice: no other edit makes a url be received, and multicast, by two
   tasks of which one can never be aborted (config.rs:84, insert).          *)
HandlesAreKept == [][LostNow]_vars

(* The file says for ever that u is not wanted.                            *)
Unwanted(u) == file # Broken /\ ~stale /\ u \notin UrlsOf(ToSet(file))

(* A url taken out of the file is silent in the end, unless the handle of a
   task of it was lost: its tasks have stopped and what they had queued has
   been sent.                                                              *)
RemovedAreSilent ==
  \A u \in Urls :
    <>[]Unwanted(u) =>
      <>[](pc = "stopped" \/ loose[u] > 0 \/ (~Running(u) /\ u \notin ToSet(queue)))

==============================================================================
