------------------------------ MODULE ReplayConfig ------------------------------
(***************************************************************************)
(* The configuration handler of crypto-market-replay (config/dynamic.rs)   *)
(* and the feed tasks it starts (the closure in lib.rs).  For each entry   *)
(* of conf.json one task receives from ZeroMQ and sends into the bounded   *)
(* data channel of the hub; ReplayHub shows what becomes of the messages.  *)
(*                                                                         *)
(* Unlike its twin in MulticastServer the map has the whole entry as its   *)
(* key and the file is read into a HashSet: an entry listed twice is one.  *)
(***************************************************************************)
EXTENDS Naturals, Sequences, SequencesExt

CONSTANTS
  Args,         \* values of MarketDataArg
  Broken,       \* the content of a file that cannot be read or parsed
  DataCap,      \* capacity of the data channel (1024 in lib.rs)
  MaxEdits      \* bound: how often the file is written

ASSUME ReplayConfigAssumption ==
  /\ \A S \in SUBSET Args : S # Broken
  /\ DataCap \in Nat \ {0}
  /\ MaxEdits \in Nat

VARIABLES
  hub,          \* where msg_sub_handle stands: in new(), before watcher(),
                \* in its loop, or ended by a panic
  file,         \* the entries conf.json names, or Broken
  edits,        \* how often it was written
  unread,       \* Modify events not handled yet
  stale,        \* history: was the file last written after new() had read it
                \* and before the watcher was there to notice?
  keys,         \* all_sub_task: its keys
  feeding,      \* keys whose task is at work
  dying,        \* tasks of each entry that were aborted and still run
  data          \* the data channel: the entries its messages come from

fileVars == <<file, edits, unread, stale>>
tasks    == <<keys, feeding, dying>>
vars     == <<hub, fileVars, tasks, data>>

Contents == {Broken} \cup SUBSET Args

Init ==
  /\ hub = "new"
  /\ file \in Contents
  /\ edits = 0
  /\ unread = 0
  /\ stale = FALSE
  /\ keys = {}
  /\ feeding = {}
  /\ dying = [a \in Args |-> 0]
  /\ data = <<>>

------------------------------------------------------------------------------
(* DynamicConfigHandler *)

(* Mutant: keys without a working task are registered as if they were new.  *)
UpdateRevives ==
  /\ dying' = [a \in Args |-> IF a \in feeding \ file THEN dying[a] + 1 ELSE dying[a]]
  /\ keys' = file
  /\ feeding' = file

(* Mutant: the difference is taken the other way round.                    *)
UpdateAborts ==
  LET added == file \ keys
      kept  == file \cap keys IN
  /\ dying' = [a \in Args |-> IF a \in kept \cap feeding THEN dying[a] + 1 ELSE dying[a]]
  /\ keys' = (keys \ kept) \cup added
  /\ feeding' = (feeding \ kept) \cup added

(* Mutant: the entries are removed, their tasks are not aborted.           *)
UpdateForgets ==
  /\ keys' = file
  /\ feeding' = feeding \cup (file \ keys)
  /\ UNCHANGED dying

(* on_config_update(): cleanup() aborts what was removed, register() spawns
   what was added.                                                         *)
OnConfigUpdate ==
  LET added   == file \ keys
      removed == keys \ file IN
  /\ dying' = [a \in Args |-> IF a \in removed \cap feeding THEN dying[a] + 1 ELSE dying[a]]
  /\ keys' = (keys \ removed) \cup added
  /\ feeding' = (feeding \ removed) \cup added

(* DynamicConfigHandler::new(): its expect() ends the hub, and nothing that
   serves the websockets notices, if the file cannot be read.              *)
New ==
  /\ hub = "new"
  /\ IF file = Broken
     THEN hub' = "panicked" /\ UNCHANGED tasks
     ELSE hub' = "watcher" /\ OnConfigUpdate
  /\ UNCHANGED <<fileVars, data>>

(* watcher(): from now on modifications are noticed.  If it fails the hub
   panics, the handler is dropped and its tasks are detached.              *)
CreateWatcher ==
  /\ hub = "watcher"
  /\ hub' \in {"loop", "panicked"}
  /\ UNCHANGED <<fileVars, tasks, data>>

(* handle_event(): the file is read now; an error is only logged.          *)
HandleEvent ==
  /\ hub = "loop"
  /\ unread > 0
  /\ unread' = unread - 1
  /\ IF file = Broken THEN UNCHANGED tasks ELSE OnConfigUpdate
  /\ UNCHANGED <<hub, file, edits, stale, data>>

------------------------------------------------------------------------------
(* A feed task *)

(* data_tx.send().await finds a place.  An aborted task goes on until it has
   to wait.                                                                *)
FeedSend(a) ==
  /\ hub # "panicked"
  /\ a \in feeding \/ dying[a] > 0
  /\ Len(data) < DataCap
  /\ data' = Append(data, a)
  /\ UNCHANGED <<hub, fileVars, tasks>>

(* The connection fails, the stream ends or reports an error, or the hub is
   gone: the task returns, its key stays.                                  *)
FeedEnd(a) ==
  /\ a \in feeding
  /\ feeding' = feeding \ {a}
  /\ UNCHANGED <<hub, fileVars, keys, dying, data>>

(* An aborted task reaches an await that is not ready: to receive, or for a
   place in the full channel.                                              *)
Aborted(a) ==
  /\ dying[a] > 0
  /\ dying' = [dying EXCEPT ![a] = @ - 1]
  /\ UNCHANGED <<hub, fileVars, keys, feeding, data>>

------------------------------------------------------------------------------
(* The hub takes a message (ReplayHub says what it does with it).          *)
HubTakes ==
  /\ hub = "loop"
  /\ data # <<>>
  /\ data' = Tail(data)
  /\ UNCHANGED <<hub, fileVars, tasks>>

(* Whoever writes conf.json.                                               *)
Edit ==
  /\ edits < MaxEdits
  /\ edits' = edits + 1
  /\ file' \in Contents
  /\ unread' = IF hub = "loop" THEN unread + 1 ELSE unread
  /\ stale' = (hub = "watcher")
  /\ UNCHANGED <<hub, tasks, data>>

------------------------------------------------------------------------------
Next ==
  \/ New \/ CreateWatcher \/ HandleEvent
  \/ \E a \in Args : FeedSend(a) \/ FeedEnd(a) \/ Aborted(a)
  \/ HubTakes
  \/ Edit

Spec == Init /\ [][Next]_vars

(* The hub starts and takes its messages (see HubComesBack in ReplayHub for
   when it does not), the watcher thread handles its events and an aborted
   task comes to an await.  Nothing is assumed of streams and edits.       *)
FairSpec ==
  /\ Spec
  /\ WF_vars(New \/ CreateWatcher)
  /\ WF_vars(HandleEvent)
  /\ WF_vars(HubTakes)
  /\ \A a \in Args : WF_vars(Aborted(a))

------------------------------------------------------------------------------
(* Invariants *)

(* The types; a task at work belongs to a key of the map.                  *)
TypeOK ==
  /\ hub \in {"new", "watcher", "loop", "panicked"}
  /\ file \in Contents
  /\ edits \in 0..MaxEdits
  /\ unread \in 0..edits
  /\ stale \in BOOLEAN
  /\ keys \in SUBSET Args
  /\ feeding \in SUBSET keys
  /\ dying \in [Args -> Nat]
  /\ data \in Seq(Args) /\ Len(data) <= DataCap

(* Before new() there is no task, before the watcher no event, and from then
   on the keys are the entries of the file unless an event is pending.     *)
Tracked ==
  /\ hub = "new" => keys = {}
  /\ hub \in {"new", "watcher"} => unread = 0
  /\ hub \in {"watcher", "loop"} /\ unread = 0 /\ file # Broken /\ ~stale => keys = file

IInv == TypeOK /\ Tracked

------------------------------------------------------------------------------
(* The promise of the handler *)

Follower == INSTANCE ConfigFollower
  WITH Entries    <- Args,
       Unreadable <- Broken,
       phase      <- CASE hub = "new"     -> "off"
                       [] hub = "watcher" -> "deaf"
                       [] hub = "loop"    -> "on"
                       [] OTHER           -> "down",
       content    <- file,
       followed   <- keys,
       behind     <- unread > 0,
       missed     <- stale

(* The handler implements ConfigFollower: whatever edits come while events
   are handled, all_sub_task changes only to what the file says, and agrees
   with it once no event is pending.                                       *)
ImplementsFollower == Follower!Spec

(* The keys are the entries of the file whenever no event is pending; unless
   it does not parse, or was written in the gap before the watcher.        *)
AgreesWithFile == Follower!Faithful

------------------------------------------------------------------------------
(* Action and liveness properties *)

SparedNow ==
  unread' < unread =>
    \A a \in keys \cap keys' :
      (a \in feeding' <=> a \in feeding) /\ dying'[a] = dying[a]

(* An event neither aborts nor restarts the task of an entry that stays, not
   even one that has ended: that feed is dead until the entry is taken out
   of the file and put back.                                               *)
UpdateSparesUnchanged == [][SparedNow]_vars

Unwanted(a) == hub = "loop" /\ file # Broken /\ ~stale /\ a \notin file

(* An entry taken out of the file is silent in the end: its task has stopped
   and the hub has taken what it had sent.                                 *)
RemovedAreSilent ==
  \A a \in Args :
    <>[]Unwanted(a) => <>[](a \notin feeding /\ dying[a] = 0 /\ a \notin ToSet(data))

==============================================================================
