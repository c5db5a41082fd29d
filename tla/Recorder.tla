------------------------------- MODULE Recorder -------------------------------
(***************************************************************************)
(* crypto-market-recorder: one process that subscribes to the endpoint of a *)
(* market and gives what it hears to a DataWriter, which keeps one file for *)
(* each day.  The tasks are nested: main waits for one that waits for the   *)
(* one that reads.                                                          *)
(*                                                                          *)
(* The publisher, the ZeroMQ sockets and the DataWriter are not in src/;    *)
(* messages are numbers, in the order in which they are published.          *)
(***************************************************************************)
EXTENDS Integers, Sequences, SequencesExt

CONSTANTS
  HighWater,       \* messages the subscriber's socket holds
  MaxMsgs,         \* bound: messages published
  MaxDays          \* bound: the last day

ASSUME RecorderAssumption ==
  /\ HighWater \in Nat \ {0}
  /\ {MaxMsgs, MaxDays} \subseteq Nat

VARIABLES
  published,       \* messages published so far
  inbox,           \* messages at the subscriber, not yet read
  heard,           \* history: all messages the subscriber has been given
  pc,              \* where the task is: "aborted" and "over" are its ends
  queue,           \* entries the DataWriter has taken, not yet stored
  today,
  file,            \* file[d]: the records of day d
  exit             \* "running", "ok" or "failed": the process

outside == <<published, today>>
recVars == <<published, inbox, heard, pc, queue, today, file, exit>>

RecInit ==
  /\ published = 0
  /\ inbox = <<>>
  /\ heard = <<>>
  /\ pc = "writer"
  /\ queue = <<>>
  /\ today = 0
  /\ file = [d \in 0..MaxDays |-> <<>>]
  /\ exit = "running"

------------------------------------------------------------------------------
(* create_write_file_thread *)

(* data_writer.start().await?: an error ends the task, and is logged.      *)
StartWriter ==
  /\ exit = "running"
  /\ pc = "writer"
  /\ pc' \in {"socket", "aborted"}
  /\ UNCHANGED <<outside, inbox, heard, queue, file, exit>>

(* connect and subscribe; if either fails the task returns Ok(()).         *)
Subscribe ==
  /\ exit = "running"
  /\ pc = "socket"
  /\ pc' \in {"reading", "aborted"}
  /\ UNCHANGED <<outside, inbox, heard, queue, file, exit>>

(* ZeromqSubscriber::new() fails: the task panics, its JoinError comes back
   to main, and that panics.                                               *)
SocketPanics ==
  /\ exit = "running"
  /\ pc = "socket"
  /\ exit' = "failed"
  /\ queue' = <<>>
  /\ UNCHANGED <<outside, inbox, heard, pc, file>>

(* Mutant: an entry that is not taken is passed over.                      *)
ReadOn ==
  /\ exit = "running"
  /\ pc = "reading"
  /\ inbox # <<>>
  /\ inbox' = Tail(inbox)
  /\ \/ queue' = Append(queue, Head(inbox)) /\ UNCHANGED pc
     \/ UNCHANGED <<pc, queue>>
  /\ UNCHANGED <<outside, heard, file, exit>>

(* Mutant: a message is added when the next one is there.                  *)
ReadSecond ==
  /\ exit = "running"
  /\ pc = "reading"
  /\ Len(inbox) > 1
  /\ inbox' = Tail(inbox)
  /\ \/ queue' = Append(queue, Head(inbox)) /\ UNCHANGED pc
     \/ pc' = "over" /\ UNCHANGED queue
  /\ UNCHANGED <<outside, heard, file, exit>>

(* A message comes and is added; if that fails, the message is lost and the
   reading ends.                                                           *)
Read ==
  /\ exit = "running"
  /\ pc = "reading"
  /\ inbox # <<>>
  /\ inbox' = Tail(inbox)
  /\ \/ queue' = Append(queue, Head(inbox)) /\ UNCHANGED pc
     \/ pc' = "over" /\ UNCHANGED queue
  /\ UNCHANGED <<outside, heard, file, exit>>

(* The subscriber's stream ends, or gives an error.                        *)
StreamEnds ==
  /\ exit = "running"
  /\ pc = "reading"
  /\ pc' = "over"
  /\ UNCHANGED <<outside, inbox, heard, queue, file, exit>>

(* Whatever the task ended with, main returns, and the process with it.    *)
Exit ==
  /\ exit = "running"
  /\ pc \in {"aborted", "over"}
  /\ exit' = "ok"
  /\ inbox' = <<>>
  /\ queue' = <<>>
  /\ UNCHANGED <<outside, heard, pc, file>>

------------------------------------------------------------------------------
(* Outside *)

(* A message is published; it is dropped where nobody is subscribed, and for
   a subscriber that is HighWater messages behind.                         *)
Publish ==
  /\ published < MaxMsgs
  /\ published' = published + 1
  /\ IF exit = "running" /\ pc = "reading" /\ Len(inbox) < HighWater
     THEN /\ inbox' = Append(inbox, published + 1)
          /\ heard' = Append(heard, published + 1)
     ELSE UNCHANGED <<inbox, heard>>
  /\ UNCHANGED <<pc, queue, today, file, exit>>

(* The DataWriter stores an entry in the file of the day.                  *)
Store ==
  /\ exit = "running"
  /\ queue # <<>>
  /\ queue' = Tail(queue)
  /\ file' = [file EXCEPT ![today] = Append(@, Head(queue))]
  /\ UNCHANGED <<outside, inbox, heard, pc, exit>>

Midnight ==
  /\ today < MaxDays
  /\ today' = today + 1
  /\ UNCHANGED <<published, inbox, heard, pc, queue, file, exit>>

------------------------------------------------------------------------------
Process == StartWriter \/ Subscribe \/ SocketPanics \/ Read \/ StreamEnds \/ Exit

RecNext == Process \/ Publish \/ Store \/ Midnight

Spec == RecInit /\ [][RecNext]_recVars

(* The runtime runs the tasks, but nothing has to fail: neither the stream
   nor SocketPanics.                                                       *)
RecFair ==
  /\ WF_recVars(StartWriter) /\ WF_recVars(Subscribe)
  /\ WF_recVars(Read) /\ WF_recVars(Exit) /\ WF_recVars(Store)

------------------------------------------------------------------------------
Messages == 1..MaxMsgs

RecTypeOK ==
  /\ published \in 0..MaxMsgs
  /\ inbox \in Seq(Messages) /\ Len(inbox) <= HighWater
  /\ heard \in Seq(Messages)
  /\ pc \in {"writer", "socket", "aborted", "reading", "over"}
  /\ queue \in Seq(Messages) /\ Len(queue) + Len(inbox) <= published
  /\ today \in 0..MaxDays
  /\ file \in [0..MaxDays -> Seq(Messages)]
  /\ exit \in {"running", "ok", "failed"}

Climbs(s) == \A i, j \in DOMAIN s : i < j => s[i] < s[j]

Below(s, t) == \A m \in ToSet(s), n \in ToSet(t) : m < n

Recorded == UNION {ToSet(file[d]) : d \in 0..MaxDays}

Taken == Recorded \cup ToSet(queue)

(* The files, one day after the other, and then what the DataWriter has yet
   to store.                                                               *)
RecordedInOrder ==
  /\ \A d \in 0..MaxDays : Climbs(file[d]) /\ Below(file[d], queue)
  /\ \A d, e \in 0..MaxDays : d < e => Below(file[d], file[e])
  /\ Climbs(queue)

(* What is recorded is an initial part of what the subscriber was given: a
   message that could not be added is never followed by a later one, and
   nothing is recorded twice or out of its order.                          *)
RecordedHasNoHoles ==
  /\ RecordedInOrder
  /\ Taken \subseteq ToSet(heard)
  /\ \A n \in Taken, m \in ToSet(heard) : m < n => m \in Taken

(* The strengthening that is inductive: nothing is heard before the task
   reads; while it does, all that was heard is taken or waits in the inbox, in
   that order; no file is of a day to come.                                *)
Course ==
  /\ Climbs(heard)
  /\ \A n \in ToSet(heard) : n <= published
  /\ \A d \in 0..MaxDays : d > today => file[d] = <<>>
  /\ pc \in {"writer", "socket"} => heard = <<>> /\ inbox = <<>>
  /\ pc = "reading" =>
       /\ ToSet(heard) = Taken \cup ToSet(inbox)
       /\ Climbs(inbox)
       /\ \A m \in Taken, n \in ToSet(inbox) : m < n

(* A message the subscriber was given is recorded, unless the process ends. *)
HeardIsRecorded ==
  \A n \in Messages :
    n \in ToSet(heard) ~> (n \in Recorded \/ exit # "running")

==============================================================================
