----------------------------- MODULE ReplayHistory -----------------------------
(***************************************************************************)
(* The "history" command of crypto-market-replay, for one session: each    *)
(* command spawns a task (history_handle) that reads the recorded files,   *)
(* day by day, and puts their records into the session's outbox.  ReplayHub*)
(* has only the number of messages such tasks send.                        *)
(*                                                                         *)
(* Days count backwards from today, so that all of them change their names *)
(* at midnight, whatever a task has read by then.                          *)
(***************************************************************************)
EXTENDS Integers, Sequences, SequencesExt

CONSTANTS
  Tasks,           \* commands of the session, and the tasks they spawn
  Args,            \* values of MarketDataArg
  JsonCap,         \* capacity of the outbox (100 in handle_socket.rs)
  MaxDay,          \* bound: no file is older
  MaxLen,          \* bound: records of a file
  MaxArgs,         \* bound: arguments of a command
  MaxNights        \* bound: how often midnight passes

ASSUME HistoryAssumption ==
  /\ JsonCap \in Nat \ {0}
  /\ {MaxDay, MaxLen, MaxArgs, MaxNights} \subseteq Nat

VARIABLES
  session,         \* the session's task: "idle", "replying" or "gone"
  outbox,          \* number of messages in rx_json
  nights,          \* how often midnight has passed
  files,           \* the files there are: pairs of an argument and a date
  task,            \* where each task stands
  cmd,             \* its command: the days "start-end" and the arguments
  arg,             \* the argument it is at
  day,             \* i, the day it is at
  left,            \* records of the file it has yet to send
  served           \* history: the files each task has opened, and the days
                   \* it has said are missing

place == <<task, arg, day, left>>
vars  == <<session, outbox, nights, files, place, cmd, served>>

Days == 0..MaxDay

(* The calendar date of a day that is spoken of now.                       *)
Date(d) == nights - d

Refused(t) == cmd[t].start < cmd[t].end

Active(t) == task[t] \in {"open", "read", "missing"}

Init ==
  /\ session = "idle"
  /\ outbox = 0
  /\ nights = 0
  /\ files \in SUBSET (Args \X {-d : d \in Days})
  /\ task = [t \in Tasks |-> "off"]
  /\ cmd = [t \in Tasks |-> [start |-> 0, end |-> 0, args |-> <<>>]]
  /\ arg = [t \in Tasks |-> 1]
  /\ day = [t \in Tasks |-> 0]
  /\ left = [t \in Tasks |-> 0]
  /\ served = [t \in Tasks |-> <<>>]

------------------------------------------------------------------------------
(* The session: json_handle and its loop *)

(* "history@start-end".  A range that is refused spawns its task after the
   error has been sent.                                                    *)
Command(t) ==
  /\ session = "idle"
  /\ task[t] = "off"
  /\ \E s, e \in Days, args \in BoundedSeq(Args, MaxArgs) :
       /\ cmd' = [cmd EXCEPT ![t] = [start |-> s, end |-> e, args |-> args]]
       /\ day' = [day EXCEPT ![t] = s]
       /\ IF s < e
          THEN session' = "replying" /\ task' = [task EXCEPT ![t] = "asked"]
          ELSE task' = [task EXCEPT ![t] = "open"] /\ UNCHANGED session
  /\ UNCHANGED <<outbox, nights, files, arg, left, served>>

(* The error goes into the session's own outbox; meanwhile nobody reads it. *)
Reply(t) ==
  /\ session = "replying"
  /\ task[t] = "asked"
  /\ outbox < JsonCap
  /\ outbox' = outbox + 1
  /\ session' = "idle"
  /\ task' = [task EXCEPT ![t] = "open"]
  /\ UNCHANGED <<nights, files, cmd, arg, day, left, served>>

(* The next message goes to the client.                                    *)
Deliver ==
  /\ session = "idle"
  /\ outbox > 0
  /\ outbox' = outbox - 1
  /\ UNCHANGED <<session, nights, files, place, cmd, served>>

(* The client leaves, for whatever reason: rx_json is dropped.             *)
SessionEnd ==
  /\ session = "idle"
  /\ session' = "gone"
  /\ outbox' = 0
  /\ UNCHANGED <<nights, files, place, cmd, served>>

------------------------------------------------------------------------------
(* history_handle *)

(* The next argument, from the start of the range.                         *)
NextArg(t) ==
  /\ arg' = [arg EXCEPT ![t] = @ + 1]
  /\ day' = [day EXCEPT ![t] = cmd[t].start]
  /\ task' = [task EXCEPT ![t] = "open"]

InRange(t) == day[t] >= cmd[t].end

(* The answer to the day a task is at.                                     *)
FileOf(t)    == [kind |-> "file", arg |-> arg[t], day |-> day[t], date |-> Date(day[t])]
MissingOf(t) == [kind |-> "missing", arg |-> arg[t], day |-> day[t]]

(* The head of both loops: all arguments are done, or the day is later than
   the end of the range, or its file is opened: its date is reckoned from now
   and stays that of the records, however long they take.  A file may be
   empty.                                                                  *)
Open(t) ==
  /\ task[t] = "open"
  /\ IF arg[t] > Len(cmd[t].args)
     THEN task' = [task EXCEPT ![t] = "done"] /\ UNCHANGED <<arg, day, left, served>>
     ELSE IF ~InRange(t)
     THEN NextArg(t) /\ UNCHANGED <<left, served>>
     ELSE IF <<cmd[t].args[arg[t]], Date(day[t])>> \in files
     THEN /\ task' = [task EXCEPT ![t] = "read"]
          /\ \E n \in 0..MaxLen : left' = [left EXCEPT ![t] = n]
          /\ served' = [served EXCEPT ![t] = Append(@, FileOf(t))]
          /\ UNCHANGED <<arg, day>>
     ELSE task' = [task EXCEPT ![t] = "missing"] /\ UNCHANGED <<arg, day, left, served>>
  /\ UNCHANGED <<session, outbox, nights, files, cmd>>

(* tx_json.send().await; its expect() ends the task if the session is gone. *)
Put ==
  /\ session # "gone"
  /\ outbox < JsonCap
  /\ outbox' = outbox + 1

(* A task that has something to send.                                      *)
Sending(t) == task[t] = "missing" \/ (task[t] = "read" /\ left[t] > 0)

(* Mutant: the word that a day is missing is waited for without a look at
   whether anybody is there.                                               *)
PanicWhileReading(t) ==
  /\ session = "gone"
  /\ task[t] = "read" /\ left[t] > 0
  /\ task' = [task EXCEPT ![t] = "panicked"]
  /\ UNCHANGED <<session, outbox, nights, files, cmd, arg, day, left, served>>

(* Nobody reads any more.                                                  *)
Panic(t) ==
  /\ session = "gone"
  /\ Sending(t)
  /\ task' = [task EXCEPT ![t] = "panicked"]
  /\ UNCHANGED <<session, outbox, nights, files, cmd, arg, day, left, served>>

(* A record of the file.                                                   *)
SendRecord(t) ==
  /\ task[t] = "read"
  /\ left[t] > 0
  /\ Put
  /\ left' = [left EXCEPT ![t] = @ - 1]
  /\ UNCHANGED <<session, nights, files, cmd, task, arg, day, served>>

(* Mutant: two days at a time.                                             *)
EndOfFileSkips(t) ==
  /\ task[t] = "read"
  /\ left[t] = 0
  /\ day' = [day EXCEPT ![t] = @ + 2]
  /\ task' = [task EXCEPT ![t] = "open"]
  /\ UNCHANGED <<session, outbox, nights, files, cmd, arg, left, served>>

(* After the last record the next day, further back.                       *)
EndOfFile(t) ==
  /\ task[t] = "read"
  /\ left[t] = 0
  /\ day' = [day EXCEPT ![t] = @ + 1]
  /\ task' = [task EXCEPT ![t] = "open"]
  /\ UNCHANGED <<session, outbox, nights, files, cmd, arg, left, served>>

(* Mutant: a day without a file ends the argument without a word.          *)
SendMissingSilently(t) ==
  /\ session # "gone"
  /\ task[t] = "missing"
  /\ NextArg(t)
  /\ UNCHANGED <<session, outbox, nights, files, cmd, left, served>>

(* No file: that is said (5002), and the argument is done with.            *)
SendMissing(t) ==
  /\ task[t] = "missing"
  /\ Put
  /\ served' = [served EXCEPT ![t] = Append(@, MissingOf(t))]
  /\ NextArg(t)
  /\ UNCHANGED <<session, nights, files, cmd, left>>

------------------------------------------------------------------------------
(* Midnight; today may have been recorded for some of the arguments.       *)
Midnight ==
  /\ nights < MaxNights
  /\ nights' = nights + 1
  /\ \E new \in SUBSET Args : files' = files \cup (new \X {nights + 1})
  /\ UNCHANGED <<session, outbox, place, cmd, served>>

------------------------------------------------------------------------------
TaskStep(t) ==
  Open(t) \/ SendRecord(t) \/ EndOfFile(t) \/ SendMissing(t) \/ Panic(t)

Next ==
  \/ \E t \in Tasks :
       \/ Command(t) \/ Reply(t)
       \/ Open(t) \/ SendRecord(t) \/ EndOfFile(t) \/ SendMissing(t) \/ Panic(t)
  \/ Deliver \/ SessionEnd
  \/ Midnight

Spec == Init /\ [][Next]_vars

(* The runtime runs a task that can go on, and the client reads what
   it is sent.  What the tasks of a session send is finite, so that one that
   waits for a place need not be served first come, first served.          *)
FairSpec ==
  /\ Spec
  /\ WF_vars(Deliver)
  /\ \A t \in Tasks : WF_vars(Reply(t)) /\ WF_vars(TaskStep(t))

------------------------------------------------------------------------------
(* Invariants *)

Answers ==
  [kind : {"file"}, arg : Nat, day : Nat, date : Int]
    \cup [kind : {"missing"}, arg : Nat, day : Nat]

(* The types; a session replies to one command at a time.                  *)
TypeOK ==
  /\ session \in {"idle", "replying", "gone"}
  /\ outbox \in 0..JsonCap
  /\ nights \in 0..MaxNights
  /\ files \in SUBSET (Args \X Int)
  /\ task \in [Tasks -> {"off", "asked", "open", "read", "missing", "done", "panicked"}]
  /\ cmd \in [Tasks -> [start : Days, end : Days, args : Seq(Args)]]
  /\ arg \in [Tasks -> Nat]
  /\ day \in [Tasks -> Nat]
  /\ left \in [Tasks -> 0..MaxLen]
  /\ served \in [Tasks -> Seq(Answers)]
  /\ session = "replying" <=> \E t \in Tasks : task[t] = "asked"

(* An argument is begun with the start of the range, and after the one before
   it; the next day adjoins the last one, which had a file.                *)
DayByDay(t) ==
  \A i \in DOMAIN served[t] :
    LET m == served[t][i] IN
    IF i = 1 \/ served[t][i - 1].arg # m.arg
    THEN m.day = cmd[t].start /\ (i > 1 => m.arg = served[t][i - 1].arg + 1)
    ELSE LET p == served[t][i - 1] IN
         p.kind = "file" /\ m.day \in {p.day - 1, p.day + 1}

(* The night a file was opened: its date is `day' days before.             *)
OpenedOn(e) == e.date + e.day

(* No day of an argument comes twice, and a file comes twice only if midnight
   has given it the name of another day.                                   *)
NoneTwice(t) ==
  \A i, j \in DOMAIN served[t] :
    LET p == served[t][i]
        m == served[t][j] IN
    i < j /\ p.arg = m.arg =>
      /\ p.day # m.day
      /\ p.kind = "file" /\ m.kind = "file" /\ p.date = m.date => OpenedOn(p) < OpenedOn(m)

(* Whatever midnight does to the names of the days while a history is sent,
   each argument is served day by day, whichever way the days are counted:
   none is passed over, none comes twice, nothing follows a missing one; and
   no file is sent twice but across midnight.                              *)
DaysAdjoin == \A t \in Tasks : DayByDay(t) /\ NoneTwice(t)

(* Argument k has been told of a missing day, or has had its whole range.  *)
Ended(t, k) ==
  \/ \E i \in DOMAIN served[t] : served[t][i].arg = k /\ served[t][i].kind = "missing"
  \/ \A d \in cmd[t].end..cmd[t].start :
       \E i \in DOMAIN served[t] :
         served[t][i].arg = k /\ served[t][i].kind = "file" /\ served[t][i].day = d

(* No argument is done with before its range is: a client that has neither had
   every day of it nor been told of one that is missing has more to come.  *)
EachArgumentEnds ==
  \A t \in Tasks : ~Refused(t) => \A k \in 1..(arg[t] - 1) : Ended(t, k)

(* A range that was refused gives no data, although its task is spawned.   *)
RefusedGetsNothing == \A t \in Tasks : Refused(t) => served[t] = <<>>

(* What a client is sent answers its command: each argument of a range to its
   end, and nothing at all for a range it was told is none.                *)
CommandsAreAnswered == EachArgumentEnds /\ RefusedGetsNothing

(* The strengthening that is inductive. *)

(* Where a task stands, against its command.                               *)
Standing(t) ==
  /\ task[t] \in {"off", "asked"} => served[t] = <<>> /\ arg[t] = 1
  /\ day[t] >= cmd[t].start
  /\ Refused(t) => /\ day[t] = cmd[t].start
                   /\ task[t] \notin {"read", "missing"}
                   /\ served[t] = <<>>

(* Where it stands, against what it has served: the argument it is at has only
   had files so far, and the day it is at is that of the last of them, while
   it is read, or the next one.                                            *)
Following(t) ==
  /\ \A i \in DOMAIN served[t] :
       /\ served[t][i].arg <= arg[t]
       /\ served[t][i].arg = arg[t] =>
            /\ served[t][i].kind = "file"
            /\ served[t][i].day <= day[t]
            /\ task[t] \in {"open", "missing"} => served[t][i].day < day[t]
  /\ task[t] = "read" => served[t] # <<>>
  /\ served[t] = <<>> => day[t] = cmd[t].start /\ (~Refused(t) => arg[t] = 1)
  /\ served[t] # <<>> =>
       IF Last(served[t]).arg = arg[t]
       THEN /\ task[t] = "read" => day[t] = Last(served[t]).day
            /\ task[t] \in {"open", "missing"} => day[t] = Last(served[t]).day + 1
       ELSE /\ Last(served[t]).arg + 1 = arg[t]
            /\ day[t] = cmd[t].start
            /\ task[t] # "read"

AllEnded(t) == ~Refused(t) => \A k \in 1..(arg[t] - 1) : Ended(t, k)

OneReply == \A t, u \in Tasks : task[t] = "asked" /\ task[u] = "asked" => t = u

Local(t) == Standing(t) /\ Following(t) /\ DayByDay(t) /\ NoneTwice(t) /\ AllEnded(t)

IInv == TypeOK /\ OneReply /\ \A t \in Tasks : Local(t)

(* handle_socket.rs:137-141: "start = 6, end = 1 ... data of 6 days ago ...
   data of 1 day ago": no day asked for is left out while there is a file. *)
RangeIsServed ==
  \A t \in Tasks :
    task[t] = "done" /\ nights = 0 =>
      \A k \in DOMAIN cmd[t].args, d \in cmd[t].end..cmd[t].start :
        (\A e \in cmd[t].end..cmd[t].start : <<cmd[t].args[k], -e>> \in files) =>
          \E i \in DOMAIN served[t] :
            served[t][i].kind = "file" /\ served[t][i].arg = k /\ served[t][i].day = d

(* A task comes to its end, served or not, unless the session is stuck in the
   reply for which its own outbox has no place.                            *)
HistoryEnds ==
  \A t \in Tasks :
    Active(t) ~> (task[t] \in {"done", "panicked"} \/ session = "replying")

==============================================================================
