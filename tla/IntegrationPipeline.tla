-------------------------- MODULE IntegrationPipeline --------------------------
(***************************************************************************)
(* crypto-market-integration: a crawler of crypto-crawler or crypto-ws-    *)
(* client hands the messages of an exchange to an unbounded channel; a     *)
(* detached task, the writer, parses them and publishes each record on the *)
(* ZeroMQ socket of its symbol.  Which crawler runs, and how it is waited  *)
(* for, depends on the type of message the process was started for.        *)
(*                                                                         *)
(* The crawlers, the parser and ZeroMQ are libraries: a crawler may come   *)
(* to an end, a message may not parse, a record may not convert, a bind or *)
(* a write may fail.  The redis channel of the writer is always None.      *)
(*                                                                         *)
(* The runtime is assumed to have a second worker thread: the writer waits *)
(* for messages without yielding.                                          *)
(***************************************************************************)
EXTENDS Naturals, Sequences, SequencesExt

CONSTANTS
  Symbols,
  MsgTypes,        \* the types a process may be started for
  MaxRecords,      \* bound: records crawled by one process
  MaxRecs          \* bound: records of one message

ASSUME IntegrationAssumption ==
  /\ MsgTypes \subseteq
       {"bbo", "trade", "l2_event", "l2_topk", "l3_event", "candlestick", "ticker",
        "funding_rate", "open_interest", "l2_snapshot", "l3_snapshot", "other",
        "long_short_ratio"}
  /\ MaxRecords \in Nat
  /\ MaxRecs \in Nat

(* The types create_writer_thread() has an arm for.                        *)
Written == {"bbo", "trade", "l2_event", "l2_topk", "candlestick", "funding_rate"}

(* The types crawl() starts a blocking thread for and does not wait.       *)
Detached == {"l2_snapshot", "l3_snapshot"}

(* The types whose start may panic: a candlestick needs a period that is a
   number, crawl_other() knows some exchanges and market types.            *)
Choosy == {"candlestick", "other"}

VARIABLES
  msgType,         \* MSG_TYPE
  main,            \* "start", in crawl(), leaving the runtime, or "gone"
  crawler,         \* "off", "run" or "done": a sender of the channel while
                   \* it runs, unless the conversion thread has it
  log,             \* history: the symbol of each record that was crawled
  raw,             \* the channel to the conversion thread of "other"
  conversion,      \* that thread: "none", "run" or "done"
  queue,           \* the channel to the writer; a message is the numbers of
                   \* its records
  writer,          \* the task
  todo,            \* the message it parses, or what it has yet to publish
  sockets,         \* writers: the symbols with a bound socket
  out,             \* what went out on the socket of each symbol
  skipped          \* history: records the writer passed over

mains    == <<main, crawler>>
channels == <<raw, conversion, queue>>
sinks    == <<sockets, out, skipped>>
vars     == <<msgType, mains, log, channels, writer, todo, sinks>>

Stopped == {"ended", "panicked", "unsupported", "dropped"}

(* The receiver lives in the writer.                                       *)
Receiving == writer \notin Stopped

Published == UNION {ToSet(out[s]) : s \in Symbols}

Init ==
  /\ msgType \in MsgTypes
  /\ main = "start"
  /\ crawler = "off"
  /\ log = <<>>
  /\ raw = <<>>
  /\ conversion = "none"
  /\ queue = <<>>
  /\ writer = "new"
  /\ todo = <<>>
  /\ sockets = {}
  /\ out = [s \in Symbols |-> <<>>]
  /\ skipped = {}

------------------------------------------------------------------------------
(* main() and crawl() *)

(* The writer is spawned first.  A panic, in a branch of crawl() or for a
   type that has none, drops the sender and leaves main(); so does a blocking
   thread that nobody awaits, which may then have no time to start.        *)
Start ==
  /\ main = "start"
  /\ \/ /\ msgType \in Choosy \cup {"long_short_ratio"}
        /\ main' = "leaving"
        /\ crawler' = "done"
        /\ UNCHANGED conversion
     \/ /\ msgType \in Detached
        /\ main' = "leaving"
        /\ crawler' \in {"run", "done"}
        /\ UNCHANGED conversion
     \/ /\ msgType \notin Detached \cup {"long_short_ratio"}
        /\ main' = "crawl"
        /\ crawler' = "run"
        /\ conversion' = IF msgType = "other" THEN "run" ELSE "none"
  /\ UNCHANGED <<msgType, log, raw, queue, writer, todo, sinks>>

(* A message of the exchange, of at least one record: without any it is passed
   over, or ends the writer, as one is whose records do not convert.  Nothing
   comes of it when the other end of the channel is gone.                  *)
Crawl(symbols) ==
  LET msg == [i \in DOMAIN symbols |-> Len(log) + i] IN
  /\ crawler = "run"
  /\ symbols # <<>>
  /\ Len(log) + Len(symbols) <= MaxRecords
  /\ log' = log \o symbols
  /\ IF msgType = "other"
     THEN conversion = "run" /\ raw' = Append(raw, msg) /\ UNCHANGED queue
     ELSE Receiving /\ queue' = Append(queue, msg) /\ UNCHANGED raw
  /\ UNCHANGED <<msgType, mains, conversion, writer, todo, sinks>>

(* The crawler returns or panics, and drops its sender; whoever awaits it
   leaves main() the one way or the other.                                 *)
CrawlerEnds ==
  /\ crawler = "run"
  /\ crawler' = "done"
  /\ main' = "leaving"
  /\ UNCHANGED <<msgType, log, channels, writer, todo, sinks>>

(* Mutant: the thread ends with the crawler, whatever it has been given.    *)
ConvertEndsEarly ==
  /\ main # "gone"
  /\ conversion = "run"
  /\ IF crawler = "done"
     THEN raw' = <<>> /\ conversion' = "done" /\ UNCHANGED queue
     ELSE /\ raw # <<>> /\ Receiving
          /\ raw' = Tail(raw) /\ queue' = Append(queue, Head(raw)) /\ UNCHANGED conversion
  /\ UNCHANGED <<msgType, mains, log, writer, todo, sinks>>

(* create_conversion_thread(): its unwrap() panics when the writer is gone;
   it ends when all is converted and the crawler has dropped its sender.   *)
Convert ==
  /\ main # "gone"
  /\ conversion = "run"
  /\ IF raw = <<>>
     THEN crawler = "done" /\ conversion' = "done" /\ UNCHANGED <<raw, queue>>
     ELSE IF Receiving
     THEN raw' = Tail(raw) /\ queue' = Append(queue, Head(raw)) /\ UNCHANGED conversion
     ELSE raw' = <<>> /\ conversion' = "done" /\ UNCHANGED queue
  /\ UNCHANGED <<msgType, mains, log, writer, todo, sinks>>

------------------------------------------------------------------------------
(* create_writer_thread() *)

(* The receiver goes, and with it what was queued.                         *)
Stop(how) ==
  /\ writer' = how
  /\ queue' = <<>>
  /\ todo' = <<>>

(* Mutant: the writer is spawned when the crawler is done.                 *)
WriterStartsAfter ==
  /\ main # "gone"
  /\ crawler = "done"
  /\ writer = "new"
  /\ writer' = "recv"
  /\ UNCHANGED <<msgType, mains, log, channels, todo, sinks>>

WriterStarts ==
  /\ main # "gone"
  /\ writer = "new"
  /\ writer' = "recv"
  /\ UNCHANGED <<msgType, mains, log, channels, todo, sinks>>

(* Mutant: of several messages only the last is taken.                     *)
ReceiveLast ==
  /\ main # "gone"
  /\ writer = "recv"
  /\ queue # <<>>
  /\ IF msgType \in Written
     THEN writer' = "parse" /\ todo' = Last(queue) /\ queue' = <<>>
     ELSE Stop("unsupported")
  /\ UNCHANGED <<msgType, mains, log, raw, conversion, sinks>>

(* The next message; the task does not yield while it waits for it.  A type
   without an arm panics.  The panic ends two tasks nobody awaits.         *)
Receive ==
  /\ main # "gone"
  /\ writer = "recv"
  /\ queue # <<>>
  /\ IF msgType \in Written
     THEN writer' = "parse" /\ todo' = Head(queue) /\ queue' = Tail(queue)
     ELSE Stop("unsupported")
  /\ UNCHANGED <<msgType, mains, log, raw, conversion, sinks>>

(* What can be left of a message, in its order, when records are left out. *)
Increasing(n, len) ==
  {at \in [1..n -> 1..len] : \A i, j \in 1..n : i < j => at[i] < at[j]}

Thinned(msg) ==
  UNION {{[i \in 1..n |-> msg[at[i]]] : at \in Increasing(n, Len(msg))} : n \in 0..Len(msg)}

(* What does not parse panics.  The records that convert go on; of a bbo only
   the first one is looked at (swap_remove(0)).                            *)
Parse ==
  /\ main # "gone"
  /\ writer = "parse"
  /\ \/ Stop("panicked") /\ UNCHANGED skipped
     \/ \E good \in IF msgType = "bbo" THEN Thinned(<<todo[1]>>) ELSE Thinned(todo) :
          /\ todo' = good
          /\ skipped' = skipped \cup (ToSet(todo) \ ToSet(good))
          /\ writer' = IF good = <<>> THEN "recv" ELSE "send"
          /\ UNCHANGED queue
  /\ UNCHANGED <<msgType, mains, log, raw, conversion, sockets, out>>

(* create(): the first record of a symbol makes and binds a socket; if that
   fails the writer panics.                                                *)
CreateFails(s) == s \notin sockets /\ Stop("panicked") /\ UNCHANGED sinks

(* One record.  A write that fails is passed over.                         *)
Publish ==
  LET i == Head(todo)
      s == log[i] IN
  /\ main # "gone"
  /\ writer = "send"
  /\ \/ CreateFails(s)
     \/ /\ sockets' = sockets \cup {s}
        /\ \/ out' = [out EXCEPT ![s] = Append(@, i)] /\ UNCHANGED skipped
           \/ skipped' = skipped \cup {i} /\ UNCHANGED out
        /\ todo' = Tail(todo)
        /\ writer' = IF Tail(todo) = <<>> THEN "recv" ELSE "send"
        /\ UNCHANGED queue
  /\ UNCHANGED <<msgType, mains, log, raw, conversion>>

(* Mutant: main() has a sender until it is gone.                           *)
WriterEndsLate ==
  /\ writer = "recv"
  /\ queue = <<>>
  /\ main = "gone"
  /\ Stop("ended")
  /\ UNCHANGED <<msgType, mains, log, raw, conversion, sinks>>

(* All senders are gone and the channel is empty.                          *)
WriterEnds ==
  /\ main # "gone"
  /\ writer = "recv"
  /\ queue = <<>>
  /\ crawler = "done"
  /\ conversion # "run"
  /\ Stop("ended")
  /\ UNCHANGED <<msgType, mains, log, raw, conversion, sinks>>

------------------------------------------------------------------------------
(* The runtime, once main() has returned or panicked *)

(* A task that was not started, or waits for parse_*() on its thread, is
   dropped; one that waits for a message does not notice.                  *)
DropWriter ==
  /\ main = "leaving"
  /\ writer \in {"new", "parse"}
  /\ Stop("dropped")
  /\ UNCHANGED <<msgType, mains, log, raw, conversion, sinks>>

(* The runtime is gone when its threads are.                               *)
Gone ==
  /\ main = "leaving"
  /\ crawler = "done"
  /\ ~Receiving
  /\ main' = "gone"
  /\ UNCHANGED <<msgType, crawler, log, channels, writer, todo, sinks>>

------------------------------------------------------------------------------
WriterStep == WriterStarts \/ Receive \/ Parse \/ Publish \/ WriterEnds

Next ==
  \/ Start \/ CrawlerEnds \/ Convert
  \/ \E symbols \in BoundedSeq(Symbols, MaxRecs) : Crawl(symbols)
  \/ WriterStarts \/ Receive \/ Parse \/ Publish \/ WriterEnds
  \/ DropWriter \/ Gone

Spec == Init /\ [][Next]_vars

(* The threads of the process run.  Nothing is assumed of the exchange.    *)
FairSpec ==
  /\ Spec
  /\ WF_vars(Start)
  /\ WF_vars(Convert)
  /\ WF_vars(WriterStep)
  /\ WF_vars(Gone)

------------------------------------------------------------------------------
(* Invariants *)

Numbers == 1..Len(log)

(* The types; the writer has records in hand exactly while it works on a
   message, and a channel without a receiver holds nothing.                *)
TypeOK ==
  /\ msgType \in MsgTypes
  /\ main \in {"start", "crawl", "leaving", "gone"}
  /\ crawler \in {"off", "run", "done"}
  /\ log \in Seq(Symbols)
  /\ raw \in Seq(Seq(Numbers))
  /\ conversion \in {"none", "run", "done"}
  /\ queue \in Seq(Seq(Numbers))
  /\ writer \in {"new", "recv", "parse", "send"} \cup Stopped
  /\ todo \in Seq(Numbers)
  /\ todo # <<>> <=> writer \in {"parse", "send"}
  /\ ~Receiving => queue = <<>>
  /\ sockets \in SUBSET Symbols
  /\ out \in [Symbols -> Seq(Numbers)]
  /\ skipped \in SUBSET Numbers

(* What goes out on the socket of a symbol is its own records, each once, in
   the order in which they were crawled.                                   *)
PublishedInOrder ==
  \A s \in Symbols :
    /\ \A i \in DOMAIN out[s] : log[out[s][i]] = s
    /\ \A i, j \in DOMAIN out[s] : i < j => out[s][i] < out[s][j]

(* However the process ends, what is lost of its records is the last of them:
   each one before a published one was published or passed over.           *)
NoGaps ==
  \A j \in Published : \A i \in 1..j : i \in Published \cup skipped

(* At any moment, and at any end, a listener to all symbols has the beginning
   of what was crawled.                                                    *)
PublishedIsTheBeginning == PublishedInOrder /\ NoGaps

Within(messages) == UNION {ToSet(messages[k]) : k \in DOMAIN messages}

(* As long as the writer has not stopped, every record that was crawled is
   published, passed over, in the writer's hands or in one of the channels,
   though the crawler and main() may be gone.                              *)
NothingIsLost ==
  Receiving =>
    Numbers \subseteq Published \cup skipped \cup ToSet(todo) \cup Within(queue) \cup Within(raw)

(* The strengthening that is inductive. *)

(* The numbers after a, up to b.                                           *)
Block(a, b) == [i \in 1..(b - a) |-> a + i]

(* The messages of a channel are the numbers after a up to b, cut.         *)
Line(messages, a, b) ==
  \E cut \in [0..Len(messages) -> a..b] :
    /\ cut[0] = a
    /\ cut[Len(messages)] = b
    /\ \A i, j \in 0..Len(messages) : i < j => cut[i] < cut[j]
    /\ \A k \in DOMAIN messages : messages[k] = Block(cut[k - 1], cut[k])

(* The writer has come to a, the conversion thread to b.  Records in hand are
   later than those published.                                             *)
InLineAt(a, b) ==
  /\ Published \cup skipped \cup ToSet(todo) = 1..a
  /\ \A i, j \in DOMAIN todo : i < j => todo[i] < todo[j]
  /\ \A p \in Published, i \in DOMAIN todo : p < todo[i]
  /\ Line(queue, a, b)
  /\ Line(raw, b, Len(log))

InLine == Receiving => \E b \in 0..Len(log) : \E a \in 0..b : InLineAt(a, b)

(* Only "other" messages are converted.                                    *)
RawIsOther == msgType # "other" => raw = <<>>

IInv == TypeOK /\ PublishedIsTheBeginning /\ NothingIsLost /\ RawIsOther /\ InLine

------------------------------------------------------------------------------
(* Liveness *)

(* A record that was crawled is published or passed over, or the writer has
   stopped: it never falls asleep over a message.                          *)
CrawledIsHandled ==
  \A i \in 1..MaxRecords :
    i \in Numbers ~> (i \in Published \cup skipped \/ writer \in Stopped)

(* The end of the crawler ends the process: its sender was the last one, or
   the last of the conversion thread, and the writer does not wait for more. *)
CrawlerEndsProcess == main = "leaving" /\ crawler = "done" ~> main = "gone"

==============================================================================
