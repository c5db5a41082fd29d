# Formal models of crypto-market

TLA+ models, TLC runs and TLAPS proofs for the five Rust crates of this
repository. They distribute and keep market data: a crawler writes messages to
ZeroMQ IPC endpoints, the other programs take them from there and hand them
on over QUIC, websockets, UDP multicast or to files.

`PROJECT.json` holds, in machine-readable form, the components, the runs, a
mutant for each checked property, the source lines of each definition, the
hazards, the findings and the theorems. This file explains them.

All source paths below are relative to `src/`.

## 1. Inventory

### crypto-market-publisher: QUIC server (`crypto-market-publisher/src/server.rs`)

* **State.** Two global maps, each behind its own `std::sync::Mutex`:
  `CLIENT_LIST` (connection id to connection) and `CLIENT_SUBSCRIBE` (topic to
  set of connection ids).
* **Operations.** `server_connection` reads datagrams, accepts connections and
  handles the commands `sub@topic`, `unsub@topic` that arrive on streams;
  `server_alive_check` collects closed connections every two seconds; `server_send`
  registers the topic of the server and spawns the task that takes messages
  from ZeroMQ; `distribute()` pushes each of them to the subscribers.
* **Interaction.** Four threads share the two maps. Every step is taken under a
  lock, a panic poisons what its thread holds.
* **Hard.** Two mutexes taken in two orders; panics under a lock; clients that
  are collected while they are subscribed; commands before the topic exists;
  connections that fail in the middle of a distribution; edge-triggered
  readiness; packets duplicated or delayed during the handshake.
* **Correct when** every subscriber is a client; a message is written to all
  established subscribers and to nobody else; a subscription ends only by a
  command of its client or by its collection; closed clients are collected; a
  panic does not leave a server that only looks alive: the next command or
  datagram that meets what it poisoned ends the process.

### crypto-market-publisher: client (`client.rs`)

* **State.** One connection, whether the request was made (`req_sent`), a socket.
* **Operations.** Connect, answer a Retry, make the request once established,
  pass on what arrives, send pending packets.
* **Interaction.** Packets to and from `server_connection`, through a network
  that loses, repeats and reorders them.
* **Hard.** Edge-triggered readiness on both sides, `poll` without a timeout next
  to `on_timeout`, a send that blocks, an address that changes in the handshake.
* **Correct when** one attempt makes one connection, from an address that was
  validated; an established client asks once; nobody sleeps over a packet.

### crypto-market-replay: sessions (`handle_socket.rs`) and hub (`lib.rs`)

* **State.** In the hub `user_list` (user to symbols and outbox) and
  `sub_list` (symbol to outboxes); for each session an outbox of 100 messages;
  an action channel and a data channel of 1024 places each.
* **Operations.** A session turns a text frame into `Subscribe` or
  `Unsubscribe` actions, starts a history task, or answers with an error; it
  forwards its outbox to the socket; when it ends it sends `Unsubscribe(None)`.
  The hub applies actions and pushes data.
* **Interaction.** Bounded channels in a circle: session to hub, hub to session.
* **Hard.** Every `send().await` on a full channel suspends its task with
  everything that task serves; actions of ended sessions in the queue; a failed
  subscribe in two maps; an unsubscribe while the symbol is pushed to others.
* **Correct when** the two maps agree, an ended session is forgotten,
  subscriptions change by requests and by nothing else, and the hub always comes
  back to its loop.

A history task (`history_handle`) reads recorded files day by day, counted
backwards from now, and shares the outbox of its session. **Correct when** each
argument is served day by day and once, to its end or to a day that is said to
be missing, and the task ends when the client leaves.

### crypto-market-replay: dynamic configuration (`config/dynamic.rs`, the closure in `lib.rs`)

* **State.** `all_sub_task`: entry of `conf.json` to the handle of its feed task.
* **Operations.** As in the multicast server, on sets of `MarketDataArg`. A feed
  task receives from ZeroMQ and sends into the bounded data channel of the hub.
* **Hard.** The file is read before it is watched, and later than its events;
  an aborted task may be waiting for the full channel.
* **Correct when** the map agrees with the file after the last event, unchanged
  entries keep their tasks, and a removed entry falls silent.

### crypto-market-replay: file download (`market_data_file.rs`) and settings (`config/appliaction.rs`, `main.rs`)

* **State.** The options, and for each request an open file and a position.
* **Hard.** The recorder writes the file while it is streamed; midnight passes
  between the reckoning of the day, the opening and the streaming.
* **Correct when** a download is one day's file and an option is obeyed.

### crypto-market-multicast: server and dynamic configuration (`lib.rs`, `file/config.rs`, `file/watcher.rs`)

* **State.** `ipcs_map` (url to type and task handle), shared by the main
  thread at start-up and by the thread of the file watcher; an unbounded channel.
* **Operations.** `initiate` starts one receive task for each entry of
  `conf/ipc.json`; `watch` re-reads the file on each `Modify` event, computes
  the difference on sets of (type, url), aborts what was removed and starts what
  was added; the main thread sends the channel to the multicast group.
* **Hard.** The file is read later than the event it is read for, possibly
  half-written; it can change before the watcher exists; a url may be listed
  twice; a replaced `JoinHandle` does not stop its task; `abort` is asynchronous.
* **Correct when** after the last event the map agrees with the file, unchanged
  entries are not disturbed, no url is multicast twice, and a removed url falls
  silent.

### crypto-market-multicast: client (`lib.rs`, `main.rs`)

* **State.** One buffer of 1600 bytes, an unbounded channel to the program.
* **Operations.** Receive a datagram into the buffer, pass on a copy of what was
  filled; the program takes messages until the sender is gone.
* **Hard.** The buffer is never cleared; the task panics unseen.
* **Correct when** a message is its datagram, cut to the buffer, and what arrived
  is taken before the program ends.

### crypto-market-recorder (`main.rs`, `writers/mod.rs`)

* **State.** A ZeroMQ subscription and a `DataWriter` with a file for each day.
* **Operations.** Start the writer, subscribe, read and add until an error.
* **Hard.** Three nested tasks that pass on some errors and swallow others;
  messages are dropped at the high water mark.
  `writers/file_writer.rs` is not compiled (its `mod` line is a comment).
* **Correct when** the files are a beginning of what was heard, and a failure is
  not reported as success.

### crypto-market-integration (`main.rs`, `writers/mod.rs`, `misc_crawlers/`)

* **State.** A std channel between crawler and writer, another one to the
  conversion thread for "other" messages; a socket for each symbol.
* **Operations.** Crawl, convert, parse, publish.
* **Hard.** The writer is a detached task: its panic is noticed by nobody, and
  what is queued at the end is its affair; snapshot crawlers are not awaited; the
  last sender to go decides when the process ends.
* **Correct when** what is published of a symbol is in order and without gaps,
  each message is handled, and the process ends when its crawler does.

## 2. Modules

| Module | Models | Extends / used by |
| --- | --- | --- |
| `TopicService` | abstract: subscriptions, and deliveries to all subscribers | implemented by `PublisherServer` |
| `PublisherServer` | publisher server: threads, maps, mutexes | |
| `PublisherConnect` | publisher client, the server's read loop, the network between | |
| `ReplayHub` | replay sessions, channels and hub | |
| `ReplayHistory` | the history tasks of a session | |
| `ConfigFollower` | abstract: what is followed changes to what a file says | implemented by `MulticastServer`, `ReplayConfig` |
| `ReplayConfig` | replay configuration handler and feed tasks | |
| `Recorder` | recorder: nested tasks, exits, files | |
| `ReplayFiles` | the download of files a recorder writes; options | `Recorder` |
| `MulticastServer` | multicast server and its configuration handler | |
| `MulticastClient` | multicast client | |
| `IntegrationPipeline` | crawler, conversion thread, writer, runtime | |

For each module `M` that is run, `MCM` extends it and defines what TLC needs:
sets of contents, of networks, a symmetry. The theorems are in `MProofs`;
`ReplayFilesProofs` holds those of `Recorder` too, and `MulticastProofs` those of
the server and of the client (whose definitions are named for it: `ClientInit`,
`ClientNext`, ...).

How the modules compose: `MulticastServer` takes from ZeroMQ what
`IntegrationPipeline` publishes, as do `PublisherServer`, `ReplayConfig` and
`Recorder`; `ReplayConfig` feeds the data channel of `ReplayHub`; `ReplayHistory`
refines the "history messages" of `ReplayHub`, and reads, as `ReplayFiles` does,
what `Recorder` writes; `PublisherConnect` says how a client comes to be one of
the connections of `PublisherServer`; `MulticastClient` receives what
`MulticastServer` sends. Where two of them share state that both may change,
they are one module (`ReplayFiles` extends `Recorder`); elsewhere the interface
is a channel that drops, blocks or reorders as its library does.

Definitions whose comment begins with "Mutant:" are not part of the
specifications: each is one definition with a plausible bug put into it, used to
see that the property named in `PROJECT.json` notices it.

### PublisherServer

One step runs from one lock operation to the next. What a thread does in
between is invisible to the other three: `CLIENT_LIST` and `CLIENT_SUBSCRIBE` are
all they share. `pc[t]` is the location of thread `t`; `listLock`, `subLock` are
the holders of the mutexes and `listPoisoned`, `subPoisoned` their poison flags.
`Panic(t)` is unwinding: guards are dropped, the mutexes poisoned.

| Code | Actions |
| --- | --- |
| `server_connection`, read loop | `ConnPoll`, `ConnLockList`, `ConnNoClient`, `ConnSocketFault`, `ConnAccept`, `ConnReceive` |
| `handle_sub`, for the chunks of the readable streams | `ConnLockSub`, `ConnCommand`, `ConnCommandsDone` |
| `send_package` | `SendPackage`, in `ConnSend` and `DistPush` |
| `server_alive_check` | `AliveWake`, `AliveLockList`, `AliveLockSub`, `AliveRetain` |
| `server_send` | `SenderLockSub`, `SenderSpawn` |
| spawned task and `distribute` | `DistNext`, `DistLockSub`, `DistLockList`, `DistPush`, `DistDone` |
| `create_server`: joins, end of `main` | `MainExit`, `Down` |

A connection is reduced to what `is_closed()` and `is_established()` tell
apart: handshake, established, draining, closed. A command is a record or
"malformed"; a chunk of a stream is a sequence of commands.

`Contexts` has the answers to "has the thread of `server_send` a runtime
context?". In the program as committed it has none (`std::thread::spawn`), so
that `tokio::task::spawn` panics: `{FALSE}` is that program. `{TRUE}` is the
program with the call repaired (a `Handle` entered in the thread), which is the
only way to say anything of `distribute()`. The run `Publisher` takes both, the
run `PublisherSubKills` the committed program; the theorems hold for any set.

### ReplayHub

A step of a task runs from one `await` that can suspend it to the next. The
hub's loop is `HubAction` and `HubData`, taken when nothing is left to send;
the sessions the message is still to be sent to are `due`, and `to` is the one outbox the
hub waits for at the moment. A session is "sending" while it puts the actions
of a command into the action channel one by one, "replying" while it puts an
error into its own outbox, "leaving" until its `Unsubscribe(None)` has a place.
An outbox is a number: what is in it matters to nobody else. History tasks
(`HistorySend`) share the outbox.

| Code | Actions |
| --- | --- |
| `handle_socket.rs`: `handle_socket` | `Connect`, `Deliver`, `Disconnect`, `BinaryPanic`, `SessionEnd` |
| `json_handle` | `Command`, `CommandAll`, `CommandHistory`, `CommandRefused`, `SendAction`, `Reply` |
| `history_handle` | `HistorySend` |
| `lib.rs`: `msg_sub_handle`, `action_handle` | `HubAction`, `HubSend` |
| `action_handle_subscribe` / `_unsubscribe` | `Subscribe`, `Unsubscribe`, `UnsubscribeAll` |
| `data_hander` | `HubData`, `HubSend` |
| the closure given to the configuration handler | `FeedSend` |

Two peculiarities of the code are kept, and no property calls them correct: the
test that decides whether a known user may have a symbol is inverted
(lib.rs:131), so that of a subscribe with several arguments at most the first
is served; and an unsubscribe drops the whole entry of the symbol (lib.rs:152).

### MulticastServer

`types` is `ipcs_map`; `owned`, `loose` and `dying` tell the receive tasks apart
by who can still stop them: the map, nobody (their handle was replaced), or
they were aborted already. `HandleEvent` is one callback of the watcher thread:
read, diff, `cleanup`, `register`; nobody else touches the map at that time.
`Edit` writes the file at any moment, with any content of `Configs`, or
something that does not parse. `stale` is a history variable: the file was last
written between `initiate()` and the watcher, so that no event tells of it.

| Code | Actions and operators |
| --- | --- |
| `lib.rs`: `server` | `Initiate`, `Watch`, `Multicast` |
| `receive_data` | `Receive`, `StreamEnd`, `Aborted` |
| `config.rs`: `initiate`, `register`, `cleanup` | `Initiate`, `Register`, `Cleanup` |
| `diff`, `diff_ipc`, `watch`, `get_ipcs` | `Update`, `HandleEvent` |
| `watcher.rs` | `Watch`, `HandleEvent` (events are handled one by one) |

### TopicService and ConfigFollower

Both are the promise without the mechanism. `TopicService`: clients join and
leave a topic, and a delivery begins, reaches subscribers one by one and ends
when all that are still there were reached, or fails. `PublisherServer` implements
it with `Service` (subscribers are the entry of the topic in `CLIENT_SUBSCRIBE`,
those due are the ones `distribute()` has yet to push to), locks and panics
included. `ConfigFollower`: a file is written at any moment; what is followed
changes only when it is read, to what it says then; the gap between the first
read and the watcher is part of the promise, since the code has it. `Faithful`
and `Settles` are stated there once, for both handlers; `Settles` is checked of the
first, the refinement of both.

### PublisherConnect

A connection id is an attempt and how often it went through `Sign`, the keyed
hash by which the server derives one id from another. A token stands for the
address in it. quiche never resends, since nobody calls `on_timeout()`: each
flight is one packet. `edge` and `srvEdge` are what mio has yet to report: set
when a packet arrives, cleared by `poll`. `retries` and `blocked` are history.
`faults` says what the network may do (lose, duplicate, change an address); it is
chosen at the start among `Networks` and does not change.

| Code | Actions and operators |
| --- | --- |
| `client()`: until the loop, `poll`, `'read`, the rest of a turn | `ClientStart`, `ClientPoll`, `ClientRecv`, `ClientFlush` |
| `server_connection`: `poll`, end of `'read` | `ServerPoll`, `ServerDrained` |
| lookup, retry, accept, receive | `ServerTurn`: `Entries`, `ServerRetry`, `ServerAccept`, `ServerServe`, `ServerDrop` |
| `mint_token`, `validate_token` | `Retry`, `Valid` |
| network, NAT | `Deliver`, `Lose`, `Rebind` |

### ReplayConfig

`keys` are the keys of `all_sub_task`, `feeding` those whose task is at work:
a task that ended leaves its key behind, and is not started again. `dying` counts
aborted tasks that have yet to reach an `await`. `stale` is as in
`MulticastServer`.

| Code | Actions |
| --- | --- |
| `DynamicConfigHandler::new`, `watcher`, `handle_event` | `New`, `CreateWatcher`, `HandleEvent` |
| `on_config_update`, `cleanup`, `register` | `OnConfigUpdate` |
| the closure in `lib.rs` | `FeedSend`, `FeedEnd`, `Aborted` |

### ReplayHistory

A day is a number counted back from `nights`, the number of midnights so far;
a file is a pair of an argument and a date. `served` is history: the files each
task has opened, each with the date it had when `FileReader::new` reckoned it,
which is that of its records however long they take, and the days it has told
its client are missing. A file may be empty.

| Code | Actions |
| --- | --- |
| "history" in `json_handle` | `Command`, `Reply` |
| the loop of `handle_socket` | `Deliver`, `SessionEnd` |
| `history_handle` | `Open`, `NextArg`, `SendRecord`, `EndOfFile`, `SendMissing`, `Panic` |

### Recorder and ReplayFiles

Messages are numbers. `Recorder`: `pc` is where the innermost task is, "aborted"
and "over" are the ways it ends; `exit` is the status of the process.
`ReplayFiles`: `dl[r]` is a request: the day is reckoned in `Ask`, the file
opened in `OpenFile`, after an `await`, and read in `Piece`s of any length.

| Code | Actions |
| --- | --- |
| `create_write_file_thread` | `StartWriter`, `Subscribe`, `SocketPanics`, `Read`, `StreamEnds`, `Exit` |
| `DataWriter` (library) | `Store` |
| options, `ApplicationConfig::new`, `ServerConfig::new` | `StartServer` |
| `market_data_path`, `http_market_data` | `Ask`, `OpenFile`, `Piece`, `EndOfFile` |

### MulticastClient

A datagram is a sequence of cells, the buffer a function on `1..BufLen`, so that
what an earlier datagram left in it can be seen. `main`'s client branch cannot be
reached from the command line, since `-m` is declared without a value; the
module describes a program that calls `client()` the same way, or drops the
receiver (`ProgramLeaves`).

| Code | Actions |
| --- | --- |
| the task of `client()` | `RecvFrom`, `RecvFails`, `PassOn` |
| the loop of `main` | `Take`, `ProgramEnds` |

### IntegrationPipeline

A record is its number in the order of crawling, and `log` gives its symbol; a
message is the sequence of its records. `main` is "leaving" from the moment
`main()` returns or panics until the runtime has lost its last thread; during
that time a task that waits at an `await` is dropped, one that blocks its thread
is not.

| Code | Actions |
| --- | --- |
| `crawl()` | `Start`, `CrawlerEnds` |
| crawlers (libraries) | `Crawl` |
| `create_conversion_thread` | `Convert` |
| `create_writer_thread` | `WriterStarts`, `Receive`, `Parse`, `Publish`, `WriterEnds` |
| runtime | `DropWriter`, `Gone` |

## 3. Runs

| Run | Instance | Distinct states | Shows |
| --- | --- | --- | --- |
| `Publisher` | 2 clients, 2 topics, 2 commands in a chunk, socket errors, with and without a runtime context | 104,338 | subscribers are clients and are kept, poison freezes the maps, the topic service is implemented, under all interleavings and panics; whoever waits for a mutex, somebody can go on unless two threads wait for each other in the one known way; closed clients are collected and messages distributed unless deadlocked or poisoned; after a panic under a mutex the next command or datagram ends the process |
| `Connect` | 1 client, 2 addresses; a network without faults and one with loss, reordering, duplicates and address changes | 225,218 | one connection for an attempt, from an address that was sent a Retry; nobody sleeps over a packet; without faults neither end waits for what the other has no reason to send, and every client gets its subscription |
| `ReplayHubSafety` | 2 sessions, 2 symbols, capacity 1 everywhere | 1.7 million | the maps agree, ended sessions are forgotten, subscriptions change by requests only |
| `ReplayHubLive` | 2 sessions, 1 symbol, commands of 2 arguments | 106,730 | the hub comes back to its loop unless a session is deadlocked with it or with itself |
| `Multicast` | 2 urls, 2 types, 3 edits, a url may be listed twice | 208,975 | after the last event the map agrees with the file; unchanged entries are spared; a handle is lost only to a url listed twice; the follower is implemented and comes to rest; a removed url falls silent |
| `ReplayConfig` | 2 entries, channel of 2, 3 edits | 6,834 | unchanged entries are spared; the follower is implemented; removed entries fall silent |
| `History` | 2 tasks, lists of 2, days 0 and 1, 1 midnight | 1,031,734 | day by day and none twice, each command answered to its end, every history ends |
| `Files` | 4 messages, 2 days, high water mark 2, 1 request | 334,338 | the files are a beginning of what was heard; a download is one day's file; what was heard is on file unless the process is over |
| `MulticastClient` | 2 datagrams up to 3 cells, buffer of 2 | 759,755 | a message is its datagram, cut to the buffer; what arrived is taken |
| `Integration` | 2 symbols, 8 message types, 5 records, 2 in a message | 152,929 | publication in order and without gaps; no record is lost while the writer runs; messages are handled; the process ends with its crawler |

The type invariants of all modules are theorems (section 4), and are not
checked a second time by these runs; so are `LockInv`, `NoPoisonAtLookup`,
`SubscribersAsked`, `PushOnlyToSubscribers`, `DistributionReachesAll` and
`AgreesWithFile`: the content of the last three is repeated by the two
refinements.

Two runs end in a counterexample; each is a finding.

| Run | Violated | What happens |
| --- | --- | --- |
| `PublisherSubKills` | `CommandsAreSurvived` | the panic of `tokio::task::spawn` (server.rs:339) poisons `CLIENT_SUBSCRIBE`; the first `sub@` then kills `server_connection` at server.rs:514 |
| `HistoryRange` | `RangeIsServed` | `i += 1` leads away from `end`: "2-1" never gets to day 1 |

The properties of `History` take no side in this: with `i -= 1` in its place
(`day[t] - 1` in `EndOfFile`) `DaysAdjoin`, `CommandsAreAnswered` and
`RangeIsServed` all hold.

### What the models have in them that no property forbids

These are the code's ways to stand still or to lose something. The models
contain them as the code does; the properties say what holds next to them, and
name each as the only exception.

* `distribute()` takes `CLIENT_SUBSCRIBE`, then `CLIENT_LIST` (server.rs:379);
  `handle_sub` and `server_alive_check` the other way round (514, 300):
  `LockCycle`. `ClosedAreCollected` and `DistributionCompletes` except it, and
  `OnlyTheCycleDeadlocks` says that there is no other deadlock.
* The hub waits for a place in the outbox of a session that waits for a place in
  the action channel (`CircularWait`), or a session for a place in its own outbox
  (`SelfWait`). `HubComesBack` and `EndedAreForgotten` except them (`Stuck`);
  `HistoryEnds` has the second.
* `on_timeout()` is commented out in the server (server.rs:99): a draining
  connection is never closed, so it is never collected.
* A client that never reads fills its outbox and stops the hub (replay
  lib.rs:181): the fairness of `ReplayHubLive` assumes clients that read.
* An unsubscribe drops the whole entry of the symbol (replay lib.rs:152), with
  the subscriptions of everybody. `SubscriptionsChangeOnRequest` allows it, as an
  unsubscribe of that symbol.
* A user never gets a second symbol (lib.rs:131), and a subscribe that fails
  leaves its user in `user_list` (139). No property speaks of either.
* A session that ends by the panic at handle_socket.rs:58 is never forgotten:
  `GoneAreForgotten` speaks of the others.
* The client polls without a timeout (client.rs:89): with one lost packet it waits
  for ever. `EveryoneSubscribes` is about the network without faults.
* A url listed twice in `ipc.json` has a task that nobody can abort
  (config.rs:84): the exception of `HandlesAreKept` and `RemovedAreSilent`.
* An edit between the reading and the watching of a file goes unnoticed until the
  next one (`stale`).
* The recorder exits with status 0 when its writer did not start or it could not
  subscribe (`Exit`).
* The port of the replay server is looked up as `POST`, and `--port` takes no value
  (`StartServer`).
* For tickers and other types without an arm the writer of the integration
  pipeline panics at the first message (`Start`, `Receive`).

### Bounds, and why they are enough

* **Clients, sessions: 2.** The properties relate one client to one other: who
  is subscribed while the other fails, unsubscribes or is collected. The mutexes
  and channels see only who holds or fills them. `Connect` has one client: two
  share nothing but the server's sockets, and with duplicates their state space
  is out of reach; its theorems are for any number.
* **Topics: 2**, one the server's and one unknown, the two kinds `handle_sub` can
  tell apart. **Symbols: 2**, for what one subscription does to another; one is
  enough for the hub to be blocked.
* **Capacities: 1** instead of 1024 and 100. What matters is that every channel
  can be full, and that it can be not full; the proofs are for all capacities.
  `ReplayConfig` has 2, so that entries stand one behind the other.
* **MaxCommands, MaxArgs: 1 or 2**: a command followed by another in the same
  chunk or list; 1 where the second would only repeat the step.
* **MaxHistory**: 1 where history messages compete for the outbox; 0 in
  `ReplayHubLive`, where they would add only another full outbox.
* **MaxEdits 3**: a change, its reversal while the event is pending, and one
  more; `SmallConfigs` has the empty file, single entries, two entries and a url
  listed twice. **MaxQueue 1**: the channel is a pipeline without feedback.
* **Addrs 2**: the address validated and another one. **Networks**: the best and the
  worst. **Ids**: an attempt's own id, its hash, and the hash of that, which
  must never be a key.
* **MaxDay 1** (2 in `HistoryRange`), **MaxNights 1**: a day has a neighbour and
  both change their names once while a task is between them. **MaxLen**: the
  records of a file.
* **MaxRecords, MaxRecs**: messages of one and of two records, enough for one to
  be parsed while another is queued and a third is converted. The message types
  are those that differ in `Start`, `Receive` or `Parse`.
* **MaxMsgs, MaxDays, HighWater**: a file gets a second record after it was
  opened; the socket overflows while the task is behind.
* **BufLen < MaxLen**: there are datagrams that are cut, and shorter ones after
  longer ones. At most `2 * MaxSends` datagrams arrive, each of them twice.
* Symmetry is used in `ReplayHubSafety` only, which has no liveness property.

`CHECK_DEADLOCK FALSE` stands in every run, since each of these systems may
stop: the deadlock of the publisher's mutexes, the circular waits of the replay hub,
a process that has ended, a client that waits in `poll`, a history that is over,
a file nobody edits any more. That nothing else stops them is what the liveness
properties say.

### Fairness, and why the code justifies it

* `PublisherServer`: strong fairness for each thread. The scheduler runs all of
  them, and a thread that waits for a mutex that is free again and again obtains
  it (the futex mutex of std is not fair, but a barging thread has to sleep or
  to wait for a packet between two turns). No fairness for `ConnPoll` and
  `DistNext`: nobody promises packets or messages. A datagram brings finitely many
  chunks: `ConnCommandsDone` comes in the end. Weak fairness for `MainExit`.
* `ReplayHub`: strong fairness for each session, for the hub, and for
  its actions, since tokio serves the senders waiting for a channel in order and
  `select!` picks a ready branch at random. Clients are assumed to read what
  they are sent. None for what clients send, for feeds and for history tasks.
* `MulticastServer`: weak fairness of the main thread, the watcher thread and of
  the end of an aborted task, which assumes that a receive task reaches an
  `await` that is not ready. None for streams, edits, or errors.
* `PublisherConnect`: weak fairness for each of the two programs and for the
  delivery of packets. None for the network's faults.
* `ReplayConfig`: as `MulticastServer`, and the hub takes its messages.
* `ReplayHistory`: weak fairness for each task, for the reply and for the
  delivery, which assumes a client that reads: the messages of a task are finitely
  many, so that those of one cannot keep another from a place in the outbox for
  ever. The client need not leave. A session that waits for a place in its own
  outbox is the one exception in `HistoryEnds`.
* `Recorder`, in `FilesFairSpec`: the process and its `DataWriter` run; nothing is promised of
  messages, errors or days.
* `MulticastClient`: the task passes on what it has, the program takes what
  there is. None for the network.
* `IntegrationPipeline`: the threads of the process run. Nothing is assumed of the
  exchange; `CrawlerEndsProcess` is for crawlers that end.

## 4. Proofs

TLAPS proves the following for all values of the constants that satisfy the
named assumption of the module (`ConstantsAssumption`, `HubAssumption`,
`IntegrationAssumption`, ...: the special values differ from the ordinary ones,
and the bounds are numbers). Each follows from one inductive invariant `IInv`: it holds
initially, every action preserves it, and it implies the property. `PROJECT.json`
gives with each theorem the property it states, where a run checks that too.

**PublisherServerProofs**: `TypeCorrect`, `LocksCorrect`, `SubscribersListed`,
`LookupsSound`, `DeadlocksAreTheCycle`, `PushedAreSubscribers`, `SubscribersAreReached`,
`PoisonFreezes`, `SubscriptionsAreKept`. No safety property of this module is
inductive alone. `IInv` adds to them that `server_connection` serves a client of
the map (`ServedIsListed`: without it a subscribe could add a collected client);
that no topic exists before it is registered (`RegisteredOnce`: without it the
empty set stored by `server_send` could erase a subscription); who may have
poisoned `CLIENT_SUBSCRIBE` (`SubPoisonedBy`); how far `distribute()` has come
(`PushProgress`); and that a poisoned mutex is free (`PoisonedIsFree`).
All of them rest on `LockInv`, which turns "this thread is here" into "no other
thread is there". For `OnlyTheCycleDeadlocks` it says in addition who a mutex is
held by: a thread that waits has the holder ahead of it, and the holder is at a
location where it can go on, or waits for the other mutex; of the pairs of
locations where that can be, only `LockCycle` has each thread wait for the other.

**ReplayHubProofs**: `TypeCorrect`, `MapsAgree`, `ChangesAreRequested`,
`EndedSessionsForgotten`. The last needs most: `LastIsLeave` says that until the
hub has handled the `Unsubscribe(None)` of an ended session nothing of that
session is behind it in the channel, and that afterwards nothing is left at all;
it needs `TodoIsOwn`, since another session could otherwise speak for the one
that ended. The third needs of `IInv` the types only: nothing but an action of
the channel touches a subscription.

**MulticastProofs**, of the server: `TypeCorrect`, `FileIsFollowed`,
`UnchangedAreSpared`, `HandlesAreNotLost`. `Tracked` extends `FollowsFile` to the
time before the watcher exists. The last is about one step: `RegisterOnce`
says that `Register` keeps the handle of a url that is registered once, and
`UpdateOnce` that `Cleanup` has made room for it.

**ReplayConfigProofs**: `TypeCorrect`, `FileIsFollowed`, `UnchangedAreSpared`,
along the same `Tracked`.

**Refinements.** `ServiceImplemented` (`PublisherServer` implements
`TopicService`) and `FollowerImplemented` (twice: `MulticastServer` and
`ReplayConfig` implement `ConfigFollower`) show that initial states map to
initial states and each step to a step or a stutter, given `IInv`. In the
first, most steps stutter; what is needed of `IInv` is that `distribute()`
still holds `CLIENT_SUBSCRIBE` while it pushes (nobody joins or leaves between
two pushes) and `PushProgress`, which ties its loop to those still due.

**PublisherConnectProofs**: `TypeCorrect`, `AttemptsAreNotDoubled`,
`AddressesAreValidated`, `ServerIsNotAhead`, `NoLateRetry`, `NothingIsStranded`,
`SomethingIsUnderWay`.
`IInv` speaks of every packet wherever it is, in the network or in a socket
(`PacketOK`: its id is the one it can have at its stage, its token was minted
for this attempt), of tokens (`TokensOK`) and of readiness (`BoxesOK`). That a
network repeats packets costs nothing: the invariant is of each copy. The last
theorem is the part of `EveryoneSubscribes` that needs no fairness. Each client
is at one of four stages (`Asking`, `Returning`, `LetIn`, `Requesting`) and the
packet that ends the stage exists; `StagesOK` says that none is there too early
(a handshake before the entry, a token before the Retry), `AddressesKept` that
without rebinding every token is valid. A step that consumes such a packet is
the step to the next stage; the server drops none of them.

**ReplayHistoryProofs**: `TypeCorrect`, `DaysAreAdjoining`, `CommandsAnswered`
(of `ArgumentsEnd` and `RefusalIsFinal`). `Local(t)` says how what was served
relates to where the task is (`Standing`, `Following`): of the argument it is at
it has had files only, of days before the one it is at, and the last of them is
the neighbour of that day.

**MulticastProofs**, of the client: `ClientTypeCorrect`, `BufferIsFresh`. `Held` says that the
filled part of the buffer is the datagram that arrived last.

**ReplayFilesProofs**: `RecorderTypeCorrect`, `FilesTypeCorrect`,
`DownloadsAreOneDay`, `RecordingIsABeginning`, `RecordingUndisturbed`. `Copied`
says that what a client has got is the file up to its position, which stays true
since files only grow. The files of a recorder are compared with what its socket
kept as sets of numbers (`Recorded`, `Taken`) and an order (`Climbs`), which needs
no induction over the days. `Course` makes that inductive: while the task reads,
all that was heard is taken (on file, or in the `DataWriter`'s channel) or waits
in the socket's queue, in order and later than what was taken; and no file is of
a day to come. `RecordingUndisturbed`
is the same theorem of `FilesSpec`: each step of a download is a stutter of
the recorder.

**IntegrationPipelineProofs**: `TypeCorrect`, `ListenersHaveTheBeginning`,
`OnTheWay`. The numbers of the records that are on their way are consecutive:
up to some `a` they are published, passed over or in the writer's hands, from
there to some `b` they are in the channel to the writer, and the rest in the
channel to the conversion thread (`InLineAt`). A channel is described without
concatenating its messages: `Line` gives the places at which a block of numbers
is cut, and the lemmas `LineAppend`, `LineTail` and `LineEmpty` say what a send, a
receive and an empty channel do to it. `Parse` may leave records out;
`ThinnedProperties` says that what is left is in order. Once the writer has
stopped nothing of this is claimed, since nothing more is published.

Only model-checked: all liveness properties, since TLAPS does not handle
fairness and ENABLED here, and the two counterexamples. Every safety invariant
and every action property of a passing run, and each refinement, is a theorem.

## 5. What is assumed of the libraries

* `tokio::task::spawn` panics on a thread without a runtime context; dropping
  the runtime waits for a task that is not suspended.
* quiche: `is_closed()` becomes true only if the first packet of a connection
  fails or in `on_timeout()`, which the server never calls; `is_established()`
  stays true after a close, so a draining client is still visited by
  `distribute()`, but nothing except its close goes out: `DistPush` does not
  count it among those it pushes to; streams may be readable before the handshake
  is over (early data is enabled).
  A consequence: a client that becomes closed was never subscribed, and the
  cleaning of `CLIENT_SUBSCRIBE` in `server_alive_check` never has work to do.
* std mutexes: unwinding drops the guards and poisons the mutexes.
* tokio channels: a bounded send waits for a place, fails when the receiver is
  gone; dropping a `JoinHandle` detaches the task; `abort` takes effect at the
  next `await`.
* The end of `main` ends all tasks of the process; the runtime waits for threads
  that block, in `spawn_blocking` or in a task that does not reach an `await`.
* The runtime has at least two worker threads: the writer of the integration
  pipeline, the multicast client and `client()` block theirs.
* `clap_app!`: an option without `+takes_value` is a flag, has no value, and
  whoever gives it one is refused.
* mio reports readiness when a packet arrives, not while there is something to
  read.
* `DataWriter` keeps one file for each day, made for its first record and only
  appended to, in the directory `./record` that is the replay server's default;
  `FileReader` fails if there is no file.
* A ZeroMQ subscriber is given messages in order, and none while it is at its
  high water mark.

## 6. What is not modelled, and why

* **Publisher.** Version negotiation is a turn of the read loop that changes no
  client (`ConnNoClient`). `handle_writable` returns at its first test:
  nothing enters `partial_responses`. The flow control of streams, and where a
  stream is cut into chunks, are quiche's; commands that are cut are among the
  malformed ones. Of the client, the close of a connection and the passing on of
  what arrives are left out.
* **The handshake.** The server's tokens are not authenticated (server.rs:430-467);
  in `PublisherConnect` clients present what the server minted. The collection of
  an accepted connection is `PublisherServer`'s.
* **The hub's end.** The hub of `ReplayHub` never ends, so that the `expect` at
  handle_socket.rs:65-68 and the `?` at 87, 93 and 102, which fail only when it is
  gone, do not fail in it.
* **Text.** Symbols, topics and file names are values; of the file name of a
  download only the day is modelled. That `market_data_path` ignores the period
  (its test is inverted, market_data_file.rs:55-58), and what it does with a
  negative number of days, is visible in one call and needs no model.
* **Libraries.** ZeroMQ receive results are a message or an error; `None` of the
  replay feeds is left out. The crawlers are whatever calls the channel; what
  `misc_crawlers` subscribe to is text for `crypto-ws-client`.
* A configuration file that is replaced by renaming (which loses the inotify
  watch) is left out.
* Logging, and the settings that concern it, are left out.
* `writers/file_writer.rs` is not compiled.

## 7. Plan

The most important behaviour came first: where several threads share state.

| # | Module | Content | Status |
| --- | --- | --- | --- |
| 1 | `PublisherServer` | threads, maps, locks, poison | checked, proved |
| 2 | `ReplayHub` | sessions, hub, channels | checked, proved |
| 3 | `MulticastServer` | configuration handler, receive tasks | checked, proved |
| 4 | `PublisherConnect` | retry, tokens, duplicates, edge-triggered polls, the client | checked, proved |
| 5 | `ConfigFollower`, `TopicService` | abstract specifications, implemented by 3 and 6, and by 1 | checked, proved |
| 6 | `ReplayConfig` | the replay handler and its feeds | checked, proved |
| 7 | `ReplayHistory` | the days of a history | checked, proved |
| 8 | `Recorder`, `ReplayFiles` | nested tasks; downloads of files being written | checked, proved |
| 9 | `MulticastClient` | the shared buffer, the ends of the task and the program | checked, proved |
| 10 | `IntegrationPipeline` | crawlers, channels, writer, exits | checked, proved |

What is left: the close of a client's connection, together with the
`is_closed()` and `on_timeout()` of the server; and `ReplayHub` with the history
tasks of `ReplayHistory` in place of its number of history messages.
