------------------------------ MODULE ReplayFiles ------------------------------
(***************************************************************************)
(* The "/file" route of crypto-market-replay (http_market_data), which     *)
(* serves the files a Recorder is writing: a request names a market and a  *)
(* number of days, its file is opened and then streamed, piece by piece.   *)
(* Before that the program reads its options.                              *)
(*                                                                         *)
(* There is one market; a request for another one finds no file.           *)
(***************************************************************************)
EXTENDS Recorder

CONSTANTS
  Requests         \* requests at the HTTP server

VARIABLES
  options,         \* the command line
  server,          \* "off", "up" or "refused" by the parser of the options
  config,          \* ApplicationConfig: are the port and the directory the
                   \* default ones?
  dl               \* of each request: where it stands, the day its file is of,
                   \* its position, what the client has got, and how long the
                   \* file was when it was opened

filesVars == <<recVars, options, server, config, dl>>

NoDownload == [at |-> "none", day |-> 0, pos |-> 0, got |-> <<>>, opened |-> 0]

(* main.rs:16-25: the options, by their names in the program, each absent,
   given alone, or with a value.                                           *)
CommandLines == [{"HOST", "PORT", "DATA", "CNOFIG"} -> {"absent", "bare", "valued"}]

FilesInit ==
  /\ RecInit
  /\ options \in CommandLines
  /\ server = "off"
  /\ config = [port |-> "default", dir |-> "default"]
  /\ dl = [r \in Requests |-> NoDownload]

------------------------------------------------------------------------------
(* main, ApplicationConfig::new and ServerConfig::new *)

(* None of the options is declared to take a value: clap knows them as flags
   and ends the program at a value it has no place for.                    *)
ClapRefuses == \E o \in DOMAIN options : options[o] = "valued"

(* matches.value_of(name).unwrap_or(default): a flag has no value, and there
   is no option "POST".                                                    *)
ValueOf(name) ==
  IF name \in DOMAIN options /\ options[name] = "valued" THEN "given" ELSE "default"

(* The port is looked up as "POST".                                        *)
StartServer ==
  /\ server = "off"
  /\ IF ClapRefuses
     THEN server' = "refused" /\ UNCHANGED config
     ELSE /\ server' = "up"
          /\ config' = [port |-> ValueOf("POST"), dir |-> ValueOf("DATA")]
  /\ UNCHANGED <<recVars, options, dl>>

------------------------------------------------------------------------------
(* http_market_data *)

(* market_data_path: the day is reckoned from now.  An elapse that chrono
   cannot subtract panics, and that request alone gets no answer.          *)
Ask(r) ==
  /\ server = "up"
  /\ dl[r].at = "none"
  /\ \/ dl' = [dl EXCEPT ![r].at = "panicked"]
     \/ \E elapse \in 0..MaxDays, known \in BOOLEAN :
          dl' = [dl EXCEPT ![r] = [@ EXCEPT !.at = IF known THEN "opening" ELSE "notFound",
                                            !.day = today - elapse]]
  /\ UNCHANGED <<recVars, options, server, config>>

(* File::open: the recorder makes a day's file for its first record, in the
   directory that is the default of both programs.                         *)
CanOpen(d) == config.dir = "default" /\ d \in 0..MaxDays /\ file[d] # <<>>

(* By the time the file is opened the recorder has gone on, and the day may
   be over.  Without a file: 404.                                          *)
OpenFile(r) ==
  /\ dl[r].at = "opening"
  /\ dl' = [dl EXCEPT ![r] =
              IF CanOpen(dl[r].day)
              THEN [@ EXCEPT !.at = "streaming", !.opened = Len(file[dl[r].day])]
              ELSE [@ EXCEPT !.at = "notFound"]]
  /\ UNCHANGED <<recVars, options, server, config>>

(* Mutant: the path is made anew for each piece.                           *)
SourceToday(r) == file[today]

(* The file that was opened, as it is by now.                              *)
Source(r) == file[dl[r].day]

(* ReaderStream: the next piece.                                           *)
Piece(r) ==
  /\ dl[r].at = "streaming"
  /\ \E n \in (dl[r].pos + 1)..Len(Source(r)) :
       dl' = [dl EXCEPT ![r].pos = n,
                        ![r].got = @ \o SubSeq(Source(r), dl[r].pos + 1, n)]
  /\ UNCHANGED <<recVars, options, server, config>>

(* Nothing more to read, for now: the stream ends.                         *)
EndOfFile(r) ==
  /\ dl[r].at = "streaming"
  /\ dl[r].pos >= Len(Source(r))
  /\ dl' = [dl EXCEPT ![r].at = "done"]
  /\ UNCHANGED <<recVars, options, server, config>>

------------------------------------------------------------------------------
FilesNext ==
  \/ RecNext /\ UNCHANGED <<options, server, config, dl>>
  \/ StartServer
  \/ \E r \in Requests : Ask(r) \/ OpenFile(r) \/ Piece(r) \/ EndOfFile(r)

FilesSpec == FilesInit /\ [][FilesNext]_filesVars

(* The recorder goes on; nothing is assumed of the server and its clients.  *)
FilesFairSpec == FilesSpec /\ RecFair

------------------------------------------------------------------------------
(* The types; only a day of which there may be a file is streamed.         *)
FilesTypeOK ==
  /\ RecTypeOK
  /\ options \in CommandLines
  /\ server \in {"off", "up", "refused"}
  /\ config \in [port : {"default", "given"}, dir : {"default", "given"}]
  /\ dl \in [Requests ->
              [at : {"none", "notFound", "panicked", "opening", "streaming", "done"},
               day : (-MaxDays)..MaxDays, pos : 0..MaxMsgs,
               got : Seq(Messages), opened : 0..MaxMsgs]]
  /\ \A r \in Requests : dl[r].at \in {"streaming", "done"} => dl[r].day \in 0..MaxDays

(* What a client has got, recorder, midnight and all, is the beginning of one
   day's file; when the stream is done, no less of it than there was when the
   file was opened.                                                        *)
DownloadIsOneDay ==
  \A r \in Requests :
    dl[r].at \in {"streaming", "done"} =>
      /\ IsPrefix(dl[r].got, file[dl[r].day])
      /\ dl[r].at = "done" => Len(dl[r].got) >= dl[r].opened

(* The strengthening that is inductive: no file has more records than were
   published, and what a client has got is its file up to the position.    *)
Sizes == \A d \in 0..MaxDays : Len(file[d]) + Len(queue) + Len(inbox) <= published

Copied(r) ==
  IF dl[r].at \in {"streaming", "done"}
  THEN LET f == file[dl[r].day] IN
       /\ dl[r].pos <= Len(f)
       /\ dl[r].got = SubSeq(f, 1, dl[r].pos)
       /\ dl[r].opened <= Len(f)
       /\ dl[r].at = "done" => dl[r].opened <= dl[r].pos
  ELSE dl[r].pos = 0 /\ dl[r].got = <<>>

FilesIInv == FilesTypeOK /\ Sizes /\ \A r \in Requests : Copied(r)

==============================================================================
