---------------------------- MODULE MulticastClient ----------------------------
(***************************************************************************)
(* The client of crypto-market-multicast: a task that receives datagrams   *)
(* into one buffer and passes them on, over a channel without a bound, to  *)
(* the program that called client().                                       *)
(*                                                                         *)
(* The network and the servers of the group are not in this module's code: *)
(* datagrams may be lost, come twice and overtake each other.  What a      *)
(* server sends is what MulticastServer takes from its channel.            *)
(***************************************************************************)
EXTENDS Integers, Sequences

CONSTANTS
  Cells,           \* contents of a datagram, cell by cell
  BufLen,          \* cells of the buffer (1600 bytes)
  MaxLen,          \* bound: cells of a datagram
  MaxSends         \* bound: datagrams

Zero == 0          \* [0u8; 1600]

ASSUME ClientAssumption ==
  /\ BufLen \in Nat \ {0}
  /\ {MaxLen, MaxSends} \subseteq Nat
  /\ Cells \subseteq Nat \ {Zero}

VARIABLES
  sent,            \* the datagrams sent to the group
  net,             \* indices of those that are on their way
  buffer,          \* the task's buffer, which is not cleared
  size,            \* bytes of it the last recv_from has filled
  reader,          \* "receiving", "sending", "stopped" or "panicked"
  chan,            \* the channel to the program
  got,             \* what the program has taken out of it
  arrived,         \* history: indices of the datagrams received, in order
  program          \* "running", "over" when it has seen the end, or "left"

clientVars == <<sent, net, buffer, size, reader, chan, got, arrived, program>>

ClientInit ==
  /\ sent = <<>>
  /\ net = {}
  /\ buffer = [i \in 1..BufLen |-> Zero]
  /\ size = 0
  /\ reader = "receiving"
  /\ chan = <<>>
  /\ got = <<>>
  /\ arrived = <<>>
  /\ program = "running"

------------------------------------------------------------------------------
(* The group *)

SendTo ==
  /\ Len(sent) < MaxSends
  /\ \E n \in 0..MaxLen : \E data \in [1..n -> Cells] : sent' = Append(sent, data)
  /\ net' = net \cup {Len(sent) + 1}
  /\ UNCHANGED <<buffer, size, reader, chan, got, arrived, program>>

Lose ==
  /\ \E i \in net : net' = net \ {i}
  /\ UNCHANGED <<sent, buffer, size, reader, chan, got, arrived, program>>

------------------------------------------------------------------------------
(* client: the task *)

(* What recv_from says it has put into the buffer.                         *)
Filled(data) == IF Len(data) < BufLen THEN Len(data) ELSE BufLen

(* socket.recv_from(&mut buffer): a datagram that is longer than the buffer is
   cut; a copy of it may still be under way.                               *)
RecvFrom ==
  /\ reader = "receiving"
  /\ \E i \in net :
       /\ net' \in {net, net \ {i}}
       /\ arrived' = Append(arrived, i)
       /\ size' = Filled(sent[i])
       /\ buffer' = [c \in 1..BufLen |-> IF c <= Len(sent[i]) THEN sent[i][c] ELSE buffer[c]]
  /\ Len(arrived) < 2 * MaxSends
  /\ reader' = "sending"
  /\ UNCHANGED <<sent, chan, got, program>>

(* .expect("cannot recv")                                                  *)
RecvFails ==
  /\ reader = "receiving"
  /\ reader' = "panicked"
  /\ UNCHANGED <<sent, net, buffer, size, chan, got, arrived, program>>

(* Mutant: the whole buffer is passed on.                                  *)
WholeBuffer == buffer

(* buffer[..size].to_vec()                                                 *)
Message == [c \in 1..size |-> buffer[c]]

(* tx.send; it fails when the program has dropped its end.                 *)
PassOn ==
  /\ reader = "sending"
  /\ IF program = "running"
     THEN chan' = Append(chan, Message) /\ reader' = "receiving"
     ELSE reader' = "stopped" /\ UNCHANGED chan
  /\ UNCHANGED <<sent, net, buffer, size, got, arrived, program>>

------------------------------------------------------------------------------
(* main: while let Ok(data) = rx.recv().  Only a program that calls main's
   client branch in another way gets here: the option -m is declared without
   a value, so that main's mode is always "server".                        *)

Take ==
  /\ program = "running"
  /\ chan # <<>>
  /\ chan' = Tail(chan)
  /\ got' = Append(got, Head(chan))
  /\ UNCHANGED <<sent, net, buffer, size, reader, arrived, program>>

(* Mutant: the program is over when the task is, whatever is in the channel. *)
ProgramEndsAtOnce ==
  /\ program = "running"
  /\ reader \in {"stopped", "panicked"}
  /\ program' = "over"
  /\ UNCHANGED <<sent, net, buffer, size, reader, chan, got, arrived>>

(* The sender is gone and the channel empty.                               *)
ProgramEnds ==
  /\ program = "running"
  /\ chan = <<>>
  /\ reader \in {"stopped", "panicked"}
  /\ program' = "over"
  /\ UNCHANGED <<sent, net, buffer, size, reader, chan, got, arrived>>

(* Another program than main may drop its end when it likes.               *)
ProgramLeaves ==
  /\ program = "running"
  /\ program' = "left"
  /\ chan' = <<>>
  /\ UNCHANGED <<sent, net, buffer, size, reader, got, arrived>>

------------------------------------------------------------------------------
ClientNext ==
  \/ SendTo \/ Lose
  \/ RecvFrom \/ RecvFails \/ PassOn
  \/ Take \/ ProgramEnds \/ ProgramLeaves

ClientSpec == ClientInit /\ [][ClientNext]_clientVars

(* The task and the program run; the network need not deliver.             *)
ClientFairSpec == ClientSpec /\ WF_clientVars(PassOn) /\ WF_clientVars(Take) /\ WF_clientVars(ProgramEnds)

------------------------------------------------------------------------------
Data == Cells \cup {Zero}

ClientTypeOK ==
  /\ sent \in Seq(Seq(Cells)) /\ net \subseteq DOMAIN sent
  /\ buffer \in [1..BufLen -> Data]
  /\ size \in 0..BufLen
  /\ reader \in {"receiving", "sending", "stopped", "panicked"}
  /\ chan \in Seq(Seq(Data))
  /\ got \in Seq(Seq(Data))
  /\ arrived \in Seq(Nat) /\ \A k \in DOMAIN arrived : arrived[k] \in DOMAIN sent
  /\ program \in {"running", "over", "left"}

(* What is left of a datagram in the buffer.                               *)
Cut(data) == [c \in 1..(IF Len(data) < BufLen THEN Len(data) ELSE BufLen) |-> data[c]]

(* Arrivals that have been passed on.                                      *)
Passed == IF reader \in {"sending", "stopped"} THEN Len(arrived) - 1 ELSE Len(arrived)

(* The program is given the datagrams that arrived, one message for each, in
   their order: the first BufLen bytes of each and nothing of an earlier one,
   though all went through the same buffer.                                *)
MessagesAreDatagrams ==
  LET all == got \o chan IN
  /\ Len(all) <= Passed
  /\ program # "left" => Len(all) = Passed
  /\ \A k \in 1..Len(all) : all[k] = Cut(sent[arrived[k]])

(* What the task is about to pass on is the last arrival.                  *)
Held ==
  reader \in {"sending", "stopped"} =>
    arrived # <<>> /\ Message = Cut(sent[arrived[Len(arrived)]])

(* The strengthening that is inductive.                                    *)
ClientIInv == ClientTypeOK /\ Held /\ MessagesAreDatagrams

(* What has arrived comes to the program, unless it leaves; that the task
   has panicked meanwhile is no hindrance.                                 *)
ArrivedIsTaken ==
  \A n \in 1..(2 * MaxSends) :
    Len(arrived) >= n ~> (Len(got) >= n \/ program = "left")

==============================================================================
