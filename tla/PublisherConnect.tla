---------------------------- MODULE PublisherConnect ----------------------------
(***************************************************************************)
(* How a client of crypto-market-publisher (client.rs) gets its            *)
(* subscription: the client's event loop, the read loop of the server      *)
(* (server_connection in server.rs) with its stateless retry, and the      *)
(* network between them, which may lose, reorder and duplicate packets.    *)
(* PublisherServer shows what the server does with a client it has let in. *)
(*                                                                         *)
(*   client                          server                                *)
(*     Initial, own random dcid  ->                                        *)
(*                               <-  Retry, scid = Sign(dcid), a token     *)
(*     Initial, the scid, token  ->  accept: the dcid is a key of the list *)
(*                               <-  handshake                             *)
(*     the rest, "sub@topic"     ->  established, subscribed               *)
(*                               <-  acknowledgement                       *)
(*                                                                         *)
(* quiche sends what is lost again when on_timeout() is called, and no end *)
(* calls it: each flight goes out once and counts as one packet.  Both     *)
(* ends wait with mio, which reports a socket readable at the arrival of a *)
(* packet and not as long as there is something to read.                   *)
(***************************************************************************)
EXTENDS Naturals, FiniteSets

CONSTANTS
  Clients,
  Addrs,           \* IP addresses
  NoToken,         \* no address: the token of the first Initial
  Networks         \* the sets of faults a network may have

(* "loss": a packet may be lost, by the network or in a send_to that would
   block; "duplication": it may arrive twice; "rebinding": the address a
   client is seen at may change.                                           *)
Faults == {"loss", "duplication", "rebinding"}

ASSUME ConnectAssumption ==
  /\ NoToken \notin Addrs
  /\ Networks \in SUBSET SUBSET Faults

VARIABLES
  faults,          \* what this network does, from the start
  addr,            \* where a client's packets come from
  loop,            \* where a client stands: "new", in poll() or in 'read
  conn,            \* its connection: "initial", "retried" or "established"
  token,           \* the token it was given; it stands for the address in it
  unsent,          \* has its connection a packet to send?
  reqSent,         \* req_sent
  inbox,           \* packets in its socket
  edge,            \* readiness its poll() has yet to report
  net,             \* packets under way
  srvLoop,         \* where server_connection stands: in poll() or in 'read
  srvBox,          \* packets in its socket
  srvEdge,         \* readiness its poll() has yet to report
  list,            \* CLIENT_LIST: the state of a connection, "absent" if no key
  peer,            \* the address a connection was accepted from
  subscribed,      \* keys of the connections that have subscribed
  blocked,         \* history: has a stateless answer met a full socket?
  retries          \* history: the addresses each client's Retry was sent to

client == <<addr, loop, conn, token, unsent, reqSent>>
boxes  == <<inbox, edge, srvBox, srvEdge>>
server == <<srvLoop, list, peer, subscribed, blocked, retries>>
parts  == <<client, boxes, net, server>>
vars   == <<faults, parts>>

(* A connection id: chosen by a client, or derived from another one by a
   keyed hash.                                                             *)
Ids == Clients \X {"own", "signed", "twice"}

Own(c)  == <<c, "own">>
Sign(d) == <<d[1], IF d[2] = "own" THEN "signed" ELSE "twice">>

ToServer ==
  [kind : {"initial"}, dcid : Ids, token : Addrs \cup {NoToken}, from : Addrs]
    \cup [kind : {"request"}, dcid : Ids]
ToClient ==
  [kind : {"retry"}, to : Clients, token : Addrs]
    \cup [kind : {"handshake", "ack"}, to : Clients]

Initial(d, t, a) == [kind |-> "initial", dcid |-> d, token |-> t, from |-> a]
Request(d)       == [kind |-> "request", dcid |-> d]
Retry(c, a)      == [kind |-> "retry", to |-> c, token |-> a]
Answer(k, c)     == [kind |-> k, to |-> c]

Init ==
  /\ faults \in Networks
  /\ addr \in [Clients -> Addrs]
  /\ loop = [c \in Clients |-> "new"]
  /\ conn = [c \in Clients |-> "initial"]
  /\ token = [c \in Clients |-> NoToken]
  /\ unsent = [c \in Clients |-> FALSE]
  /\ reqSent = [c \in Clients |-> FALSE]
  /\ inbox = [c \in Clients |-> {}]
  /\ edge = [c \in Clients |-> FALSE]
  /\ net = {}
  /\ srvLoop = "poll"
  /\ srvBox = {}
  /\ srvEdge = FALSE
  /\ list = [d \in Ids |-> "absent"]
  /\ peer = [d \in Ids |-> NoToken]
  /\ subscribed = {}
  /\ blocked = FALSE
  /\ retries = [c \in Clients |-> {}]

(* conn.send() and socket.send_to().  A packet that would block has left the
   connection and is not sent again.                                       *)
Send(p) == net' = net \cup {p} \/ ("loss" \in faults /\ UNCHANGED net)

------------------------------------------------------------------------------
(* client() *)

(* The first packet is sent until it is gone.                              *)
ClientStart(c) ==
  /\ loop[c] = "new"
  /\ net' = net \cup {Initial(Own(c), NoToken, addr[c])}
  /\ loop' = [loop EXCEPT ![c] = "poll"]
  /\ UNCHANGED <<addr, conn, token, unsent, reqSent, boxes, server>>

(* poll(None): the time conn.timeout() gives is not waited for, so that there
   is always an event and on_timeout() is never called.                    *)
ClientPoll(c) ==
  /\ loop[c] = "poll"
  /\ edge[c]
  /\ edge' = [edge EXCEPT ![c] = FALSE]
  /\ loop' = [loop EXCEPT ![c] = "read"]
  /\ UNCHANGED <<addr, conn, token, unsent, reqSent, inbox, srvBox, srvEdge, net, server>>

(* One packet for conn.recv(); a second Retry or handshake is ignored.     *)
ClientRecv(c) ==
  \E p \in inbox[c] :
    /\ loop[c] = "read"
    /\ inbox' = [inbox EXCEPT ![c] = @ \ {p}]
    /\ \/ /\ p.kind = "retry" /\ conn[c] = "initial"
          /\ conn' = [conn EXCEPT ![c] = "retried"]
          /\ token' = [token EXCEPT ![c] = p.token]
          /\ unsent' = [unsent EXCEPT ![c] = TRUE]
       \/ /\ p.kind = "handshake" /\ conn[c] = "retried"
          /\ conn' = [conn EXCEPT ![c] = "established"]
          /\ unsent' = [unsent EXCEPT ![c] = TRUE]
          /\ UNCHANGED token
       \/ /\ ~(p.kind = "retry" /\ conn[c] = "initial")
          /\ ~(p.kind = "handshake" /\ conn[c] = "retried")
          /\ UNCHANGED <<conn, token, unsent>>
    /\ UNCHANGED <<addr, loop, reqSent, edge, srvBox, srvEdge, net, server>>

(* Mutant: the request is tried once, at the end of the first turn.        *)
ClientFlushOnce(c) ==
  /\ loop[c] = "read"
  /\ inbox[c] = {}
  /\ reqSent' = [reqSent EXCEPT ![c] = TRUE]
  /\ IF unsent[c] /\ ~(conn[c] = "established" /\ reqSent[c])
     THEN Send(IF conn[c] = "established"
               THEN Request(Sign(Own(c)))
               ELSE Initial(Sign(Own(c)), token[c], addr[c]))
     ELSE UNCHANGED net
  /\ unsent' = [unsent EXCEPT ![c] = FALSE]
  /\ loop' = [loop EXCEPT ![c] = "poll"]
  /\ UNCHANGED <<addr, conn, token, boxes, server>>

(* Nothing is left to read: the request is made once the connection is
   established, and goes out with what the handshake still lacks.          *)
ClientFlush(c) ==
  /\ loop[c] = "read"
  /\ inbox[c] = {}
  /\ reqSent' = [reqSent EXCEPT ![c] = @ \/ conn[c] = "established"]
  /\ IF unsent[c]
     THEN Send(IF conn[c] = "established"
               THEN Request(Sign(Own(c)))
               ELSE Initial(Sign(Own(c)), token[c], addr[c]))
     ELSE UNCHANGED net
  /\ unsent' = [unsent EXCEPT ![c] = FALSE]
  /\ loop' = [loop EXCEPT ![c] = "poll"]
  /\ UNCHANGED <<addr, conn, token, boxes, server>>

------------------------------------------------------------------------------
(* server_connection() *)

ServerPoll ==
  /\ srvLoop = "poll"
  /\ srvEdge
  /\ srvEdge' = FALSE
  /\ srvLoop' = "read"
  /\ UNCHANGED <<client, inbox, edge, srvBox, net, list, peer, subscribed, blocked, retries>>

(* Mutant: the read loop may end with packets to read.                     *)
ServerDrainedEarly ==
  /\ srvLoop = "read"
  /\ srvLoop' = "poll"
  /\ UNCHANGED <<client, boxes, net, list, peer, subscribed, blocked, retries>>

(* recv() would block.                                                     *)
ServerDrained ==
  /\ srvLoop = "read"
  /\ srvBox = {}
  /\ srvLoop' = "poll"
  /\ UNCHANGED <<client, boxes, net, list, peer, subscribed, blocked, retries>>

(* Mutant: the connection is looked up by the id in the packet only.       *)
EntriesByDcid(d) == {e \in {d} : list[e] # "absent"}

(* The connection of a packet: by its id, or by the id derived from it.    *)
Entries(d) ==
  IF list[d] # "absent" THEN {d} ELSE {e \in {Sign(d)} : list[e] # "absent"}

(* An Initial without a token: the Retry hands out the address it came from.
   If the socket is full the read loop is left, whatever is still to read. *)
ServerRetry(p) ==
  /\ p.kind = "initial" /\ p.token = NoToken
  /\ Entries(p.dcid) = {}
  /\ \/ /\ net' = net \cup {Retry(p.dcid[1], p.from)}
        /\ retries' = [retries EXCEPT ![p.dcid[1]] = @ \cup {p.from}]
        /\ UNCHANGED <<srvLoop, blocked>>
     \/ /\ "loss" \in faults
        /\ srvLoop' = "poll"
        /\ blocked' = TRUE
        /\ UNCHANGED <<net, retries>>
  /\ UNCHANGED <<list, peer, subscribed>>

(* Mutant: any token will do.                                              *)
ValidAlways(p) == p.token # NoToken

(* validate_token(): the address in it is the one the packet comes from.   *)
Valid(p) == p.token = p.from

(* Mutant: the connection gets a new id instead of the one in the Retry.   *)
ServerAcceptAnew(p) ==
  /\ p.kind = "initial" /\ p.token # NoToken
  /\ Entries(p.dcid) = {}
  /\ IF Valid(p)
     THEN /\ list' = [list EXCEPT ![Own(p.dcid[1])] = "handshake"]
          /\ peer' = [peer EXCEPT ![Own(p.dcid[1])] = p.from]
          /\ Send(Answer("handshake", p.dcid[1]))
     ELSE UNCHANGED <<list, peer, net>>
  /\ UNCHANGED <<srvLoop, subscribed, blocked, retries>>

(* An Initial with a token: accept(), or the packet is dropped.            *)
ServerAccept(p) ==
  /\ p.kind = "initial" /\ p.token # NoToken
  /\ Entries(p.dcid) = {}
  /\ IF Valid(p)
     THEN /\ list' = [list EXCEPT ![p.dcid] = "handshake"]
          /\ peer' = [peer EXCEPT ![p.dcid] = p.from]
          /\ Send(Answer("handshake", p.dcid[1]))
     ELSE UNCHANGED <<list, peer, net>>
  /\ UNCHANGED <<srvLoop, subscribed, blocked, retries>>

(* A packet of a connection in the list.  One that came before means nothing
   to conn.recv(), neither does one it cannot decrypt.                     *)
ServerServe(p) ==
  \E e \in Entries(p.dcid) :
    /\ IF p.kind = "request" /\ list[e] = "handshake"
       THEN /\ list' = [list EXCEPT ![e] = "established"]
            /\ subscribed' = subscribed \cup {e}
            /\ Send(Answer("ack", e[1]))
       ELSE UNCHANGED <<list, subscribed, net>>
    /\ UNCHANGED <<srvLoop, peer, blocked, retries>>

(* "Packet is not Initial"                                                 *)
ServerDrop(p) ==
  /\ p.kind # "initial"
  /\ Entries(p.dcid) = {}
  /\ UNCHANGED <<net, server>>

(* A turn of the read loop that has a packet.                              *)
ServerTurn ==
  \E p \in srvBox :
    /\ srvLoop = "read"
    /\ srvBox' = srvBox \ {p}
    /\ ServerRetry(p) \/ ServerAccept(p) \/ ServerServe(p) \/ ServerDrop(p)
    /\ UNCHANGED <<client, inbox, edge, srvEdge>>

------------------------------------------------------------------------------
(* The network *)

Deliver(p) ==
  /\ p \in net
  /\ net' = net \ {p} \/ ("duplication" \in faults /\ UNCHANGED net)
  /\ IF p.kind \in {"initial", "request"}
     THEN /\ srvBox' = srvBox \cup {p}
          /\ srvEdge' = TRUE
          /\ UNCHANGED <<inbox, edge>>
     ELSE /\ inbox' = [inbox EXCEPT ![p.to] = @ \cup {p}]
          /\ edge' = [edge EXCEPT ![p.to] = TRUE]
          /\ UNCHANGED <<srvBox, srvEdge>>
  /\ UNCHANGED <<client, server>>

Lose ==
  /\ "loss" \in faults
  /\ \E p \in net : net' = net \ {p}
  /\ UNCHANGED <<client, boxes, server>>

(* A NAT moves a client before its second Initial is out.                  *)
Rebind(c) ==
  /\ "rebinding" \in faults
  /\ conn[c] = "initial" \/ (conn[c] = "retried" /\ unsent[c])
  /\ \E a \in Addrs : addr' = [addr EXCEPT ![c] = a]
  /\ UNCHANGED <<loop, conn, token, unsent, reqSent, boxes, net, server>>

------------------------------------------------------------------------------
Step ==
  \/ \E c \in Clients :
       ClientStart(c) \/ ClientPoll(c) \/ ClientRecv(c) \/ ClientFlush(c) \/ Rebind(c)
  \/ ServerPoll \/ ServerDrained \/ ServerTurn
  \/ \E p \in ToServer \cup ToClient : Deliver(p)
  \/ Lose

Next == Step /\ UNCHANGED faults

Spec == Init /\ [][Next]_vars

(* Both programs run, and what is not lost arrives.                        *)
FairSpec ==
  /\ Spec
  /\ \A c \in Clients :
       WF_parts(ClientStart(c) \/ ClientPoll(c) \/ ClientRecv(c) \/ ClientFlush(c))
  /\ WF_parts(ServerPoll \/ ServerDrained \/ ServerTurn)
  /\ \A p \in ToServer \cup ToClient : WF_parts(Deliver(p))

------------------------------------------------------------------------------
(* Invariants *)

(* The types of client(), server_connection() and what is between them.    *)
StateOK ==
  /\ addr \in [Clients -> Addrs]
  /\ loop \in [Clients -> {"new", "poll", "read"}]
  /\ conn \in [Clients -> {"initial", "retried", "established"}]
  /\ token \in [Clients -> Addrs \cup {NoToken}]
  /\ unsent \in [Clients -> BOOLEAN]
  /\ reqSent \in [Clients -> BOOLEAN]
  /\ \A c \in Clients : reqSent[c] => conn[c] = "established"
  /\ inbox \in [Clients -> SUBSET ToClient]
  /\ edge \in [Clients -> BOOLEAN]
  /\ net \in SUBSET (ToServer \cup ToClient)
  /\ srvLoop \in {"poll", "read"}
  /\ srvBox \in SUBSET ToServer
  /\ srvEdge \in BOOLEAN
  /\ list \in [Ids -> {"absent", "handshake", "established"}]
  /\ peer \in [Ids -> Addrs \cup {NoToken}]
  /\ subscribed \in SUBSET Ids
  /\ blocked \in BOOLEAN
  /\ retries \in [Clients -> SUBSET Addrs]

(* The types; a request was made by an established connection.             *)
TypeOK == faults \in Networks /\ StateOK

Accepted(c) == {d \in Ids : d[1] = c /\ list[d] # "absent"}

(* Packets of one attempt, late, twice or out of order, never make a second
   connection, and the one there is has the id its packets carry.          *)
OneConnectionPerAttempt ==
  \A c \in Clients : Accepted(c) \subseteq {Sign(Own(c))}

(* A connection is accepted only from an address that was sent a Retry for
   this very attempt.                                                      *)
PeersAreValidated ==
  \A c \in Clients : \A d \in Accepted(c) : peer[d] \in retries[c]

(* The server is not ahead of a client: who has subscribed has asked to.   *)
SubscribersAsked ==
  \A d \in subscribed : list[d] = "established" /\ reqSent[d[1]]

(* No end sleeps over a packet in its socket; unless the server left its read
   loop because a Retry would block.                                       *)
NoPacketIsStranded ==
  /\ srvLoop = "poll" /\ srvBox # {} => srvEdge \/ blocked
  /\ \A c \in Clients : loop[c] # "read" /\ inbox[c] # {} => edge[c]

(* What is under way: only a first Initial has no token; a token names an
   address that was sent a Retry; a request comes from who made it.        *)
PacketOK(p) ==
  /\ p.kind = "initial" /\ p.token = NoToken => p.dcid = Own(p.dcid[1])
  /\ p.kind = "initial" /\ p.token # NoToken =>
       p.dcid = Sign(Own(p.dcid[1])) /\ p.token \in retries[p.dcid[1]]
  /\ p.kind = "request" => p.dcid = Sign(Own(p.dcid[1])) /\ reqSent[p.dcid[1]]
  /\ p.kind = "retry" => p.token \in retries[p.to]

PacketsOK ==
  /\ \A p \in net \cup srvBox : PacketOK(p)
  /\ \A c \in Clients : \A p \in inbox[c] : PacketOK(p)

(* A client has something to send only once it has a token.                *)
TokensOK ==
  \A c \in Clients :
    /\ conn[c] # "initial" => token[c] \in retries[c]
    /\ unsent[c] => conn[c] # "initial"

(* Each box holds packets for its owner.                                   *)
BoxesOK == \A c \in Clients : \A p \in inbox[c] : p.to = c

IInv ==
  StateOK /\ PacketsOK /\ TokensOK /\ BoxesOK
    /\ OneConnectionPerAttempt /\ PeersAreValidated /\ SubscribersAsked

------------------------------------------------------------------------------
(* Who waits for what, on a network without faults *)

ForServer(p) == p \in net \cup srvBox

ForClient(c, p) == p \in net \cup inbox[c]

(* Without a token, which a Retry will bring.                              *)
Asking(c) ==
  /\ conn[c] = "initial" /\ list[Sign(Own(c))] = "absent"
  /\ \/ loop[c] = "new"
     \/ ForServer(Initial(Own(c), NoToken, addr[c]))
     \/ ForClient(c, Retry(c, addr[c]))

(* With a token the server will take.                                      *)
Returning(c) ==
  /\ conn[c] = "retried" /\ list[Sign(Own(c))] = "absent"
  /\ unsent[c] \/ ForServer(Initial(Sign(Own(c)), addr[c], addr[c]))

(* Accepted, and not yet aware of it.                                      *)
LetIn(c) ==
  /\ conn[c] = "retried" /\ list[Sign(Own(c))] = "handshake"
  /\ ForClient(c, Answer("handshake", c))

(* Established, the request not yet at the server.                         *)
Requesting(c) ==
  /\ conn[c] = "established" /\ list[Sign(Own(c))] = "handshake"
  /\ unsent[c] \/ ForServer(Request(Sign(Own(c))))

Proceeds(c) == Asking(c) \/ Returning(c) \/ LetIn(c) \/ Requesting(c)

(* Until a client is subscribed, a packet that will bring it nearer is with
   one of the two programs or under way: neither end waits for a packet the
   other has no reason to send, although nobody repeats anything.          *)
NothingStalls ==
  faults = {} =>
    \A c \in Clients : Sign(Own(c)) \in subscribed \/ Proceeds(c)

(* Of a client nothing with its token is under way before it has sent that;
   what it has to send it sends in this turn; a handshake is of an entry.  *)
StagesOK ==
  \A c \in Clients :
    /\ unsent[c] => loop[c] = "read"
    /\ ForClient(c, Answer("handshake", c)) => list[Sign(Own(c))] # "absent"
    /\ conn[c] = "initial" \/ (conn[c] = "retried" /\ unsent[c]) =>
         /\ list[Sign(Own(c))] = "absent"
         /\ \A p \in net \cup srvBox :
              p.kind = "initial" /\ p.dcid[1] = c => p.token = NoToken

(* Who is not moved has tokens of the one address it is seen at.           *)
AddressesKept ==
  /\ \A p \in net \cup srvBox :
       p.kind = "initial" =>
         /\ p.from = addr[p.dcid[1]]
         /\ p.token \in {NoToken, p.from}
  /\ \A p \in net : p.kind = "retry" => p.token = addr[p.to]
  /\ \A c \in Clients :
       /\ \A p \in inbox[c] : p.kind = "retry" => p.token = addr[c]
       /\ conn[c] # "initial" => token[c] = addr[c]

(* The strengthening of NothingStalls that is inductive.                   *)
ProgressInv ==
  /\ StagesOK
  /\ faults = {} => AddressesKept
  /\ NothingStalls

------------------------------------------------------------------------------
(* Action and liveness properties *)

RetriedNow(c) ==
  \E a \in Addrs : Retry(c, a) \in net' \ net

(* A client that was let in is not told to try again, whatever packet of it
   comes late.                                                             *)
AcceptedIsNotRetried ==
  [][\A c \in Clients : RetriedNow(c) => Accepted(c) = {}]_vars

(* On a network that delivers each packet once, in any order, every client
   gets its subscription.                                                  *)
EveryoneSubscribes ==
  \A c \in Clients : faults = {} => <>(Sign(Own(c)) \in subscribed)

==============================================================================
