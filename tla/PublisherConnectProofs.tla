------------------------- MODULE PublisherConnectProofs -------------------------
(***************************************************************************)
(* PublisherConnect for any number of clients and addresses, and the worst *)
(* of networks.  The strengthening, PacketsOK, says of each packet under   *)
(* way what its sender knew; retries[c] and reqSent[c] only grow, so that  *)
(* it stays true however late the packet comes.                            *)
(***************************************************************************)
EXTENDS PublisherConnect, TLAPS

(* Connection ids and what they are made from.                             *)
LEMMA IdParts ==
  /\ \A c \in Clients : Own(c) \in Ids /\ Own(c)[1] = c
  /\ \A c \in Clients : Sign(Own(c)) \in Ids /\ Sign(Own(c))[1] = c
  /\ \A d \in Ids : d[1] \in Clients /\ Sign(d) \in Ids /\ Sign(d)[1] = d[1]
  /\ \A c \in Clients : Own(c) # Sign(Own(c)) /\ Sign(Sign(Own(c))) # Sign(Own(c))
  BY DEF Ids, Own, Sign

(* What the packets are made of.                                           *)
LEMMA PacketParts ==
  /\ \A d \in Ids, t \in Addrs \cup {NoToken}, a \in Addrs :
       /\ Initial(d, t, a) \in ToServer /\ Initial(d, t, a).kind = "initial"
       /\ Initial(d, t, a).dcid = d /\ Initial(d, t, a).token = t
       /\ Initial(d, t, a).from = a
  /\ \A d \in Ids :
       Request(d) \in ToServer /\ Request(d).kind = "request" /\ Request(d).dcid = d
  /\ \A c \in Clients, a \in Addrs :
       /\ Retry(c, a) \in ToClient /\ Retry(c, a).kind = "retry"
       /\ Retry(c, a).to = c /\ Retry(c, a).token = a
  /\ \A c \in Clients, k \in {"handshake", "ack"} :
       Answer(k, c) \in ToClient /\ Answer(k, c).kind = k /\ Answer(k, c).to = c
  BY DEF ToServer, ToClient, Initial, Request, Retry, Answer

(* An answer is what its kind and its receiver say.                         *)
LEMMA AnswerParts ==
  ASSUME NEW p \in ToClient, p.kind \in {"handshake", "ack"}
  PROVE  p = Answer(p.kind, p.to)
  BY DEF ToClient, Answer

(* The packets the server reads.                                           *)
LEMMA ServerPackets ==
  ASSUME NEW p \in ToServer
  PROVE  /\ p.kind \in {"initial", "request"}
         /\ p.dcid \in Ids
         /\ p.kind = "initial" => p.token \in Addrs \cup {NoToken} /\ p.from \in Addrs
  BY DEF ToServer

(* The packets a client reads.                                             *)
LEMMA ClientPackets ==
  ASSUME NEW p \in ToClient
  PROVE  /\ p.kind \in {"retry", "handshake", "ack"}
         /\ p.to \in Clients
         /\ p.kind = "retry" => p.token \in Addrs
  BY DEF ToClient

(* The state of a packet survives as long as retries and reqSent grow.     *)
LEMMA PacketStays ==
  ASSUME NEW p, p \in ToServer \cup ToClient, PacketOK(p),
         \A c \in Clients : retries[c] \subseteq retries'[c] /\ (reqSent[c] => reqSent'[c])
  PROVE  PacketOK(p)'
<1>1. CASE p \in ToServer
  <2>1. p.dcid[1] \in Clients /\ p.kind # "retry"
    BY <1>1, ServerPackets, IdParts
  <2> QED
    BY <2>1 DEF PacketOK
<1>2. CASE p \in ToClient
  <2>1. p.to \in Clients /\ p.kind \notin {"initial", "request"}
    BY <1>2, ClientPackets
  <2> QED
    BY <2>1 DEF PacketOK
<1> QED
  BY <1>1, <1>2

(* ... so that only packets a step makes need a look.                      *)
LEMMA PacketsStay ==
  ASSUME StateOK, PacketsOK,
         \A c \in Clients : retries[c] \subseteq retries'[c] /\ (reqSent[c] => reqSent'[c]),
         srvBox' \subseteq srvBox \cup net,
         \A c \in Clients : inbox'[c] \subseteq inbox[c] \cup net,
         \A p \in net' \ net : PacketOK(p)'
  PROVE  PacketsOK'
<1>1. net \subseteq ToServer \cup ToClient /\ srvBox \subseteq ToServer
      /\ \A c \in Clients : inbox[c] \subseteq ToClient
  BY DEF StateOK
<1>2. \A p \in net \cup srvBox : PacketOK(p)'
  BY <1>1, PacketStays DEF PacketsOK
<1>3. \A c \in Clients : \A p \in inbox[c] : PacketOK(p)'
  BY <1>1, PacketStays DEF PacketsOK
<1>4. \A p \in net' \cup srvBox' : PacketOK(p)'
  BY <1>2
<1>5. \A c \in Clients : \A p \in inbox'[c] : PacketOK(p)'
  BY <1>2, <1>3
<1> QED
  BY <1>4, <1>5 DEF PacketsOK, PacketOK

(* Initial states satisfy the invariant.                                   *)
LEMMA InvInit == Init => IInv
<1> SUFFICES ASSUME Init PROVE IInv
  OBVIOUS
<1>1. StateOK
  BY DEF Init, StateOK
<1>2. PacketsOK /\ BoxesOK /\ TokensOK
  BY DEF Init, PacketsOK, BoxesOK, TokensOK
<1>3. \A c \in Clients : Accepted(c) = {}
  BY DEF Init, Accepted
<1> QED
  BY <1>1, <1>2, <1>3
     DEF Init, IInv, OneConnectionPerAttempt, PeersAreValidated, SubscribersAsked

(* The server's half of the invariant, when the server does nothing.       *)
LEMMA ServerRests ==
  ASSUME IInv, UNCHANGED <<list, peer, subscribed, retries>>,
         \A c \in Clients : reqSent[c] => reqSent'[c]
  PROVE  /\ OneConnectionPerAttempt'
         /\ PeersAreValidated'
         /\ SubscribersAsked'
<1>1. \A c \in Clients : Accepted(c)' = Accepted(c)
  BY DEF Accepted
<1>2. \A d \in subscribed : d[1] \in Clients
  BY IdParts DEF IInv, StateOK
<1>3. OneConnectionPerAttempt'
  BY <1>1 DEF IInv, OneConnectionPerAttempt
<1>4. PeersAreValidated'
  BY <1>1 DEF IInv, PeersAreValidated
<1>5. SubscribersAsked'
  BY <1>2 DEF IInv, SubscribersAsked
<1> QED
  BY <1>3, <1>4, <1>5

------------------------------------------------------------------------------
(* The steps of a client *)

(* The first packet has no token and the id the client chose.               *)
LEMMA StartStep == ASSUME IInv, NEW c \in Clients, ClientStart(c) PROVE IInv'
<1>0. PICK p : p = Initial(Own(c), NoToken, addr[c])
  OBVIOUS
<1>1. addr[c] \in Addrs /\ Own(c) \in Ids /\ Own(c)[1] = c
  BY IdParts DEF IInv, StateOK
<1>2. p \in ToServer /\ p.kind = "initial" /\ p.dcid = Own(c) /\ p.token = NoToken
  BY <1>0, <1>1, PacketParts
<1>3. net' = net \cup {p}
  BY <1>0 DEF ClientStart
<1>4. StateOK'
  BY <1>2, <1>3 DEF ClientStart, IInv, StateOK, boxes, server
<1>5. PacketOK(p)'
  BY <1>1, <1>2 DEF PacketOK
<1>6. PacketsOK'
  BY <1>3, <1>5, PacketsStay DEF ClientStart, IInv, boxes, server
<1>7. TokensOK' /\ BoxesOK'
  BY DEF ClientStart, IInv, TokensOK, BoxesOK, boxes, server
<1> QED
  BY <1>4, <1>6, <1>7, ServerRests DEF ClientStart, IInv, server

(* poll() only turns the loop.                                              *)
LEMMA PollStep == ASSUME IInv, NEW c \in Clients, ClientPoll(c) PROVE IInv'
<1>1. StateOK'
  BY DEF ClientPoll, IInv, StateOK, server
<1>2. PacketsOK'
  BY PacketsStay DEF ClientPoll, IInv, server
<1>3. TokensOK' /\ BoxesOK'
  BY DEF ClientPoll, IInv, TokensOK, BoxesOK, server
<1> QED
  BY <1>1, <1>2, <1>3, ServerRests DEF ClientPoll, IInv, server

(* A Retry brings a token of an address that was sent one.                  *)
LEMMA RecvStep == ASSUME IInv, NEW c \in Clients, ClientRecv(c) PROVE IInv'
<1>1. PICK p \in inbox[c] : inbox' = [inbox EXCEPT ![c] = @ \ {p}]
        /\ \/ /\ p.kind = "retry"
              /\ conn' = [conn EXCEPT ![c] = "retried"]
              /\ token' = [token EXCEPT ![c] = p.token]
              /\ unsent' = [unsent EXCEPT ![c] = TRUE]
           \/ /\ conn[c] = "retried"
              /\ conn' = [conn EXCEPT ![c] = "established"]
              /\ unsent' = [unsent EXCEPT ![c] = TRUE]
              /\ UNCHANGED token
           \/ UNCHANGED <<conn, token, unsent>>
  BY DEF ClientRecv
<1>2. p \in ToClient /\ p.to = c /\ PacketOK(p)
  BY DEF IInv, StateOK, BoxesOK, PacketsOK
<1>3. p.kind = "retry" => p.token \in retries[c] /\ p.token \in Addrs
  BY <1>2, ClientPackets DEF PacketOK
<1>4. UNCHANGED <<addr, loop, reqSent, edge, srvBox, srvEdge, net, server>>
  BY DEF ClientRecv
<1>5. inbox' \in [Clients -> SUBSET ToClient] /\ \A d \in Clients : inbox'[d] \subseteq inbox[d]
  BY <1>1 DEF IInv, StateOK
<1>6. conn' \in [Clients -> {"initial", "retried", "established"}]
      /\ token' \in [Clients -> Addrs \cup {NoToken}] /\ unsent' \in [Clients -> BOOLEAN]
  BY <1>1, <1>3 DEF IInv, StateOK
<1>7. \A d \in Clients : reqSent[d] => conn'[d] = "established"
  <2>1. \A d \in Clients : conn[d] = "established" /\ d # c => conn'[d] = "established"
    BY <1>1 DEF IInv, StateOK
  <2>2. conn[c] = "established" => conn'[c] = "established"
    <3>1. p.kind = "retry" /\ conn[c] = "established" => conn' = conn \/ conn[c] # "established"
      BY DEF ClientRecv
    <3> QED
      BY DEF ClientRecv, IInv, StateOK
  <2> QED
    BY <2>1, <2>2 DEF IInv, StateOK
<1>8. StateOK'
  BY <1>4, <1>5, <1>6, <1>7 DEF IInv, StateOK, server
<1>9. PacketsOK'
  BY <1>4, <1>5, PacketsStay DEF IInv, server
<1>10. TokensOK'
  BY <1>1, <1>3, <1>4 DEF IInv, StateOK, TokensOK, server
<1>11. BoxesOK'
  BY <1>5 DEF IInv, BoxesOK
<1> QED
  BY <1>4, <1>8, <1>9, <1>10, <1>11, ServerRests DEF IInv, server

(* What is sent has the token of the client, or its request.                *)
LEMMA FlushStep == ASSUME IInv, NEW c \in Clients, ClientFlush(c) PROVE IInv'
<1>0. PICK p : p = IF conn[c] = "established"
                   THEN Request(Sign(Own(c)))
                   ELSE Initial(Sign(Own(c)), token[c], addr[c])
  OBVIOUS
<1>1. UNCHANGED <<addr, conn, token, boxes, server>>
      /\ reqSent' = [reqSent EXCEPT ![c] = @ \/ conn[c] = "established"]
      /\ unsent' = [unsent EXCEPT ![c] = FALSE]
      /\ loop' = [loop EXCEPT ![c] = "poll"]
  BY DEF ClientFlush
<1>2. net' = net \/ (unsent[c] /\ net' = net \cup {p})
  BY <1>0 DEF ClientFlush, Send
<1>3. Sign(Own(c)) \in Ids /\ Sign(Own(c))[1] = c
  BY IdParts
<1>4. reqSent' \in [Clients -> BOOLEAN]
      /\ (\A d \in Clients : reqSent[d] => reqSent'[d])
      /\ (conn[c] = "established" => reqSent'[c])
      /\ \A d \in Clients : reqSent'[d] => conn[d] = "established"
  BY <1>1 DEF IInv, StateOK
<1>5. unsent[c] => p \in ToServer /\ PacketOK(p)'
  <2>1. CASE conn[c] = "established"
    <3>1. p = Request(Sign(Own(c)))
      BY <1>0, <2>1
    <3>2. p \in ToServer /\ p.kind = "request" /\ p.dcid = Sign(Own(c))
      BY <3>1, <1>3, PacketParts
    <3> QED
      BY <2>1, <3>2, <1>3, <1>4 DEF PacketOK
  <2>2. CASE conn[c] # "established" /\ unsent[c]
    <3>1. p = Initial(Sign(Own(c)), token[c], addr[c])
      BY <1>0, <2>2
    <3>2. token[c] \in retries[c] /\ token[c] \in Addrs /\ addr[c] \in Addrs
      BY <2>2 DEF IInv, StateOK, TokensOK
    <3>3. p \in ToServer /\ p.kind = "initial" /\ p.dcid = Sign(Own(c)) /\ p.token = token[c]
      BY <3>1, <3>2, <1>3, PacketParts
    <3>4. token[c] # NoToken /\ retries' = retries
      BY <3>2, <1>1, ConnectAssumption DEF ConnectAssumption, server
    <3> QED
      BY <3>2, <3>3, <3>4, <1>3 DEF PacketOK
  <2> QED
    BY <2>1, <2>2
<1>6. StateOK'
  BY <1>1, <1>2, <1>4, <1>5 DEF IInv, StateOK, boxes, server
<1>7. PacketsOK'
  BY <1>1, <1>2, <1>4, <1>5, PacketsStay DEF IInv, boxes, server
<1>8. TokensOK' /\ BoxesOK'
  BY <1>1 DEF IInv, StateOK, TokensOK, BoxesOK, boxes, server
<1> QED
  BY <1>1, <1>4, <1>6, <1>7, <1>8, ServerRests DEF IInv, server

(* A new address touches nothing the invariant relates.                     *)
LEMMA RebindStep == ASSUME IInv, NEW c \in Clients, Rebind(c) PROVE IInv'
<1>1. StateOK'
  BY DEF Rebind, IInv, StateOK, boxes, server
<1>2. PacketsOK'
  BY PacketsStay DEF Rebind, IInv, boxes, server
<1>3. TokensOK' /\ BoxesOK'
  BY DEF Rebind, IInv, TokensOK, BoxesOK, boxes, server
<1> QED
  BY <1>1, <1>2, <1>3, ServerRests DEF Rebind, IInv, server

------------------------------------------------------------------------------
(* The steps of the network *)

(* A packet moves from the network to the box of its receiver.              *)
LEMMA DeliverStep == ASSUME IInv, NEW p \in ToServer \cup ToClient, Deliver(p) PROVE IInv'
<1>1. UNCHANGED <<client, server>> /\ p \in net /\ net' \subseteq net
  BY DEF Deliver
<1>2. CASE p.kind \in {"initial", "request"}
  <2>1. p \in ToServer
    BY <1>2, ClientPackets
  <2>2. srvBox' = srvBox \cup {p} /\ srvEdge' = TRUE /\ UNCHANGED <<inbox, edge>>
    BY <1>2 DEF Deliver
  <2>3. StateOK'
    BY <1>1, <2>1, <2>2 DEF IInv, StateOK, client, server
  <2>4. PacketsOK'
    BY <1>1, <2>2, PacketsStay DEF IInv, client, server
  <2>5. TokensOK' /\ BoxesOK'
    BY <1>1, <2>2 DEF IInv, TokensOK, BoxesOK, client, server
  <2> QED
    BY <1>1, <2>3, <2>4, <2>5, ServerRests DEF IInv, client, server
<1>3. CASE p.kind \notin {"initial", "request"}
  <2>1. p \in ToClient /\ p.to \in Clients
    BY <1>3, ServerPackets, ClientPackets
  <2>2. inbox' = [inbox EXCEPT ![p.to] = @ \cup {p}] /\ edge' = [edge EXCEPT ![p.to] = TRUE]
        /\ UNCHANGED <<srvBox, srvEdge>>
    BY <1>3 DEF Deliver
  <2>3. \A d \in Clients : inbox'[d] = IF d = p.to THEN inbox[d] \cup {p} ELSE inbox[d]
    BY <2>1, <2>2 DEF IInv, StateOK
  <2>4. StateOK'
    BY <1>1, <2>1, <2>2 DEF IInv, StateOK, client, server
  <2>5. PacketsOK'
    BY <1>1, <2>2, <2>3, PacketsStay DEF IInv, client, server
  <2>6. TokensOK'
    BY <1>1 DEF IInv, TokensOK, client, server
  <2>7. BoxesOK'
    BY <2>3 DEF IInv, BoxesOK
  <2> QED
    BY <1>1, <2>4, <2>5, <2>6, <2>7, ServerRests DEF IInv, client, server
<1> QED
  BY <1>2, <1>3

(* Fewer packets.                                                           *)
LEMMA LoseStep == ASSUME IInv, Lose PROVE IInv'
<1>1. UNCHANGED <<client, boxes, server>> /\ net' \subseteq net
  BY DEF Lose
<1>2. StateOK'
  BY <1>1 DEF IInv, StateOK, client, boxes, server
<1>3. PacketsOK'
  BY <1>1, PacketsStay DEF IInv, client, boxes, server
<1>4. TokensOK' /\ BoxesOK'
  BY <1>1 DEF IInv, TokensOK, BoxesOK, client, boxes, server
<1> QED
  BY <1>1, <1>2, <1>3, <1>4, ServerRests DEF IInv, client, server

------------------------------------------------------------------------------
(* The steps of the server *)

(* With an entry for an id derived from the packet's, or none.             *)
LEMMA EntryKey ==
  ASSUME NEW d \in Ids, NEW e \in Entries(d)
  PROVE  e \in Ids /\ e[1] = d[1] /\ list[e] # "absent"
  BY IdParts DEF Entries

(* An attempt without an entry: neither of its ids is a key.               *)
LEMMA NoEntry ==
  ASSUME IInv, NEW c \in Clients, NEW d \in {Own(c), Sign(Own(c))}, Entries(d) = {}
  PROVE  Accepted(c) = {}
<1>1. list[Sign(Own(c))] = "absent"
  BY IdParts DEF Entries
<1>2. Accepted(c) \subseteq {Sign(Own(c))}
  BY DEF IInv, OneConnectionPerAttempt
<1> QED
  BY <1>1, <1>2 DEF Accepted

(* poll() only turns the loop.                                              *)
LEMMA ServerPollStep == ASSUME IInv, ServerPoll \/ ServerDrained PROVE IInv'
<1>1. UNCHANGED <<client, inbox, edge, srvBox, net, list, peer, subscribed, blocked, retries>>
      /\ srvLoop' \in {"poll", "read"} /\ srvEdge' \in BOOLEAN
  BY DEF ServerPoll, ServerDrained, boxes, IInv, StateOK
<1>2. StateOK'
  BY <1>1 DEF IInv, StateOK, client
<1>3. PacketsOK'
  BY <1>1, PacketsStay DEF IInv, client
<1>4. TokensOK' /\ BoxesOK'
  BY <1>1 DEF IInv, TokensOK, BoxesOK, client
<1> QED
  BY <1>1, <1>2, <1>3, <1>4, ServerRests DEF IInv, client

(* The Retry carries the address it is sent to.                             *)
LEMMA RetryStep ==
  ASSUME IInv, NEW p \in srvBox, srvBox' = srvBox \ {p}, ServerRetry(p),
         UNCHANGED <<client, inbox, edge, srvEdge>>
  PROVE  IInv'
<1>1. p \in ToServer /\ p.dcid \in Ids /\ p.dcid[1] \in Clients /\ p.from \in Addrs
  BY ServerPackets, IdParts DEF IInv, StateOK, ServerRetry
<1>2. PICK r : r = Retry(p.dcid[1], p.from)
  OBVIOUS
<1>3. r \in ToClient /\ r.kind = "retry" /\ r.to = p.dcid[1] /\ r.token = p.from
  BY <1>1, <1>2, PacketParts
<1>4. UNCHANGED <<client, list, peer, subscribed>>
  BY DEF ServerRetry
<1>5. \/ /\ net' = net \cup {r}
         /\ retries' = [retries EXCEPT ![p.dcid[1]] = @ \cup {p.from}]
         /\ UNCHANGED <<srvLoop, blocked>>
      \/ srvLoop' = "poll" /\ blocked' = TRUE /\ UNCHANGED <<net, retries>>
  BY <1>2 DEF ServerRetry
<1>6. retries' \in [Clients -> SUBSET Addrs] /\ \A c \in Clients : retries[c] \subseteq retries'[c]
  BY <1>1, <1>5 DEF IInv, StateOK
<1>7. \A q \in net' \ net : q = r /\ q.token \in retries'[q.to]
  BY <1>1, <1>3, <1>5 DEF IInv, StateOK
<1>8. \A q \in net' \ net : PacketOK(q)'
  BY <1>3, <1>7 DEF PacketOK
<1>9. StateOK'
  BY <1>3, <1>4, <1>5, <1>6 DEF IInv, StateOK, client
<1>10. PacketsOK'
  BY <1>4, <1>6, <1>8, PacketsStay DEF IInv, client
<1>11. TokensOK' /\ BoxesOK'
  BY <1>4, <1>6 DEF IInv, TokensOK, BoxesOK, client
<1>12. \A c \in Clients : Accepted(c)' = Accepted(c)
  BY <1>4 DEF Accepted
<1>13. OneConnectionPerAttempt' /\ PeersAreValidated'
  BY <1>4, <1>6, <1>12 DEF IInv, OneConnectionPerAttempt, PeersAreValidated
<1>14. SubscribersAsked'
  BY <1>4 DEF IInv, SubscribersAsked, client
<1> QED
  BY <1>9, <1>10, <1>11, <1>13, <1>14 DEF IInv

(* A server step that sends at most an answer no property speaks of.       *)
LEMMA AnswerStep ==
  ASSUME IInv, NEW p \in srvBox, srvBox' = srvBox \ {p},
         UNCHANGED <<client, inbox, edge, srvEdge, srvLoop, blocked, retries>>,
         NEW k \in {"handshake", "ack"}, NEW c \in Clients,
         net' = net \/ net' = net \cup {Answer(k, c)},
         list' \in [Ids -> {"absent", "handshake", "established"}],
         peer' \in [Ids -> Addrs \cup {NoToken}],
         subscribed' \in SUBSET Ids
  PROVE  StateOK' /\ PacketsOK' /\ TokensOK' /\ BoxesOK'
<1>1. Answer(k, c) \in ToClient /\ Answer(k, c).kind \notin {"initial", "request", "retry"}
  BY PacketParts
<1>2. \A q \in net' \ net : PacketOK(q)'
  BY <1>1 DEF PacketOK
<1>3. StateOK'
  BY <1>1 DEF IInv, StateOK, client
<1>4. PacketsOK'
  BY <1>2, PacketsStay DEF IInv, client
<1>5. TokensOK' /\ BoxesOK'
  BY DEF IInv, TokensOK, BoxesOK, client
<1> QED
  BY <1>3, <1>4, <1>5

(* The id accepted is the one of the Retry, its address a validated one.    *)
LEMMA AcceptStep ==
  ASSUME IInv, NEW p \in srvBox, srvBox' = srvBox \ {p}, ServerAccept(p),
         UNCHANGED <<client, inbox, edge, srvEdge>>
  PROVE  IInv'
<1> DEFINE c == p.dcid[1]
<1>1. p.dcid \in Ids /\ c \in Clients /\ p.from \in Addrs /\ p.kind = "initial"
      /\ p.token # NoToken
  BY ServerPackets, IdParts DEF IInv, StateOK, ServerAccept
<1>2. p.dcid = Sign(Own(c)) /\ p.token \in retries[c]
  BY <1>1 DEF IInv, PacketsOK, PacketOK
<1>3. UNCHANGED <<srvLoop, subscribed, blocked, retries>>
  BY DEF ServerAccept
<1>4. CASE Valid(p)
  <2>1. list' = [list EXCEPT ![p.dcid] = "handshake"] /\ peer' = [peer EXCEPT ![p.dcid] = p.from]
        /\ (net' = net \/ net' = net \cup {Answer("handshake", c)})
    BY <1>4 DEF ServerAccept, Send
  <2>2. list[p.dcid] = "absent"
    BY DEF ServerAccept, Entries
  <2>3. StateOK' /\ PacketsOK' /\ TokensOK' /\ BoxesOK'
    <3>1. list' \in [Ids -> {"absent", "handshake", "established"}]
          /\ peer' \in [Ids -> Addrs \cup {NoToken}] /\ subscribed' \in SUBSET Ids
      BY <1>1, <1>3, <2>1 DEF IInv, StateOK
    <3> QED
      BY <1>1, <1>3, <2>1, <3>1, AnswerStep
  <2>4. \A d \in Ids : list'[d] # "absent" => list[d] # "absent" \/ d = p.dcid
    BY <1>1, <2>1 DEF IInv, StateOK
  <2>5. \A b \in Clients : Accepted(b)' \subseteq Accepted(b) \cup (IF b = c THEN {p.dcid} ELSE {})
    BY <2>4 DEF Accepted
  <2>6. OneConnectionPerAttempt'
    BY <1>2, <2>5 DEF IInv, OneConnectionPerAttempt
  <2>7. PeersAreValidated'
    <3> SUFFICES ASSUME NEW b \in Clients, NEW d \in Accepted(b)' PROVE peer'[d] \in retries'[b]
      BY DEF PeersAreValidated
    <3>1. CASE d = p.dcid
      <4>1. b = c /\ peer'[d] = p.from
        BY <3>1, <1>1, <2>1 DEF Accepted, IInv, StateOK
      <4> QED
        BY <4>1, <1>2, <1>3, <1>4 DEF Valid
    <3>2. CASE d # p.dcid
      <4>1. d \in Accepted(b) /\ d \in Ids
        BY <3>2, <2>5 DEF Accepted
      <4> QED
        BY <3>2, <4>1, <1>3, <2>1 DEF IInv, StateOK, PeersAreValidated
    <3> QED
      BY <3>1, <3>2
  <2>8. SubscribersAsked'
    BY <1>1, <1>3, <2>1, <2>2 DEF IInv, StateOK, SubscribersAsked, client
  <2> QED
    BY <2>3, <2>6, <2>7, <2>8 DEF IInv
<1>5. CASE ~Valid(p)
  <2>1. UNCHANGED <<list, peer, net>>
    BY <1>5 DEF ServerAccept
  <2>2. StateOK' /\ PacketsOK' /\ TokensOK' /\ BoxesOK'
    BY <1>1, <1>3, <2>1, AnswerStep DEF IInv, StateOK
  <2> QED
    BY <1>3, <2>1, <2>2, ServerRests DEF IInv, client
<1> QED
  BY <1>4, <1>5

(* Who is subscribed has made the request that is read.                     *)
LEMMA ServeStep ==
  ASSUME IInv, NEW p \in srvBox, srvBox' = srvBox \ {p}, ServerServe(p),
         UNCHANGED <<client, inbox, edge, srvEdge>>
  PROVE  IInv'
<1>1. PICK e \in Entries(p.dcid) :
        /\ IF p.kind = "request" /\ list[e] = "handshake"
           THEN /\ list' = [list EXCEPT ![e] = "established"]
                /\ subscribed' = subscribed \cup {e}
                /\ Send(Answer("ack", e[1]))
           ELSE UNCHANGED <<list, subscribed, net>>
        /\ UNCHANGED <<srvLoop, peer, blocked, retries>>
  BY DEF ServerServe
<1>2. p.dcid \in Ids /\ p.dcid[1] \in Clients
  BY ServerPackets, IdParts DEF IInv, StateOK
<1>3. e \in Ids /\ e[1] = p.dcid[1] /\ list[e] # "absent"
  BY <1>2, EntryKey
<1>4. CASE p.kind = "request" /\ list[e] = "handshake"
  <2>1. list' = [list EXCEPT ![e] = "established"] /\ subscribed' = subscribed \cup {e}
        /\ (net' = net \/ net' = net \cup {Answer("ack", e[1])})
    BY <1>1, <1>4 DEF Send
  <2>2. StateOK' /\ PacketsOK' /\ TokensOK' /\ BoxesOK'
    <3>1. list' \in [Ids -> {"absent", "handshake", "established"}]
          /\ peer' \in [Ids -> Addrs \cup {NoToken}] /\ subscribed' \in SUBSET Ids
      BY <1>1, <1>3, <2>1 DEF IInv, StateOK
    <3> QED
      BY <1>1, <1>2, <1>3, <2>1, <3>1, AnswerStep
  <2>3. reqSent[e[1]]
    BY <1>3, <1>4 DEF IInv, PacketsOK, PacketOK
  <2>4. \A b \in Clients : Accepted(b)' = Accepted(b)
    BY <1>3, <2>1 DEF Accepted, IInv, StateOK
  <2>5. OneConnectionPerAttempt' /\ PeersAreValidated'
    BY <1>1, <2>4 DEF IInv, OneConnectionPerAttempt, PeersAreValidated
  <2>6. SubscribersAsked'
    BY <1>3, <2>1, <2>3 DEF IInv, StateOK, SubscribersAsked, client
  <2> QED
    BY <2>2, <2>5, <2>6 DEF IInv
<1>5. CASE ~(p.kind = "request" /\ list[e] = "handshake")
  <2>1. UNCHANGED <<list, subscribed, net>>
    BY <1>1, <1>5
  <2>2. StateOK' /\ PacketsOK' /\ TokensOK' /\ BoxesOK'
    BY <1>1, <1>2, <2>1, AnswerStep DEF IInv, StateOK
  <2> QED
    BY <1>1, <2>1, <2>2, ServerRests DEF IInv, client
<1> QED
  BY <1>4, <1>5

(* The packet is gone.                                                      *)
LEMMA DropStep ==
  ASSUME IInv, NEW p \in srvBox, srvBox' = srvBox \ {p}, ServerDrop(p),
         UNCHANGED <<client, inbox, edge, srvEdge>>
  PROVE  IInv'
<1>1. UNCHANGED <<net, srvLoop, list, peer, subscribed, blocked, retries>>
  BY DEF ServerDrop, server
<1>2. p.dcid[1] \in Clients
  BY ServerPackets, IdParts DEF IInv, StateOK
<1>3. StateOK' /\ PacketsOK' /\ TokensOK' /\ BoxesOK'
  BY <1>1, <1>2, AnswerStep DEF IInv, StateOK
<1> QED
  BY <1>1, <1>3, ServerRests DEF IInv, client

------------------------------------------------------------------------------
(* Every step keeps the inductive invariant.                               *)
LEMMA InvStep == IInv /\ [Next]_vars => IInv'
<1> SUFFICES ASSUME IInv, [Next]_vars PROVE IInv'
  OBVIOUS
<1>1. ASSUME NEW c \in Clients,
             ClientStart(c) \/ ClientPoll(c) \/ ClientRecv(c) \/ ClientFlush(c) \/ Rebind(c)
      PROVE  IInv'
  BY <1>1, StartStep, PollStep, RecvStep, FlushStep, RebindStep
<1>2. CASE ServerPoll \/ ServerDrained
  BY <1>2, ServerPollStep
<1>3. CASE ServerTurn
  BY <1>3, RetryStep, AcceptStep, ServeStep, DropStep DEF ServerTurn
<1>4. ASSUME NEW p \in ToServer \cup ToClient, Deliver(p) PROVE IInv'
  BY <1>4, DeliverStep
<1>5. CASE Lose
  BY <1>5, LoseStep
<1>6. CASE UNCHANGED vars
  <2>1. StateOK' /\ TokensOK' /\ BoxesOK'
    BY <1>6 DEF vars, parts, client, boxes, server, IInv, StateOK, TokensOK, BoxesOK
  <2>2. PacketsOK'
    BY <1>6, PacketsStay DEF vars, parts, client, boxes, server, IInv
  <2> QED
    BY <1>6, <2>1, <2>2, ServerRests DEF vars, parts, client, server, IInv
<1> QED
  BY <1>1, <1>2, <1>3, <1>4, <1>5, <1>6 DEF Next, Step

(* IInv is an invariant of every instance.                                 *)
THEOREM Inductive == Spec => []IInv
  BY InvInit, InvStep, PTL DEF Spec

(* The types; a request is made by an established connection only.         *)
THEOREM TypeCorrect == Spec => []TypeOK
<1>1. Init => faults \in Networks
  BY DEF Init
<1>2. faults \in Networks /\ [Next]_vars => (faults \in Networks)'
  BY DEF Next, vars
<1>3. IInv /\ faults \in Networks => TypeOK
  BY DEF IInv, TypeOK
<1> QED
  BY <1>1, <1>2, <1>3, Inductive, PTL DEF Spec

(* However packets are lost, doubled and reordered, an attempt of a client has
   at most one entry in CLIENT_LIST, under the id its packets carry.       *)
THEOREM AttemptsAreNotDoubled == Spec => []OneConnectionPerAttempt
<1>1. IInv => OneConnectionPerAttempt
  BY DEF IInv
<1> QED
  BY <1>1, Inductive, PTL

(* No connection without a Retry sent to the address it is accepted from.  *)
THEOREM AddressesAreValidated == Spec => []PeersAreValidated
<1>1. IInv => PeersAreValidated
  BY DEF IInv
<1> QED
  BY <1>1, Inductive, PTL

(* Subscribers have asked to be.                                           *)
THEOREM ServerIsNotAhead == Spec => []SubscribersAsked
<1>1. IInv => SubscribersAsked
  BY DEF IInv
<1> QED
  BY <1>1, Inductive, PTL

(* A client that was let in is not sent another Retry.                     *)
THEOREM NoLateRetry == Spec => AcceptedIsNotRetried
<1>1. IInv /\ [Next]_vars => [\A c \in Clients : RetriedNow(c) => Accepted(c) = {}]_vars
  <2> SUFFICES ASSUME IInv, [Next]_vars, NEW c \in Clients, NEW a \in Addrs,
                      Retry(c, a) \in net' \ net
               PROVE  Accepted(c) = {}
    BY DEF RetriedNow
  <2>1. Retry(c, a).kind = "retry" /\ Retry(c, a).to = c
    BY PacketParts
  <2>2. ASSUME NEW p, p.kind \in {"initial", "request", "handshake", "ack"},
               net' \subseteq net \cup {p}
        PROVE  FALSE
    BY <2>1, <2>2
  <2>3. \A d \in Ids : \A t, b : Initial(d, t, b).kind = "initial" /\ Request(d).kind = "request"
    BY DEF Initial, Request
  <2>4. \A k, b : Answer(k, b).kind = k
    BY DEF Answer
  <2>5. ServerTurn
    <3>1. ASSUME NEW b \in Clients, ClientStart(b) \/ ClientFlush(b) PROVE FALSE
      <4>1. Own(b) \in Ids /\ Sign(Own(b)) \in Ids
        BY IdParts
      <4>2. CASE ClientStart(b)
        BY <4>1, <4>2, <2>2, <2>3 DEF ClientStart
      <4>3. CASE ClientFlush(b)
        BY <4>1, <4>3, <2>2, <2>3 DEF ClientFlush, Send
      <4> QED
        BY <3>1, <4>2, <4>3
    <3> QED
      BY <3>1 DEF Next, Step, ClientPoll, ClientRecv, Rebind, ServerPoll, ServerDrained,
         Deliver, Lose, vars, parts
  <2>6. PICK p \in srvBox :
          ServerRetry(p) \/ ServerAccept(p) \/ ServerServe(p) \/ ServerDrop(p)
    BY <2>5 DEF ServerTurn
  <2>7. ServerRetry(p)
    BY <2>2, <2>4, <2>6 DEF ServerAccept, ServerServe, ServerDrop, Send
  <2>8. p.dcid \in Ids /\ p.dcid[1] \in Clients /\ p.from \in Addrs
    BY <2>7, ServerPackets, IdParts DEF IInv, StateOK, ServerRetry
  <2>9. Retry(c, a) = Retry(p.dcid[1], p.from)
    BY <2>7 DEF ServerRetry
  <2>10. p.dcid[1] = c
    BY <2>1, <2>8, <2>9, PacketParts
  <2>11. p.dcid = Own(c) /\ Entries(p.dcid) = {}
    BY <2>7, <2>10 DEF ServerRetry, IInv, PacketsOK, PacketOK
  <2> QED
    BY <2>11, NoEntry
<1> QED
  BY <1>1, Inductive, PTL DEF Spec, AcceptedIsNotRetried

(* Neither end sleeps over a packet it has; but for a Retry that blocked.  *)
THEOREM NothingIsStranded == Spec => []NoPacketIsStranded
<1>1. Init => NoPacketIsStranded
  BY DEF Init, NoPacketIsStranded
<1>2. IInv /\ NoPacketIsStranded /\ [Next]_vars => NoPacketIsStranded'
  <2> SUFFICES ASSUME IInv, NoPacketIsStranded, [Next]_vars PROVE NoPacketIsStranded'
    OBVIOUS
  <2> USE DEF NoPacketIsStranded
  <2>1. ASSUME NEW c \in Clients,
               ClientStart(c) \/ ClientPoll(c) \/ ClientRecv(c) \/ ClientFlush(c) \/ Rebind(c)
        PROVE  NoPacketIsStranded'
    <3>1. UNCHANGED <<srvLoop, srvBox, srvEdge, blocked>>
      BY <2>1 DEF ClientStart, ClientPoll, ClientRecv, ClientFlush, Rebind, boxes, server
    <3>2. \A d \in Clients : loop'[d] # "read" /\ inbox'[d] # {} => edge'[d]
      BY <2>1 DEF ClientStart, ClientPoll, ClientRecv, ClientFlush, Rebind, boxes,
         IInv, StateOK
    <3> QED
      BY <3>1, <3>2
  <2>2. CASE ServerPoll \/ ServerDrained
    BY <2>2 DEF ServerPoll, ServerDrained, client, boxes
  <2>3. CASE ServerTurn
    <3>1. srvLoop = "read" /\ UNCHANGED <<loop, inbox, edge>>
          /\ (srvLoop' = "read" \/ blocked')
      BY <2>3 DEF ServerTurn, ServerRetry, ServerAccept, ServerServe, ServerDrop,
         client, server
    <3> QED
      BY <3>1
  <2>4. ASSUME NEW p \in ToServer \cup ToClient, Deliver(p) PROVE NoPacketIsStranded'
    <3>1. UNCHANGED <<loop, srvLoop, blocked>>
      BY <2>4 DEF Deliver, client, server
    <3>2. CASE p.kind \in {"initial", "request"}
      BY <2>4, <3>1, <3>2 DEF Deliver
    <3>3. CASE p.kind \notin {"initial", "request"}
      BY <2>4, <3>1, <3>3 DEF Deliver, IInv, StateOK
    <3> QED
      BY <3>2, <3>3
  <2>5. CASE Lose
    BY <2>5 DEF Lose, client, boxes, server
  <2>6. CASE UNCHANGED vars
    BY <2>6 DEF vars, parts, client, boxes, server
  <2> QED
    BY <2>1, <2>2, <2>3, <2>4, <2>5, <2>6 DEF Next, Step
<1> QED
  BY <1>1, <1>2, Inductive, PTL DEF Spec

------------------------------------------------------------------------------
(* Nothing stalls on a network without faults *)

(* A client keeps its stage while it stands still and its packets stay.    *)
LEMMA StageStays ==
  ASSUME IInv, NEW c \in Clients, Proceeds(c),
         conn'[c] = conn[c], addr'[c] = addr[c],
         list'[Sign(Own(c))] = list[Sign(Own(c))],
         loop[c] = "new" => loop'[c] = "new" \/ ForServer(Initial(Own(c), NoToken, addr[c]))',
         unsent[c] => unsent'[c],
         \A p \in ToServer : p.dcid[1] = c /\ ForServer(p) => ForServer(p)',
         \A p \in ToClient : ForClient(c, p) => ForClient(c, p)'
  PROVE  Proceeds(c)'
<1>1. addr[c] \in Addrs /\ Own(c) \in Ids /\ Sign(Own(c)) \in Ids
      /\ Own(c)[1] = c /\ Sign(Own(c))[1] = c
  BY IdParts DEF IInv, StateOK
<1>2. CASE Asking(c)
  <2>1. /\ Initial(Own(c), NoToken, addr[c]) \in ToServer
        /\ Initial(Own(c), NoToken, addr[c]).dcid = Own(c)
        /\ Retry(c, addr[c]) \in ToClient
    BY <1>1, PacketParts
  <2>2. Asking(c)'
    BY <1>1, <1>2, <2>1 DEF Asking
  <2> QED
    BY <2>2 DEF Proceeds
<1>3. CASE Returning(c)
  <2>1. /\ Initial(Sign(Own(c)), addr[c], addr[c]) \in ToServer
        /\ Initial(Sign(Own(c)), addr[c], addr[c]).dcid = Sign(Own(c))
    BY <1>1, PacketParts
  <2>2. Returning(c)'
    BY <1>1, <1>3, <2>1 DEF Returning
  <2> QED
    BY <2>2 DEF Proceeds
<1>4. CASE LetIn(c)
  <2>1. Answer("handshake", c) \in ToClient
    BY PacketParts
  <2>2. LetIn(c)'
    BY <1>4, <2>1 DEF LetIn
  <2> QED
    BY <2>2 DEF Proceeds
<1>5. CASE Requesting(c)
  <2>1. Request(Sign(Own(c))) \in ToServer /\ Request(Sign(Own(c))).dcid = Sign(Own(c))
    BY <1>1, PacketParts
  <2>2. Requesting(c)'
    BY <1>1, <1>5, <2>1 DEF Requesting
  <2> QED
    BY <2>2 DEF Proceeds
<1> QED
  BY <1>2, <1>3, <1>4, <1>5 DEF Proceeds

(* Initial states are before the first packet.                             *)
LEMMA ProgressInit == Init => ProgressInv
<1> SUFFICES ASSUME Init PROVE ProgressInv
  OBVIOUS
<1>1. StagesOK
  BY IdParts DEF Init, StagesOK, ForClient
<1>2. AddressesKept
  BY DEF Init, AddressesKept
<1>3. \A c \in Clients : Asking(c)
  BY IdParts DEF Init, Asking
<1> QED
  BY <1>1, <1>2, <1>3 DEF ProgressInv, NothingStalls, Proceeds

(* The first packet goes out from the one address.                         *)
LEMMA StartProgress ==
  ASSUME IInv, ProgressInv, NEW c \in Clients, ClientStart(c), UNCHANGED faults
  PROVE  ProgressInv'
<1>0. PICK q : q = Initial(Own(c), NoToken, addr[c])
  OBVIOUS
<1>1. addr[c] \in Addrs /\ Own(c) \in Ids /\ Own(c)[1] = c
  BY IdParts DEF IInv, StateOK
<1>2. q \in ToServer /\ q.kind = "initial" /\ q.dcid = Own(c) /\ q.token = NoToken
      /\ q.from = addr[c]
  BY <1>0, <1>1, PacketParts
<1>3. net' = net \cup {q} /\ UNCHANGED <<addr, conn, token, unsent, boxes, list, subscribed>>
  BY <1>0 DEF ClientStart, server
<1>4. loop' = [loop EXCEPT ![c] = "poll"] /\ loop[c] = "new"
      /\ loop \in [Clients -> {"new", "poll", "read"}]
  BY DEF ClientStart, IInv, StateOK
<1>5. StagesOK'
  <2> SUFFICES ASSUME NEW b \in Clients
               PROVE  /\ unsent[b] => loop'[b] = "read"
                      /\ ForClient(b, Answer("handshake", b))' => list[Sign(Own(b))] # "absent"
                      /\ conn[b] = "initial" \/ (conn[b] = "retried" /\ unsent[b]) =>
                           /\ list[Sign(Own(b))] = "absent"
                           /\ \A p \in net' \cup srvBox :
                                p.kind = "initial" /\ p.dcid[1] = b => p.token = NoToken
    BY <1>3 DEF StagesOK, boxes
  <2>1. unsent[b] => loop'[b] = "read"
    BY <1>4 DEF ProgressInv, StagesOK
  <2>2. q # Answer("handshake", b)
    BY <1>2, PacketParts
  <2>3. ForClient(b, Answer("handshake", b))' => ForClient(b, Answer("handshake", b))
    BY <1>3, <2>2 DEF ForClient, boxes
  <2> QED
    BY <1>2, <1>3, <2>1, <2>3 DEF ProgressInv, StagesOK, boxes
<1>6. faults = {} => AddressesKept'
  BY <1>1, <1>2, <1>3 DEF ProgressInv, AddressesKept, boxes
<1>7. faults = {} => NothingStalls'
  <2> SUFFICES ASSUME faults = {}, NEW b \in Clients, Sign(Own(b)) \notin subscribed
               PROVE  Proceeds(b)'
    BY <1>3 DEF NothingStalls
  <2>1. Proceeds(b)
    BY DEF ProgressInv, NothingStalls
  <2>2. loop[b] = "new" => loop'[b] = "new" \/ ForServer(Initial(Own(b), NoToken, addr[b]))'
    BY <1>0, <1>3, <1>4 DEF ForServer
  <2> QED
    BY <1>3, <2>1, <2>2, StageStays DEF ForServer, ForClient, boxes
<1> QED
  BY <1>5, <1>6, <1>7 DEF ProgressInv, NothingStalls

(* poll() and the server's loop alone change nothing of this.              *)
LEMMA TurnProgress ==
  ASSUME IInv, ProgressInv,
         UNCHANGED <<faults, addr, conn, token, unsent, inbox, srvBox, net, list, subscribed>>,
         \A c \in Clients :
           /\ loop[c] = "new" => loop'[c] = "new"
           /\ loop[c] = "read" => loop'[c] = "read"
  PROVE  ProgressInv'
<1>1. StagesOK'
  BY DEF ProgressInv, StagesOK, ForClient
<1>2. faults = {} => AddressesKept'
  BY DEF ProgressInv, AddressesKept
<1>3. faults = {} => NothingStalls'
  <2> SUFFICES ASSUME faults = {}, NEW b \in Clients, Sign(Own(b)) \notin subscribed
               PROVE  Proceeds(b)'
    BY DEF NothingStalls
  <2>1. Proceeds(b)
    BY DEF ProgressInv, NothingStalls
  <2> QED
    BY <2>1, StageStays DEF ForServer, ForClient
<1> QED
  BY <1>1, <1>2, <1>3 DEF ProgressInv, NothingStalls

(* A Retry or a handshake takes the client to its next stage.              *)
LEMMA RecvProgress ==
  ASSUME IInv, ProgressInv, NEW c \in Clients, ClientRecv(c), UNCHANGED faults
  PROVE  ProgressInv'
<1> DEFINE d == Sign(Own(c))
<1>1. PICK p \in inbox[c] :
        /\ inbox' = [inbox EXCEPT ![c] = @ \ {p}]
        /\ \/ /\ p.kind = "retry" /\ conn[c] = "initial"
              /\ conn' = [conn EXCEPT ![c] = "retried"]
              /\ token' = [token EXCEPT ![c] = p.token]
              /\ unsent' = [unsent EXCEPT ![c] = TRUE]
           \/ /\ p.kind = "handshake" /\ conn[c] = "retried"
              /\ conn' = [conn EXCEPT ![c] = "established"]
              /\ unsent' = [unsent EXCEPT ![c] = TRUE]
              /\ UNCHANGED token
           \/ /\ ~(p.kind = "retry" /\ conn[c] = "initial")
              /\ ~(p.kind = "handshake" /\ conn[c] = "retried")
              /\ UNCHANGED <<conn, token, unsent>>
  BY DEF ClientRecv
<1>2. p \in ToClient /\ p.to = c /\ inbox \in [Clients -> SUBSET ToClient]
      /\ conn \in [Clients -> {"initial", "retried", "established"}]
      /\ token \in [Clients -> Addrs \cup {NoToken}] /\ unsent \in [Clients -> BOOLEAN]
  BY DEF IInv, StateOK, BoxesOK
<1>3. loop[c] = "read" /\ UNCHANGED <<faults, addr, loop, srvBox, net, list, subscribed>>
  BY DEF ClientRecv, server
<1>4. \A b \in Clients : inbox'[b] \subseteq inbox[b] /\ (b # c => inbox'[b] = inbox[b])
  BY <1>1, <1>2
<1>5. \A b \in Clients : b # c =>
        conn'[b] = conn[b] /\ token'[b] = token[b] /\ unsent'[b] = unsent[b]
  BY <1>1, <1>2
<1>6. p.kind = "handshake" => p = Answer("handshake", c)
  BY <1>2, AnswerParts
<1>7. p.kind = "handshake" => list[d] # "absent"
  BY <1>6 DEF ProgressInv, StagesOK, ForClient
<1>8. unsent'[c] => loop[c] = "read"
  BY <1>3
<1>9. StagesOK'
  <2> SUFFICES ASSUME NEW b \in Clients
               PROVE  /\ unsent'[b] => loop[b] = "read"
                      /\ ForClient(b, Answer("handshake", b))' => list[Sign(Own(b))] # "absent"
                      /\ conn'[b] = "initial" \/ (conn'[b] = "retried" /\ unsent'[b]) =>
                           /\ list[Sign(Own(b))] = "absent"
                           /\ \A q \in net \cup srvBox :
                                q.kind = "initial" /\ q.dcid[1] = b => q.token = NoToken
    BY <1>3 DEF StagesOK
  <2>1. unsent'[b] => loop[b] = "read"
    BY <1>3, <1>5 DEF ProgressInv, StagesOK
  <2>2. ForClient(b, Answer("handshake", b))' => ForClient(b, Answer("handshake", b))
    BY <1>3, <1>4 DEF ForClient
  <2>3. conn'[b] = "initial" \/ (conn'[b] = "retried" /\ unsent'[b]) =>
          conn[b] = "initial" \/ (conn[b] = "retried" /\ unsent[b])
    BY <1>1, <1>2, <1>5
  <2> QED
    BY <2>1, <2>2, <2>3 DEF ProgressInv, StagesOK
<1>10. ASSUME faults = {} PROVE AddressesKept'
  <2>1. p.kind = "retry" => p.token = addr[c]
    BY <1>10 DEF ProgressInv, AddressesKept
  <2>2. \A b \in Clients : conn'[b] # "initial" => token'[b] = addr[b]
    <3>1. conn'[c] # "initial" => token'[c] = addr[c]
      BY <1>1, <1>2, <1>10, <2>1 DEF ProgressInv, AddressesKept
    <3> QED
      BY <1>5, <1>10, <3>1 DEF ProgressInv, AddressesKept
  <2> QED
    BY <1>3, <1>4, <1>10, <2>2 DEF ProgressInv, AddressesKept
<1>11. ASSUME faults = {} PROVE NothingStalls'
  <2> SUFFICES ASSUME NEW b \in Clients, Sign(Own(b)) \notin subscribed
               PROVE  Proceeds(b)'
    BY <1>3 DEF NothingStalls
  <2>1. Proceeds(b)
    BY <1>11 DEF ProgressInv, NothingStalls
  <2>2. CASE b # c
    BY <1>3, <1>4, <1>5, <2>1, <2>2, StageStays DEF ForServer, ForClient
  <2>3. CASE b = c /\ p.kind = "retry" /\ conn[c] = "initial"
    <3>1. list[d] = "absent" /\ conn'[c] = "retried" /\ unsent'[c]
      BY <1>1, <1>2, <2>3 DEF ProgressInv, StagesOK
    <3> QED
      BY <1>3, <2>3, <3>1 DEF Proceeds, Returning
  <2>4. CASE b = c /\ p.kind = "handshake" /\ conn[c] = "retried"
    <3>1. conn'[c] = "established" /\ unsent'[c]
      BY <1>1, <1>2, <2>4
    <3>2. list[d] = "handshake"
      BY <1>7, <2>1, <2>4 DEF Proceeds, Asking, Returning, LetIn, Requesting
    <3> QED
      BY <1>3, <2>4, <3>1, <3>2 DEF Proceeds, Requesting
  <2>5. CASE /\ b = c
             /\ ~(p.kind = "retry" /\ conn[c] = "initial")
             /\ ~(p.kind = "handshake" /\ conn[c] = "retried")
    <3>1. UNCHANGED <<conn, token, unsent>>
      BY <1>1, <2>5
    <3>2. \A q \in ToClient : q # p /\ ForClient(c, q) => ForClient(c, q)'
      BY <1>1, <1>2, <1>3 DEF ForClient
    <3>3. Retry(c, addr[c]).kind = "retry" /\ Retry(c, addr[c]) \in ToClient
          /\ Answer("handshake", c).kind = "handshake" /\ Answer("handshake", c) \in ToClient
      BY PacketParts DEF IInv, StateOK
    <3>4. CASE Asking(c)
      <4>1. p # Retry(c, addr[c])
        BY <2>5, <3>3, <3>4 DEF Asking
      <4>2. Asking(c)'
        BY <1>3, <3>1, <3>2, <3>3, <3>4, <4>1 DEF Asking, ForServer
      <4> QED
        BY <2>5, <4>2 DEF Proceeds
    <3>5. CASE Returning(c)
      BY <1>3, <2>5, <3>1, <3>5 DEF Proceeds, Returning, ForServer
    <3>6. CASE LetIn(c)
      <4>1. p # Answer("handshake", c)
        BY <2>5, <3>3, <3>6 DEF LetIn
      <4>2. LetIn(c)'
        BY <1>3, <3>1, <3>2, <3>3, <3>6, <4>1 DEF LetIn
      <4> QED
        BY <2>5, <4>2 DEF Proceeds
    <3>7. CASE Requesting(c)
      BY <1>3, <2>5, <3>1, <3>7 DEF Proceeds, Requesting, ForServer
    <3> QED
      BY <2>1, <2>5, <3>4, <3>5, <3>6, <3>7 DEF Proceeds
  <2> QED
    BY <2>2, <2>3, <2>4, <2>5
<1> QED
  BY <1>3, <1>9, <1>10, <1>11 DEF ProgressInv, NothingStalls

(* What a client has to send goes out, with its token or as its request.   *)
LEMMA FlushProgress ==
  ASSUME IInv, ProgressInv, NEW c \in Clients, ClientFlush(c), UNCHANGED faults
  PROVE  ProgressInv'
<1> DEFINE d == Sign(Own(c))
<1>0. PICK q : q = IF conn[c] = "established" THEN Request(d) ELSE Initial(d, token[c], addr[c])
  OBVIOUS
<1>1. /\ UNCHANGED <<addr, conn, token, inbox, srvBox, list, subscribed>>
      /\ unsent' = [unsent EXCEPT ![c] = FALSE]
      /\ loop' = [loop EXCEPT ![c] = "poll"] /\ loop[c] = "read"
  BY DEF ClientFlush, boxes, server
<1>2. /\ net' = net \/ (unsent[c] /\ net' = net \cup {q})
      /\ faults = {} /\ unsent[c] => net' = net \cup {q}
  BY <1>0 DEF ClientFlush, Send
<1>3. /\ unsent \in [Clients -> BOOLEAN] /\ loop \in [Clients -> {"new", "poll", "read"}]
      /\ addr[c] \in Addrs /\ token[c] \in Addrs \cup {NoToken} /\ d \in Ids /\ d[1] = c
      /\ \A b \in Clients : Sign(Own(b))[1] = b
  BY IdParts DEF IInv, StateOK
<1>4. q \in ToServer /\ q.dcid = d
      /\ (q.kind = "initial" => q.token = token[c] /\ q.from = addr[c])
      /\ q.kind \in {"initial", "request"}
  <2>1. CASE conn[c] = "established"
    <3>1. q = Request(d)
      BY <1>0, <2>1
    <3>2. q \in ToServer /\ q.dcid = d /\ q.kind = "request"
      BY <1>3, <3>1, PacketParts
    <3> QED
      BY <3>2
  <2>2. CASE conn[c] # "established"
    <3>1. q = Initial(d, token[c], addr[c])
      BY <1>0, <2>2
    <3>2. /\ q \in ToServer /\ q.dcid = d /\ q.kind = "initial"
          /\ q.token = token[c] /\ q.from = addr[c]
      <4>1. ASSUME NEW e \in Ids, NEW t \in Addrs \cup {NoToken}, NEW a \in Addrs
            PROVE  /\ Initial(e, t, a) \in ToServer /\ Initial(e, t, a).kind = "initial"
                   /\ Initial(e, t, a).dcid = e /\ Initial(e, t, a).token = t
                   /\ Initial(e, t, a).from = a
        BY PacketParts
      <4> HIDE DEF d
      <4> QED
        BY <1>3, <3>1, <4>1
    <3> QED
      BY <3>2
  <2> QED
    BY <2>1, <2>2
<1>5. ~unsent'[c] /\ \A b \in Clients : b # c => unsent'[b] = unsent[b] /\ loop'[b] = loop[b]
  BY <1>1, <1>3
<1>6. StagesOK'
  <2> SUFFICES ASSUME NEW b \in Clients
               PROVE  /\ unsent'[b] => loop'[b] = "read"
                      /\ ForClient(b, Answer("handshake", b))' => list[Sign(Own(b))] # "absent"
                      /\ conn[b] = "initial" \/ (conn[b] = "retried" /\ unsent'[b]) =>
                           /\ list[Sign(Own(b))] = "absent"
                           /\ \A p \in net' \cup srvBox :
                                p.kind = "initial" /\ p.dcid[1] = b => p.token = NoToken
    BY <1>1 DEF StagesOK
  <2>1. unsent'[b] => loop'[b] = "read"
    BY <1>5 DEF ProgressInv, StagesOK
  <2>2. q # Answer("handshake", b)
    BY <1>4, PacketParts
  <2>3. ForClient(b, Answer("handshake", b))' => ForClient(b, Answer("handshake", b))
    BY <1>1, <1>2, <2>2 DEF ForClient
  <2>4. CASE b = c
    <3>1. conn[c] = "initial" => ~unsent[c]
      BY DEF IInv, TokensOK
    <3>2. conn[c] = "initial" => net' = net
      BY <1>2, <3>1
    <3> QED
      BY <1>1, <1>5, <2>1, <2>3, <2>4, <3>2 DEF ProgressInv, StagesOK
  <2>5. CASE b # c
    <3>1. \A p \in net' \cup srvBox : p.dcid[1] = b => p \in net \cup srvBox
      BY <1>2, <1>3, <1>4, <2>5
    <3>2. unsent'[b] = unsent[b]
      BY <1>5, <2>5
    <3> QED
      BY <2>1, <2>3, <3>1, <3>2 DEF ProgressInv, StagesOK
  <2> QED
    BY <2>4, <2>5
<1>7. ASSUME faults = {} PROVE AddressesKept'
  <2>1. unsent[c] => token[c] = addr[c]
    BY <1>7 DEF IInv, TokensOK, ProgressInv, AddressesKept
  <2>2. unsent[c] /\ q.kind = "initial" =>
          q.from = addr[q.dcid[1]] /\ q.token \in {NoToken, q.from}
    BY <1>3, <1>4, <2>1
  <2> QED
    BY <1>1, <1>2, <1>4, <1>7, <2>2 DEF ProgressInv, AddressesKept
<1>8. ASSUME faults = {} PROVE NothingStalls'
  <2> SUFFICES ASSUME NEW b \in Clients, Sign(Own(b)) \notin subscribed
               PROVE  Proceeds(b)'
    BY <1>1 DEF NothingStalls
  <2>1. Proceeds(b)
    BY <1>8 DEF ProgressInv, NothingStalls
  <2>2. net \subseteq net'
    BY <1>2
  <2>3. CASE b # c \/ ~unsent[c]
    <3>1. unsent'[b] = unsent[b] /\ (loop[b] = "new" => loop'[b] = "new")
      BY <1>1, <1>3, <1>5, <2>3
    <3> QED
      BY <1>1, <2>1, <2>2, <3>1, StageStays DEF ForServer, ForClient
  <2>4. CASE b = c /\ unsent[c]
    <3>1. net' = net \cup {q} /\ token[c] = addr[c] /\ conn[c] # "initial"
      BY <1>2, <1>8, <2>4 DEF IInv, TokensOK, ProgressInv, AddressesKept
    <3>2. CASE Returning(c)
      <4>1. q = Initial(d, addr[c], addr[c])
        BY <1>0, <3>1, <3>2 DEF Returning
      <4>3. ForServer(Initial(d, addr[c], addr[c]))'
        BY <1>1, <3>1, <4>1 DEF ForServer
      <4>2. Returning(c)'
        BY <1>1, <3>2, <4>3 DEF Returning
      <4> QED
        BY <2>4, <4>2 DEF Proceeds
    <3>3. CASE LetIn(c)
      BY <1>1, <2>2, <2>4, <3>3 DEF Proceeds, LetIn, ForClient
    <3>4. CASE Requesting(c)
      <4>1. ForServer(Request(d))'
        BY <1>0, <3>1, <3>4 DEF Requesting, ForServer
      <4>2. Requesting(c)'
        BY <1>1, <3>4, <4>1 DEF Requesting
      <4> QED
        BY <2>4, <4>2 DEF Proceeds
    <3> QED
      BY <2>1, <2>4, <3>1, <3>2, <3>3, <3>4 DEF Proceeds, Asking
  <2> QED
    BY <2>3, <2>4
<1> QED
  BY <1>6, <1>7, <1>8 DEF ProgressInv, NothingStalls

(* Only a network with faults moves a client.                              *)
LEMMA RebindProgress ==
  ASSUME IInv, ProgressInv, NEW c \in Clients, Rebind(c), UNCHANGED faults
  PROVE  ProgressInv'
<1>1. faults # {} /\ UNCHANGED <<loop, conn, unsent, inbox, srvBox, net, list>>
  BY DEF Rebind, boxes, server
<1> QED
  BY <1>1 DEF ProgressInv, StagesOK, ForClient, NothingStalls

(* A packet that arrives stays on its way.                                 *)
LEMMA DeliverProgress ==
  ASSUME IInv, ProgressInv, NEW p \in ToServer \cup ToClient, Deliver(p), UNCHANGED faults
  PROVE  ProgressInv'
<1>1. UNCHANGED <<client, list, subscribed>> /\ p \in net /\ net' \subseteq net
      /\ net \ {p} \subseteq net'
  BY DEF Deliver, server
<1>2. inbox \in [Clients -> SUBSET ToClient] /\ srvBox \in SUBSET ToServer
      /\ net \in SUBSET (ToServer \cup ToClient)
  BY DEF IInv, StateOK
<1>3. /\ net' \cup srvBox' \subseteq net \cup srvBox
      /\ \A q \in ToServer : ForServer(q) => ForServer(q)'
      /\ \A b \in Clients : inbox'[b] \subseteq inbox[b] \cup {q \in net : q.to = b /\ q \in ToClient}
      /\ \A b \in Clients : \A q \in ToClient : q # p \/ q.to = b =>
           (ForClient(b, q) => ForClient(b, q)')
  <2>1. CASE p.kind \in {"initial", "request"}
    <3>1. p \in ToServer /\ p \notin ToClient
      BY <2>1, ClientPackets
    <3>2. srvBox' = srvBox \cup {p} /\ UNCHANGED inbox
      BY <2>1 DEF Deliver
    <3> QED
      BY <1>1, <3>1, <3>2 DEF ForServer, ForClient
  <2>2. CASE p.kind \notin {"initial", "request"}
    <3>1. p \in ToClient /\ p.to \in Clients /\ p \notin ToServer
      BY <2>2, ServerPackets, ClientPackets
    <3>2. inbox' = [inbox EXCEPT ![p.to] = @ \cup {p}] /\ UNCHANGED srvBox
      BY <2>2 DEF Deliver
    <3>3. \A b \in Clients : inbox'[b] = IF b = p.to THEN inbox[b] \cup {p} ELSE inbox[b]
      BY <1>2, <3>1, <3>2
    <3> QED
      BY <1>1, <3>1, <3>2, <3>3 DEF ForServer, ForClient
  <2> QED
    BY <2>1, <2>2
<1>4. \A b \in Clients : /\ Answer("handshake", b).to = b /\ Answer("handshake", b) \in ToClient
                         /\ Retry(b, addr[b]).to = b /\ Retry(b, addr[b]) \in ToClient
  BY PacketParts DEF IInv, StateOK
<1>5. StagesOK'
  <2>1. \A b \in Clients :
          ForClient(b, Answer("handshake", b))' => ForClient(b, Answer("handshake", b))
    BY <1>1, <1>3 DEF ForClient
  <2> QED
    BY <1>1, <1>3, <2>1 DEF ProgressInv, StagesOK, client
<1>6. ASSUME faults = {} PROVE AddressesKept'
  BY <1>1, <1>3, <1>6 DEF ProgressInv, AddressesKept, client
<1>7. ASSUME faults = {} PROVE NothingStalls'
  <2> SUFFICES ASSUME NEW b \in Clients, Sign(Own(b)) \notin subscribed
               PROVE  Proceeds(b)'
    BY <1>1 DEF NothingStalls
  <2>1. Proceeds(b)
    BY <1>7 DEF ProgressInv, NothingStalls
  <2>2. \A q \in {Answer("handshake", b), Retry(b, addr[b])} : ForClient(b, q) => ForClient(b, q)'
    BY <1>3, <1>4
  <2>3. /\ Initial(Own(b), NoToken, addr[b]) \in ToServer
        /\ Initial(Sign(Own(b)), addr[b], addr[b]) \in ToServer
        /\ Request(Sign(Own(b))) \in ToServer
    <3>1. addr[b] \in Addrs /\ Own(b) \in Ids /\ Sign(Own(b)) \in Ids
      BY IdParts DEF IInv, StateOK
    <3> QED
      BY <3>1, PacketParts
  <2> QED
    BY <1>1, <1>3, <2>1, <2>2, <2>3 DEF Proceeds, Asking, Returning, LetIn, Requesting, client
<1> QED
  BY <1>1, <1>5, <1>6, <1>7 DEF ProgressInv, NothingStalls

(* Only a network with faults loses a packet.                              *)
LEMMA LoseProgress ==
  ASSUME IInv, ProgressInv, Lose, UNCHANGED faults
  PROVE  ProgressInv'
<1>1. faults # {} /\ UNCHANGED <<client, inbox, srvBox, list>> /\ net' \subseteq net
  BY DEF Lose, boxes, server
<1> QED
  BY <1>1 DEF ProgressInv, StagesOK, ForClient, NothingStalls, client

(* A packet of a client that is on its way and is not the one the server reads
   stays on its way.                                                       *)
LEMMA OthersStay ==
  ASSUME NEW p, srvBox' = srvBox \ {p}, net \subseteq net', UNCHANGED inbox
  PROVE  /\ \A q : q # p /\ ForServer(q) => ForServer(q)'
         /\ \A b, q : ForClient(b, q) => ForClient(b, q)'
  BY DEF ForServer, ForClient

(* The Retry goes to where the client is.                                  *)
LEMMA RetryProgress ==
  ASSUME IInv, ProgressInv, NEW p \in srvBox, srvBox' = srvBox \ {p}, ServerRetry(p),
         UNCHANGED <<client, inbox, edge, srvEdge, faults>>
  PROVE  ProgressInv'
<1>1. p \in ToServer /\ p.dcid \in Ids /\ p.dcid[1] \in Clients /\ p.from \in Addrs
      /\ p.kind = "initial" /\ p.token = NoToken
  BY ServerPackets, IdParts DEF IInv, StateOK, ServerRetry
<1>2. PICK r : r = Retry(p.dcid[1], p.from)
  OBVIOUS
<1>3. r \in ToClient /\ r.kind = "retry" /\ r.to = p.dcid[1] /\ r.token = p.from
  BY <1>1, <1>2, PacketParts
<1>4. UNCHANGED <<list, subscribed>> /\ (net' = net \/ net' = net \cup {r})
      /\ (faults = {} => net' = net \cup {r})
  BY <1>2 DEF ServerRetry
<1>5. StagesOK'
  <2>1. \A b \in Clients : r # Answer("handshake", b)
    BY <1>3, PacketParts
  <2>2. \A b \in Clients :
          ForClient(b, Answer("handshake", b))' => ForClient(b, Answer("handshake", b))
    BY <1>4, <2>1 DEF ForClient
  <2> QED
    BY <1>3, <1>4, <2>2 DEF ProgressInv, StagesOK, client
<1>6. ASSUME faults = {} PROVE AddressesKept'
  <2>1. p.from = addr[p.dcid[1]]
    BY <1>1, <1>6 DEF ProgressInv, AddressesKept
  <2> QED
    BY <1>3, <1>4, <1>6, <2>1 DEF ProgressInv, AddressesKept, client
<1>7. ASSUME faults = {} PROVE NothingStalls'
  <2> SUFFICES ASSUME NEW b \in Clients, Sign(Own(b)) \notin subscribed
               PROVE  Proceeds(b)'
    BY <1>4 DEF NothingStalls
  <2>1. Proceeds(b)
    BY <1>7 DEF ProgressInv, NothingStalls
  <2>2. \A q \in ToServer : q # p /\ ForServer(q) => ForServer(q)'
    BY <1>4, OthersStay
  <2>3. \A q : ForClient(b, q) => ForClient(b, q)'
    BY <1>4, OthersStay
  <2>4. CASE p.dcid[1] # b
    BY <1>4, <2>1, <2>2, <2>3, <2>4, StageStays DEF client
  <2>5. CASE p.dcid[1] = b
    <3>1. p.from = addr[b]
      BY <1>1, <1>7, <2>5 DEF ProgressInv, AddressesKept
    <3>2. CASE Asking(b)
      <4>1. ForClient(b, Retry(b, addr[b]))'
        BY <1>2, <1>4, <1>7, <2>5, <3>1 DEF ForClient, client
      <4>2. Asking(b)'
        BY <1>4, <3>2, <4>1 DEF Asking, client
      <4> QED
        BY <4>2 DEF Proceeds
    <3>3. addr[b] \in Addrs /\ addr[b] # NoToken /\ Sign(Own(b)) \in Ids
      BY IdParts, ConnectAssumption DEF ConnectAssumption, IInv, StateOK
    <3>4. /\ Initial(Sign(Own(b)), addr[b], addr[b]).token = addr[b]
          /\ Initial(Sign(Own(b)), addr[b], addr[b]) \in ToServer
          /\ Request(Sign(Own(b))).kind = "request"
          /\ Request(Sign(Own(b))) \in ToServer
      BY <3>3, PacketParts
    <3>5. CASE ~Asking(b)
      <4>1. p # Initial(Sign(Own(b)), addr[b], addr[b]) /\ p # Request(Sign(Own(b)))
        BY <1>1, <3>3, <3>4
      <4> QED
        BY <1>4, <2>1, <2>2, <2>3, <3>4, <3>5, <4>1
           DEF Proceeds, Returning, LetIn, Requesting, client
    <3> QED
      BY <3>2, <3>5
  <2> QED
    BY <2>4, <2>5
<1> QED
  BY <1>5, <1>6, <1>7 DEF ProgressInv, NothingStalls

(* A client that comes with its token is let in and told so.               *)
LEMMA AcceptProgress ==
  ASSUME IInv, ProgressInv, NEW p \in srvBox, srvBox' = srvBox \ {p}, ServerAccept(p),
         UNCHANGED <<client, inbox, edge, srvEdge, faults>>
  PROVE  ProgressInv'
<1>1. PICK c : c = p.dcid[1]
  OBVIOUS
<1>2. p.dcid \in Ids /\ c \in Clients /\ p.kind = "initial" /\ p.token # NoToken
      /\ p \in ToServer /\ list \in [Ids -> {"absent", "handshake", "established"}]
  BY <1>1, ServerPackets, IdParts DEF IInv, StateOK, ServerAccept
<1>3. p.dcid = Sign(Own(c)) /\ list[Sign(Own(c))] = "absent" /\ Sign(Own(c)) \in Ids
  BY <1>1, <1>2, IdParts DEF IInv, PacketsOK, PacketOK, ServerAccept, Entries
<1>4. \A b \in Clients : b # c => Sign(Own(b)) # Sign(Own(c)) /\ Sign(Own(b)) \in Ids
  BY <1>2, IdParts
<1>5. PICK r : r = Answer("handshake", c)
  OBVIOUS
<1>6. r \in ToClient /\ r.kind = "handshake" /\ r.to = c
  BY <1>2, <1>5, PacketParts
<1>7. UNCHANGED subscribed /\ (net' = net \/ net' = net \cup {r})
      /\ (Valid(p) => list' = [list EXCEPT ![Sign(Own(c))] = "handshake"])
      /\ (net' # net => Valid(p))
      /\ (Valid(p) /\ faults = {} => net' = net \cup {r})
      /\ (~Valid(p) => list' = list)
  BY <1>1, <1>3, <1>5 DEF ServerAccept, Send
<1>8. \A b \in Clients : b # c => list'[Sign(Own(b))] = list[Sign(Own(b))]
  BY <1>2, <1>3, <1>4, <1>7
<1>9. Valid(p) => list'[Sign(Own(c))] = "handshake"
  BY <1>2, <1>3, <1>7
<1>10. ~(conn[c] = "initial" \/ (conn[c] = "retried" /\ unsent[c]))
  BY <1>1, <1>2 DEF ProgressInv, StagesOK
<1>11. StagesOK'
  <2> SUFFICES ASSUME NEW b \in Clients
               PROVE  /\ unsent[b] => loop[b] = "read"
                      /\ ForClient(b, Answer("handshake", b))' => list'[Sign(Own(b))] # "absent"
                      /\ conn[b] = "initial" \/ (conn[b] = "retried" /\ unsent[b]) =>
                           /\ list'[Sign(Own(b))] = "absent"
                           /\ \A q \in net' \cup srvBox' :
                                q.kind = "initial" /\ q.dcid[1] = b => q.token = NoToken
    BY DEF StagesOK, client
  <2>1. CASE b = c
    <3>1. ForClient(c, Answer("handshake", c))' =>
            ForClient(c, Answer("handshake", c)) \/ Valid(p)
      BY <1>7 DEF ForClient
    <3>2. ForClient(c, Answer("handshake", c)) => list[Sign(Own(c))] # "absent"
      BY <1>2 DEF ProgressInv, StagesOK
    <3> QED
      BY <1>3, <1>9, <1>10, <2>1, <3>1, <3>2 DEF ProgressInv, StagesOK
  <2>2. CASE b # c
    <3>1. Answer("handshake", b).to = b
      BY PacketParts
    <3>2. ForClient(b, Answer("handshake", b))' => ForClient(b, Answer("handshake", b))
      BY <1>6, <1>7, <2>2, <3>1 DEF ForClient
    <3> QED
      BY <1>6, <1>7, <1>8, <2>2, <3>2 DEF ProgressInv, StagesOK
  <2> QED
    BY <2>1, <2>2
<1>12. ASSUME faults = {} PROVE AddressesKept'
  BY <1>6, <1>7, <1>12 DEF ProgressInv, AddressesKept, client
<1>13. ASSUME faults = {} PROVE NothingStalls'
  <2> SUFFICES ASSUME NEW b \in Clients, Sign(Own(b)) \notin subscribed
               PROVE  Proceeds(b)'
    BY <1>7 DEF NothingStalls
  <2>1. Proceeds(b)
    BY <1>13 DEF ProgressInv, NothingStalls
  <2>2. CASE b # c
    <3>1. \A q \in ToServer : q # p /\ ForServer(q) => ForServer(q)'
      BY <1>7, OthersStay
    <3>2. \A q : ForClient(b, q) => ForClient(b, q)'
      BY <1>7, OthersStay
    <3> QED
      BY <1>1, <1>8, <2>1, <2>2, <3>1, <3>2, StageStays DEF client
  <2>3. CASE b = c
    <3>1. Valid(p)
      BY <1>2, <1>13 DEF ProgressInv, AddressesKept, Valid
    <3>2. conn[c] = "retried"
      BY <1>3, <1>10, <2>1, <2>3 DEF Proceeds, Asking, Returning, LetIn, Requesting
    <3>3. ForClient(c, Answer("handshake", c))'
      BY <1>5, <1>7, <1>13, <3>1 DEF ForClient
    <3>4. LetIn(c)'
      BY <1>9, <3>1, <3>2, <3>3 DEF LetIn, client
    <3> QED
      BY <2>3, <3>4 DEF Proceeds
  <2> QED
    BY <2>2, <2>3
<1> QED
  BY <1>11, <1>12, <1>13 DEF ProgressInv, NothingStalls

(* The request of a client that was let in subscribes it.                  *)
LEMMA ServeProgress ==
  ASSUME IInv, ProgressInv, NEW p \in srvBox, srvBox' = srvBox \ {p}, ServerServe(p),
         UNCHANGED <<client, inbox, edge, srvEdge, faults>>
  PROVE  ProgressInv'
<1>1. PICK e \in Entries(p.dcid) :
        IF p.kind = "request" /\ list[e] = "handshake"
        THEN /\ list' = [list EXCEPT ![e] = "established"]
             /\ subscribed' = subscribed \cup {e}
             /\ Send(Answer("ack", e[1]))
        ELSE UNCHANGED <<list, subscribed, net>>
  BY DEF ServerServe
<1>2. p \in ToServer /\ p.dcid \in Ids /\ list \in [Ids -> {"absent", "handshake", "established"}]
  BY ServerPackets DEF IInv, StateOK
<1>3. e \in Ids /\ e[1] = p.dcid[1] /\ list[e] # "absent" /\ e[1] \in Clients
  BY <1>2, EntryKey, IdParts
<1>4. e = Sign(Own(e[1]))
  BY <1>3 DEF IInv, OneConnectionPerAttempt, Accepted
<1>5. PICK r : r = Answer("ack", e[1])
  OBVIOUS
<1>6. r \in ToClient /\ r.kind = "ack" /\ r.to = e[1]
  BY <1>3, <1>5, PacketParts
<1>7. net' = net \/ net' = net \cup {r}
  BY <1>1, <1>5 DEF Send
<1>8. \A i \in Ids : /\ list'[i] = "absent" <=> list[i] = "absent"
                     /\ list'[i] # list[i] => i \in subscribed'
  BY <1>1, <1>2, <1>3
<1>9. subscribed \subseteq subscribed'
  BY <1>1
<1>10. \A b \in Clients : Sign(Own(b)) \in Ids /\ Sign(Own(b))[1] = b
  BY IdParts
<1>11. StagesOK'
  <2>1. \A b \in Clients : r # Answer("handshake", b)
    BY <1>6, PacketParts
  <2>2. \A b \in Clients :
          ForClient(b, Answer("handshake", b))' => ForClient(b, Answer("handshake", b))
    BY <1>7, <2>1 DEF ForClient
  <2>3. \A q \in net' \cup srvBox' : q.kind = "initial" => q \in net \cup srvBox
    BY <1>6, <1>7
  <2> QED
    BY <1>8, <1>10, <2>2, <2>3 DEF ProgressInv, StagesOK, client
<1>12. ASSUME faults = {} PROVE AddressesKept'
  BY <1>6, <1>7, <1>12 DEF ProgressInv, AddressesKept, client
<1>13. ASSUME faults = {} PROVE NothingStalls'
  <2> SUFFICES ASSUME NEW b \in Clients, Sign(Own(b)) \notin subscribed'
               PROVE  Proceeds(b)'
    BY DEF NothingStalls
  <2>1. Proceeds(b) /\ list'[Sign(Own(b))] = list[Sign(Own(b))]
    BY <1>8, <1>9, <1>10, <1>13 DEF ProgressInv, NothingStalls
  <2>2. \A q \in ToServer : q # p /\ ForServer(q) => ForServer(q)'
    BY <1>7, OthersStay
  <2>3. \A q : ForClient(b, q) => ForClient(b, q)'
    BY <1>7, OthersStay
  <2>4. CASE p.dcid[1] # b
    BY <2>1, <2>2, <2>3, <2>4, StageStays DEF client
  <2>5. CASE p.dcid[1] = b
    <3>1. e = Sign(Own(b)) /\ list[Sign(Own(b))] # "absent"
      BY <1>3, <1>4, <2>5
    <3>2. CASE LetIn(b)
      BY <2>1, <2>3, <3>2 DEF Proceeds, LetIn, client
    <3>3. CASE Requesting(b)
      <4>1. Request(Sign(Own(b))) \in ToServer /\ Request(Sign(Own(b))).kind = "request"
        BY <1>10, PacketParts
      <4>2. p # Request(Sign(Own(b)))
        BY <1>1, <3>1, <3>3, <4>1 DEF Requesting
      <4>3. Requesting(b)'
        BY <2>1, <2>2, <3>3, <4>1, <4>2 DEF Requesting, client
      <4> QED
        BY <4>3 DEF Proceeds
    <3> QED
      BY <2>1, <3>1, <3>2, <3>3 DEF Proceeds, Asking, Returning
  <2> QED
    BY <2>4, <2>5
<1> QED
  BY <1>11, <1>12, <1>13 DEF ProgressInv, NothingStalls

(* What is dropped is of nobody who waits for the answer: a request is made
   to an entry.                                                            *)
LEMMA DropProgress ==
  ASSUME IInv, ProgressInv, NEW p \in srvBox, srvBox' = srvBox \ {p}, ServerDrop(p),
         UNCHANGED <<client, inbox, edge, srvEdge, faults>>
  PROVE  ProgressInv'
<1>1. UNCHANGED <<net, list, subscribed>> /\ p.kind # "initial" /\ Entries(p.dcid) = {}
  BY DEF ServerDrop, server
<1>2. StagesOK'
  BY <1>1 DEF ProgressInv, StagesOK, ForClient, client
<1>3. ASSUME faults = {} PROVE AddressesKept'
  BY <1>1, <1>3 DEF ProgressInv, AddressesKept, client
<1>4. ASSUME faults = {} PROVE NothingStalls'
  <2> SUFFICES ASSUME NEW b \in Clients, Sign(Own(b)) \notin subscribed
               PROVE  Proceeds(b)'
    BY <1>1 DEF NothingStalls
  <2>1. Proceeds(b)
    BY <1>4 DEF ProgressInv, NothingStalls
  <2>2. \A q \in ToServer : q # p /\ ForServer(q) => ForServer(q)'
    BY <1>1, OthersStay
  <2>3. \A q : ForClient(b, q) => ForClient(b, q)'
    BY <1>1, OthersStay
  <2>4. addr[b] \in Addrs /\ Own(b) \in Ids /\ Sign(Own(b)) \in Ids
    BY IdParts DEF IInv, StateOK
  <2>5. \A t \in Addrs \cup {NoToken}, i \in Ids :
          Initial(i, t, addr[b]) \in ToServer /\ Initial(i, t, addr[b]) # p
    BY <1>1, <2>4, PacketParts
  <2>6. list[Sign(Own(b))] # "absent" => p # Request(Sign(Own(b)))
    <3>1. Request(Sign(Own(b))).dcid = Sign(Own(b))
      BY <2>4, PacketParts
    <3> QED
      BY <1>1, <3>1 DEF Entries
  <2>7. Request(Sign(Own(b))) \in ToServer
    BY <2>4, PacketParts
  <2> QED
    BY <1>1, <2>1, <2>2, <2>3, <2>4, <2>5, <2>6, <2>7
       DEF Proceeds, Asking, Returning, LetIn, Requesting, client
<1> QED
  BY <1>2, <1>3, <1>4 DEF ProgressInv, NothingStalls

(* Every step keeps the strengthening.                                     *)
LEMMA ProgressStep == IInv /\ ProgressInv /\ [Next]_vars => ProgressInv'
<1> SUFFICES ASSUME IInv, ProgressInv, [Next]_vars PROVE ProgressInv'
  OBVIOUS
<1>0. UNCHANGED faults
  BY DEF Next, vars
<1>1. ASSUME NEW c \in Clients, ClientPoll(c) PROVE ProgressInv'
  <2>1. \A b \in Clients : /\ loop[b] = "new" => loop'[b] = "new"
                           /\ loop[b] = "read" => loop'[b] = "read"
    BY <1>1 DEF ClientPoll, IInv, StateOK
  <2> QED
    BY <1>0, <1>1, <2>1, TurnProgress DEF ClientPoll, server
<1>2. ASSUME NEW c \in Clients, ClientStart(c) \/ ClientRecv(c) \/ ClientFlush(c) \/ Rebind(c)
      PROVE  ProgressInv'
  BY <1>0, <1>2, StartProgress, RecvProgress, FlushProgress, RebindProgress
<1>3. CASE ServerPoll \/ ServerDrained
  BY <1>0, <1>3, TurnProgress DEF ServerPoll, ServerDrained, client, boxes
<1>4. CASE ServerTurn
  BY <1>0, <1>4, RetryProgress, AcceptProgress, ServeProgress, DropProgress DEF ServerTurn
<1>5. ASSUME NEW p \in ToServer \cup ToClient, Deliver(p) PROVE ProgressInv'
  BY <1>0, <1>5, DeliverProgress
<1>6. CASE Lose
  BY <1>0, <1>6, LoseProgress
<1>7. CASE UNCHANGED vars
  BY <1>7, TurnProgress DEF vars, parts, client, boxes, server
<1> QED
  BY <1>1, <1>2, <1>3, <1>4, <1>5, <1>6, <1>7 DEF Next, Step

(* On a network without faults there is at any time, for each client without a
   subscription, a packet under way or yet to be sent that brings it nearer:
   that nobody calls on_timeout() costs nothing there, however many clients
   ask at once.                                                            *)
THEOREM SomethingIsUnderWay == Spec => []NothingStalls
<1>1. ProgressInv => NothingStalls
  BY DEF ProgressInv
<1> QED
  BY <1>1, Inductive, ProgressInit, ProgressStep, PTL DEF Spec

==============================================================================
