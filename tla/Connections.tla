---------------------------- MODULE Connections ----------------------------
(***************************************************************************)
(* The connections to peers between the two threads that share them:       *)
(* p2p/manager.py and p2p/connection.py, whose loop runs in the network    *)
(* thread, p2p/main.py and the handshake and ping callbacks in the main    *)
(* thread, the main loop of __init__.py with the requests of rpc/main.py   *)
(* it handles in between, and its shutdown.                                *)
(*                                                                         *)
(* A step of a thread is what the other cannot get in between of with any  *)
(* effect: the look whether a connection is there and its lookup, verack,  *)
(* the pong callback and the network thread's stop take several, the rest  *)
(* one each.  Time is kept as the two timeouts of 120 seconds cut it.      *)
(***************************************************************************)
EXTENDS Integers, FiniteSets, SequencesExt

CONSTANTS
    MaxIds,         \* bound: connections made
    MaxConnections, \* connection_num, and bound: connections at a time
    MaxData,        \* bound: address messages a connection brings
    MaxRequests     \* bound: RPC requests

ASSUME ConnectionsAssumption == {MaxIds, MaxConnections, MaxData, MaxRequests} \subseteq Nat

VARIABLES
    \* main thread
    pc,                 \* the part of Node.run it is in
    budget,             \* rounds left of the for loop it is in
    current,            \* the message being handled
    terminate_flag,
    \* network thread
    net,                \* "running", "spinning" in random_address, "stopped"
    stop_requested,     \* loop.stop has been scheduled
    closing,            \* the connection it is half way through stopping, 0 if none
    \* shared
    connections,        \* P2pManager.connections
    sockets,            \* the connections whose socket is neither closed nor reset
    last_connection_id,
    handshake_messages, messages, rpc_messages,
    peer_db,            \* addresses known: "empty", "unreachable" (none that
                        \* random_address can return), "reachable"
    requests            \* external: the RPC requests made

mainVars == <<pc, budget, current, terminate_flag>>
netVars == <<net, stop_requested, closing>>
connVars == <<connections, sockets, last_connection_id>>
queueVars == <<handshake_messages, messages, rpc_messages>>
vars == <<mainVars, netVars, connVars, queueVars, peer_db, requests>>

Ids == 1 .. MaxIds

Handshake == <<"version", "wtxidrelay", "verack">>

NoMessage == [type |-> "none", id |-> 0, nonce |-> 0]

(* The RPC requests that change something of all this. *)
Requests == {"ping", "stop"}

(* A connection.  silent: nothing was received for 120 seconds.            *)
(* ping_sent: 0 no ping is unanswered, 1 one is, 2 for over 120 seconds.   *)
(* External: how many messages its peer has sent, the nonces the peer has  *)
(* yet to send back.                                                       *)
NewConnection ==
    [status |-> "Open", version_message |-> FALSE, wtxidrelay_received |-> FALSE,
     silent |-> FALSE, ping_sent |-> 0, ping_nonce |-> 0, sent |-> 0, pings |-> <<>>]

Is(c, status) == c \in DOMAIN connections /\ connections[c].status = status

Live(c) == c \in sockets /\ connections[c].status # "Closed"

(* The nonces that are still to come back from c, those in the queue and   *)
(* in the message at hand included.                                        *)
Unanswered(c) ==
    ToSet(connections[c].pings)
        \cup {m.nonce : m \in {x \in ToSet(messages) \cup {current} :
                                   x.type = "pong" /\ x.id = c}}

(* send_ping: a new nonce takes the place of one still unanswered. *)
Pinged(c) ==
    LET nonce == Min(1 .. Cardinality(Unanswered(c)) + 1 \ Unanswered(c))
    IN  [connections[c] EXCEPT !.ping_sent = 1, !.ping_nonce = nonce,
                               !.pings = IF c \in sockets THEN Append(@, nonce) ELSE @]

PingAll(S) ==
    connections' = [c \in DOMAIN connections |-> IF c \in S THEN Pinged(c) ELSE connections[c]]

(* Mutant: the socket is left open. *)
StopUnclosed(S) ==
    /\ connections' = [c \in DOMAIN connections |->
                          IF c \in S THEN [connections[c] EXCEPT !.status = "Closed"]
                          ELSE connections[c]]
    /\ UNCHANGED sockets

(* Connection.stop *)
StopAll(S) ==
    /\ connections' = [c \in DOMAIN connections |->
                          IF c \in S THEN [connections[c] EXCEPT !.status = "Closed"]
                          ELSE connections[c]]
    /\ sockets' = sockets \ S
-----------------------------------------------------------------------------
(* The main thread: Node.run.                                              *)

(* int(log2(n + 1)) of n messages are handled in a round: as many as there *)
(* are powers of two above 1 and up to n + 1.                              *)
Share(queue) == Cardinality({k \in 1 .. Len(queue) : 2^k <= Len(queue) + 1})

GoTo(label, rounds) == pc' = label /\ budget' = rounds

(* Done with the message. *)
Return(label) == pc' = label /\ current' = NoMessage

(* The check that the connection of a message is there, by itself. *)
LookFor(msg, label) ==
    IF msg.id \in DOMAIN connections THEN pc' = label /\ current' = msg
    ELSE UNCHANGED <<pc, current>>

(* The lookup that follows: nothing catches the KeyError if the network    *)
(* thread has removed the connection in between, and the thread ends.      *)
LookupFails ==
    /\ current.id \notin DOMAIN connections
    /\ Return("dead")
    /\ UNCHANGED <<connections, sockets>>

(* The callbacks.  Any version message may be refused; verack first looks  *)
(* whether the messages before it have come.                               *)
Version(c) ==
    /\ \/ StopAll({c})
       \/ /\ connections' = [connections EXCEPT ![c].version_message = TRUE]
          /\ UNCHANGED sockets
    /\ Return("handshake")

Wtxidrelay(c) ==
    /\ connections' = [connections EXCEPT ![c].wtxidrelay_received = TRUE]
    /\ UNCHANGED sockets
    /\ Return("handshake")

Verack(c) ==
    IF connections[c].version_message /\ connections[c].wtxidrelay_received
    THEN pc' = "verack" /\ UNCHANGED <<current, connections, sockets>>
    ELSE StopAll({c}) /\ Return("handshake")

TakeHandshake ==
    /\ pc = "handshake"
    /\ handshake_messages # <<>>
    /\ handshake_messages' = Tail(handshake_messages)
    /\ LookFor(Head(handshake_messages), "found_handshake")
    /\ UNCHANGED <<budget, terminate_flag, netVars, connVars, messages, rpc_messages,
                   peer_db, requests>>

(* A handshake message over a connection that is through with it ends it. *)
HandleHandshake ==
    LET c == current.id
    IN  /\ pc = "found_handshake"
        /\ \/ LookupFails
           \/ Is(c, "Open") /\ \/ current.type = "version" /\ Version(c)
                               \/ current.type = "wtxidrelay" /\ Wtxidrelay(c)
                               \/ current.type = "verack" /\ Verack(c)
           \/ /\ Is(c, "Connected") \/ Is(c, "Closed")
              /\ StopAll(IF Is(c, "Connected") THEN {c} ELSE {})
              /\ Return("handshake")
        /\ UNCHANGED <<budget, terminate_flag, netVars, last_connection_id, queueVars,
                       peer_db, requests>>

(* The rest of verack: the network thread may have stopped the connection  *)
(* since its status was looked at, or forgotten it.                        *)
SetConnected ==
    /\ pc = "verack"
    /\ pc' = "getpeername"
    /\ connections' = [c \in DOMAIN connections |->
                          IF c = current.id THEN [Pinged(c) EXCEPT !.status = "Connected"]
                          ELSE connections[c]]
    /\ UNCHANGED <<budget, current, terminate_flag, netVars, sockets, last_connection_id,
                   queueVars, peer_db, requests>>

(* Its last line logs the peer's name: the exception for a socket already  *)
(* closed or reset makes handle_p2p_handshake stop the connection.         *)
LogPeerName ==
    /\ pc = "getpeername"
    /\ Return("handshake")
    /\ StopAll({current.id} \ sockets)
    /\ UNCHANGED <<budget, terminate_flag, netVars, last_connection_id, queueVars,
                   peer_db, requests>>

EndHandshakes ==
    /\ pc = "handshake"
    /\ handshake_messages = <<>>
    /\ GoTo("rpc", Share(rpc_messages))
    /\ UNCHANGED <<current, terminate_flag, netVars, connVars, queueVars, peer_db, requests>>

(* handle_rpc.  A message is a list of requests, and the last decides how  *)
(* it ends: if it is missing or not an object the exception ends the       *)
(* thread, and so does the one of send_and_wait, before stop, if the       *)
(* client has hung up.                                                     *)
HandleRpc ==
    LET request == Head(rpc_messages)
    IN  /\ pc = "rpc"
        /\ budget > 0
        /\ rpc_messages' = Tail(rpc_messages)
        /\ \/ /\ GoTo(pc, budget - 1)
              /\ terminate_flag' = (terminate_flag \/ request = "stop")
           \/ /\ GoTo("dead", budget - 1)
              /\ UNCHANGED terminate_flag
        /\ PingAll(IF request = "ping" THEN DOMAIN connections ELSE {})
        /\ UNCHANGED <<current, netVars, sockets, last_connection_id, handshake_messages,
                       messages, peer_db, requests>>

EndRequests ==
    /\ pc = "rpc"
    /\ budget = 0
    /\ GoTo("messages", Share(messages))
    /\ UNCHANGED <<current, terminate_flag, netVars, connVars, queueVars, peer_db, requests>>

Answers(c, nonce) == connections[c].ping_sent # 0 /\ connections[c].ping_nonce = nonce

(* Mutant: the pong does not clear the ping. *)
PongUncleared(c, nonce) ==
    /\ StopAll(IF connections[c].ping_sent # 0 /\ ~ Answers(c, nonce) THEN {c} ELSE {})
    /\ Return("messages")

(* The pong callback clears ping_sent, and then, in EndPong, ping_nonce. *)
Pong(c, nonce) ==
    IF Answers(c, nonce)
    THEN /\ connections' = [connections EXCEPT ![c].ping_sent = 0]
         /\ pc' = "pong"
         /\ UNCHANGED <<current, sockets>>
    ELSE /\ StopAll(IF connections[c].ping_sent # 0 THEN {c} ELSE {})
         /\ Return("messages")

EndPong ==
    /\ pc = "pong"
    /\ Return("messages")
    /\ connections' = [c \in DOMAIN connections |->
                          IF c = current.id THEN [connections[c] EXCEPT !.ping_nonce = 0]
                          ELSE connections[c]]
    /\ UNCHANGED <<budget, terminate_flag, netVars, sockets, last_connection_id, queueVars,
                   peer_db, requests>>

(* add_addresses of an addr or addrv2 message. *)
AddAddresses(netid) ==
    peer_db' = IF netid = "ipv4" \/ peer_db = "reachable" THEN "reachable" ELSE "unreachable"

TakeMessage ==
    /\ pc = "messages"
    /\ budget > 0
    /\ budget' = budget - 1
    /\ messages' = Tail(messages)
    /\ LookFor(Head(messages), "found_message")
    /\ UNCHANGED <<terminate_flag, netVars, connVars, handshake_messages, rpc_messages,
                   peer_db, requests>>

(* handle_p2p: a message of a connection not through the handshake ends it. *)
HandleP2p ==
    LET c == current.id
    IN  /\ pc = "found_message"
        /\ \/ LookupFails
           \/ Is(c, "Connected") /\ current.type = "pong" /\ Pong(c, current.nonce)
           \/ /\ c \in DOMAIN connections
              /\ ~ (Is(c, "Connected") /\ current.type = "pong")
              /\ StopAll(IF Is(c, "Open") THEN {c} ELSE {})
              /\ Return("messages")
        /\ IF Is(c, "Connected") /\ current.type # "pong" THEN AddAddresses(current.type)
           ELSE UNCHANGED peer_db
        /\ UNCHANGED <<budget, terminate_flag, netVars, last_connection_id, queueVars, requests>>

(* download_manager.step and update_chain: a late connection may be        *)
(* stopped, or all of them at the end of the sync, or an exception ends    *)
(* the loop.                                                               *)
Work ==
    /\ pc = "messages"
    /\ budget = 0
    /\ \E S \in {{}, DOMAIN connections} \cup {{c} : c \in DOMAIN connections} : StopAll(S)
    /\ pc' \in {"stop"} \cup (IF terminate_flag THEN {} ELSE {"handshake"})
    /\ UNCHANGED <<budget, current, terminate_flag, netVars, last_connection_id, queueVars,
                   peer_db, requests>>

(* Mutant: the loop is not told to stop. *)
StopUnscheduled == UNCHANGED stop_requested

ScheduleStop == stop_requested' = TRUE

(* P2pManager.stop up to its wait for the loop. *)
StopManager ==
    /\ pc = "stop"
    /\ pc' = "wait"
    /\ ScheduleStop
    /\ StopAll(DOMAIN connections)
    /\ UNCHANGED <<budget, current, terminate_flag, net, closing, last_connection_id, queueVars,
                   peer_db, requests>>

(* The rest of it, RpcManager.stop and the closing of the databases. *)
CloseAll ==
    /\ pc = "wait"
    /\ net = "stopped"
    /\ pc' = "closed"
    /\ UNCHANGED <<budget, current, terminate_flag, netVars, connVars, queueVars, peer_db,
                   requests>>

Main ==
    \/ TakeHandshake \/ HandleHandshake \/ SetConnected \/ LogPeerName \/ EndHandshakes
    \/ HandleRpc \/ EndRequests
    \/ TakeMessage \/ HandleP2p \/ EndPong
    \/ Work \/ StopManager \/ CloseAll
-----------------------------------------------------------------------------
(* The network thread.                                                     *)

NetReady == net = "running" /\ closing = 0

(* create_connection: accepted, or dialled by manage_connections if there  *)
(* are few.                                                                *)
CreateConnection(dialled) ==
    LET c == last_connection_id + 1
    IN  /\ NetReady
        /\ c \in Ids
        /\ Cardinality(DOMAIN connections) < MaxConnections
        /\ dialled => peer_db = "reachable"
        /\ last_connection_id' = c
        /\ connections' = [d \in DOMAIN connections \cup {c} |->
                              IF d = c THEN NewConnection ELSE connections[d]]
        /\ sockets' = sockets \cup {c}
        /\ UNCHANGED <<mainVars, netVars, queueVars, peer_db, requests>>

(* manage_connections asks for an address when none can be returned. *)
SpinForAddress ==
    /\ NetReady
    /\ Cardinality(DOMAIN connections) < MaxConnections
    /\ peer_db = "unreachable"
    /\ net' = "spinning"
    /\ UNCHANGED <<mainVars, stop_requested, closing, connVars, queueVars, peer_db, requests>>

(* It draws again and again from the addresses known by then.  What it does *)
(* with the one found is CreateConnection, or nothing.                     *)
FindAddress ==
    /\ net = "spinning"
    /\ peer_db = "reachable"
    /\ net' = "running"
    /\ UNCHANGED <<mainVars, stop_requested, closing, connVars, queueVars, peer_db, requests>>

(* parse_messages puts what a peer sends in the queue it belongs to: its   *)
(* handshake messages, in order; the answer to a ping, at the front; other *)
(* messages once it has heard our verack.                                  *)
ReceiveHandshake(c) ==
    /\ connections[c].sent < Len(Handshake)
    /\ handshake_messages' =
           Append(handshake_messages,
                  [type |-> Handshake[connections[c].sent + 1], id |-> c, nonce |-> 0])
    /\ connections' = [connections EXCEPT ![c].sent = @ + 1, ![c].silent = FALSE]
    /\ UNCHANGED messages

ReceivePong(c) ==
    /\ connections[c].pings # <<>>
    /\ messages' = <<[type |-> "pong", id |-> c, nonce |-> Head(connections[c].pings)]>> \o messages
    /\ connections' = [connections EXCEPT ![c].pings = Tail(@), ![c].silent = FALSE]
    /\ UNCHANGED handshake_messages

ReceiveAddresses(c, netid) ==
    /\ connections[c].sent - Len(Handshake) \in 0 .. MaxData - 1
    /\ connections[c].version_message
    /\ messages' = Append(messages, [type |-> netid, id |-> c, nonce |-> 0])
    /\ connections' = [connections EXCEPT ![c].sent = @ + 1, ![c].silent = FALSE]
    /\ UNCHANGED handshake_messages

Receive(c) ==
    /\ NetReady
    /\ Live(c)
    /\ \/ ReceiveHandshake(c) \/ ReceivePong(c)
       \/ \E netid \in {"ipv4", "ipv6"} : ReceiveAddresses(c, netid)
    /\ UNCHANGED <<mainVars, netVars, sockets, last_connection_id, rpc_messages, peer_db,
                   requests>>

(* The peer hangs up, or sends what cannot be parsed: stop, of which the   *)
(* status is set first and the socket closed last.                         *)
BeginStop(c) ==
    /\ NetReady
    /\ Live(c)
    /\ connections' = [connections EXCEPT ![c].status = "Closed"]
    /\ closing' = c
    /\ UNCHANGED <<mainVars, net, stop_requested, sockets, last_connection_id, queueVars,
                   peer_db, requests>>

EndStop ==
    /\ closing # 0
    /\ sockets' = sockets \ {closing}
    /\ closing' = 0
    /\ UNCHANGED <<mainVars, net, stop_requested, connections, last_connection_id, queueVars,
                   peer_db, requests>>

(* The exception of a connection reset by the peer ends the task and       *)
(* nothing else: run does not catch it, and nobody is told.                *)
Reset(c) ==
    /\ NetReady
    /\ Live(c)
    /\ sockets' = sockets \ {c}
    /\ UNCHANGED <<mainVars, netVars, connections, last_connection_id, queueVars, peer_db,
                   requests>>

(* Mutant: a connection is removed without being stopped. *)
PopConnection(c) ==
    /\ connections' = Restrict(connections, DOMAIN connections \ {c})
    /\ UNCHANGED sockets

RemoveConnection(c) ==
    /\ connections' = Restrict(connections, DOMAIN connections \ {c})
    /\ sockets' = sockets \ {c}

(* Mutant: a ping that is never answered has no consequence. *)
OverdueByStatus(c) == Is(c, "Closed")

Overdue(c) == Is(c, "Closed") \/ (connections[c].silent /\ connections[c].ping_sent = 2)

(* What manage_connections does about c: a closed connection is removed, a *)
(* silent one is sent a ping, or removed if the last one was long ago.     *)
ManageConnection(c) ==
    /\ NetReady
    /\ c \in DOMAIN connections
    /\ \/ Overdue(c) /\ RemoveConnection(c)
       \/ /\ ~ Is(c, "Closed") /\ connections[c].silent /\ connections[c].ping_sent = 0
          /\ PingAll({c})
          /\ UNCHANGED sockets
    /\ UNCHANGED <<mainVars, netVars, last_connection_id, queueVars, peer_db, requests>>

(* The loop stops when it comes to the callback. *)
StopLoop ==
    /\ NetReady
    /\ stop_requested
    /\ net' = "stopped"
    /\ UNCHANGED <<mainVars, stop_requested, closing, connVars, queueVars, peer_db, requests>>

Network ==
    \/ EndStop \/ SpinForAddress \/ FindAddress \/ StopLoop
    \/ \E dialled \in BOOLEAN : CreateConnection(dialled)
    \/ \E c \in Ids : Receive(c) \/ BeginStop(c) \/ Reset(c) \/ ManageConnection(c)
-----------------------------------------------------------------------------
(* The clock, the RPC thread and signals.                                  *)

FallSilent(c) ==
    /\ net = "running" /\ c \in DOMAIN connections
    /\ ~ connections[c].silent
    /\ connections' = [connections EXCEPT ![c].silent = TRUE]
    /\ UNCHANGED <<mainVars, netVars, sockets, last_connection_id, queueVars, peer_db, requests>>

PingAges(c) ==
    /\ net = "running" /\ c \in DOMAIN connections
    /\ connections[c].ping_sent = 1
    /\ connections' = [connections EXCEPT ![c].ping_sent = 2]
    /\ UNCHANGED <<mainVars, netVars, sockets, last_connection_id, queueVars, peer_db, requests>>

Request(kind) ==
    /\ requests < MaxRequests
    /\ requests' = requests + 1
    /\ rpc_messages' = Append(rpc_messages, kind)
    /\ UNCHANGED <<mainVars, netVars, connVars, handshake_messages, messages, peer_db>>

Signal ==
    /\ ~ terminate_flag
    /\ terminate_flag' = TRUE
    /\ UNCHANGED <<pc, budget, current, netVars, connVars, queueVars, peer_db, requests>>

(* The addresses known are those the DNS servers gave. *)
Init ==
    /\ pc = "handshake" /\ budget = 0 /\ current = NoMessage /\ terminate_flag = FALSE
    /\ net = "running" /\ stop_requested = FALSE /\ closing = 0
    /\ connections = <<>> /\ sockets = {} /\ last_connection_id = 0
    /\ handshake_messages = <<>> /\ messages = <<>> /\ rpc_messages = <<>>
    /\ peer_db \in {"empty", "unreachable", "reachable"}
    /\ requests = 0

Next ==
    \/ Main \/ Network
    \/ \E c \in Ids : FallSilent(c) \/ PingAges(c)
    \/ \E kind \in Requests : Request(kind)
    \/ Signal

(* Both threads run, and time passes; peers and users need do nothing.     *)
Spec ==
    /\ Init /\ [][Next]_vars
    /\ WF_vars(Main)
    /\ WF_vars(EndStop) /\ WF_vars(FindAddress) /\ WF_vars(StopLoop)
    /\ \A c \in Ids : WF_vars(ManageConnection(c)) /\ WF_vars(FallSilent(c)) /\ WF_vars(PingAges(c))
-----------------------------------------------------------------------------
Connection ==
    [status : {"Open", "Connected", "Closed"}, version_message : BOOLEAN,
     wtxidrelay_received : BOOLEAN, silent : BOOLEAN, ping_sent : 0 .. 2, ping_nonce : Nat,
     sent : Nat, pings : Seq(Nat)]

Message(types, ids) == [type : types, id : ids, nonce : Nat]

(* Among the types: a socket that is open belongs to a connection that can *)
(* still be stopped.                                                       *)
TypeOK ==
    /\ pc \in {"handshake", "found_handshake", "verack", "getpeername", "rpc", "messages",
               "found_message", "pong", "stop", "wait", "closed", "dead"}
    /\ net \in {"running", "spinning", "stopped"}
    /\ {closing, last_connection_id} \subseteq 0 .. MaxIds
    /\ current \in Message(ToSet(Handshake) \cup {"pong", "ipv4", "ipv6"}, Ids) \cup {NoMessage}
    /\ budget \in Nat
    /\ {terminate_flag, stop_requested} \subseteq BOOLEAN
    /\ DOMAIN connections \subseteq 1 .. last_connection_id
    /\ \A c \in DOMAIN connections : connections[c] \in Connection
    /\ sockets \subseteq DOMAIN connections
    /\ handshake_messages \in Seq(Message(ToSet(Handshake), Ids))
    /\ messages \in Seq(Message({"pong", "ipv4", "ipv6"}, Ids))
    /\ rpc_messages \in Seq(Requests)
    /\ peer_db \in {"empty", "unreachable", "reachable"}
    /\ requests \in 0 .. MaxRequests

(* The pong the node waits for on a connection that works is still to      *)
(* come, whatever pings overtook each other, unless the network thread     *)
(* sent the ping while the pong before it was being handled, which leaves  *)
(* 0 for its nonce.  So a peer that answers every ping in turn is dropped  *)
(* for its pong only after such a ping, or when two of them were under way *)
(* and it answers the first.                                               *)
PongToCome ==
    \A c \in sockets :
        Live(c) /\ connections[c].ping_sent # 0 /\ connections[c].ping_nonce # 0 =>
            connections[c].ping_nonce \in Unanswered(c)

(* The network thread comes back from random_address. *)
FindsAddresses == []<>(net # "spinning")

(* A connection whose socket is gone does not stay: even if verack brings  *)
(* it back to life while the network thread stops it, if nobody was told,  *)
(* or if the main thread has ended over it.  Only the search for an        *)
(* address among none that can be returned keeps it.                       *)
DeadLeave ==
    FindsAddresses =>
        \A c \in Ids :
            (c \in DOMAIN connections \ sockets) ~> (c \notin DOMAIN connections \/ net = "stopped")

(* A stop, asked for by a signal or by a request, closes the socket of     *)
(* every connection made before the manager is stopped, wherever the       *)
(* handshake or a stop of the network thread stands, unless the main       *)
(* thread ends before that: over a broken request, an answer to a client   *)
(* that hung up, or a connection removed while it was looked up.           *)
StopDisconnects ==
    \A c \in Ids :
        (terminate_flag /\ pc \notin {"wait", "closed"} /\ c \in sockets)
            ~> (c \notin sockets \/ pc = "dead")

(* After it the manager waits for the network thread, however busy, and    *)
(* the databases are closed, unless the main thread ends in one of these   *)
(* ways or the network thread never comes back from random_address.        *)
StopEnds == FindsAddresses => (terminate_flag ~> pc \in {"closed", "dead"})
=============================================================================
