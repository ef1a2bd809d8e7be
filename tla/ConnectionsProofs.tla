-------------------------- MODULE ConnectionsProofs --------------------------
(***************************************************************************)
(* What the two threads share keeps its types, and the pong the node waits *)
(* for is still to come unless its nonce was wiped: for any number of      *)
(* connections, address messages and requests.                             *)
(***************************************************************************)
EXTENDS Connections, SequenceTheorems, FiniteSetTheorems, WellFoundedInduction, TLAPS

(* A non-empty set of numbers has a least element, which Min finds. *)
LEMMA MinFacts ==
    ASSUME NEW S \in SUBSET Nat, S # {}
    PROVE  Min(S) \in S
<1>1. PICK m \in S : \A i \in S : ~ (<<i, m>> \in OpToRel(<, Nat))
  BY WFMin, NatLessThanWellFounded
<1>2. \A i \in S : ~ (i < m)
  BY <1>1 DEF OpToRel
<1>3. \A i \in S : m <= i
  BY <1>2
<1> QED
  BY <1>3, Zenon DEF Min

(* One more number than S has elements: one of them is not in S. *)
LEMMA FreshNonce ==
    ASSUME NEW S, IsFiniteSet(S)
    PROVE  Min(1 .. Cardinality(S) + 1 \ S) \in Nat
<1> DEFINE n == Cardinality(S)
<1>1. n \in Nat
  BY FS_CardinalityType
<1>2. Cardinality(1 .. n + 1) = n + 1
  BY <1>1, FS_Interval
<1>3. ~ (1 .. n + 1 \subseteq S)
  BY <1>1, <1>2, FS_Subset
<1>4. 1 .. n + 1 \ S \in SUBSET Nat
  BY <1>1
<1> QED
  BY <1>3, <1>4, MinFacts

(* The elements of a sequence are finitely many. *)
LEMMA ElementsFinite ==
    ASSUME NEW T, NEW s \in Seq(T)
    PROVE  IsFiniteSet(ToSet(s)) /\ ToSet(s) \subseteq T
<1>1. Len(s) \in Nat /\ s \in [1 .. Len(s) -> T] /\ DOMAIN s = 1 .. Len(s)
  BY LenProperties
<1>2. s \in Surjection(1 .. Len(s), ToSet(s))
  BY <1>1 DEF Surjection, ToSet
<1>3. IsFiniteSet(1 .. Len(s))
  BY <1>1, FS_Interval
<1> QED
  BY <1>1, <1>2, <1>3, FS_Surjection DEF ToSet

LEMMA ToSetFacts ==
    ASSUME NEW T, NEW s \in Seq(T)
    PROVE  /\ \A e \in T : ToSet(Append(s, e)) = ToSet(s) \cup {e}
           /\ \A e \in T : ToSet(<<e>> \o s) = ToSet(s) \cup {e}
           /\ s # <<>> => ToSet(s) = ToSet(Tail(s)) \cup {Head(s)}
<1>1. Len(s) \in Nat /\ DOMAIN s = 1 .. Len(s)
  BY LenProperties
<1>2. ASSUME NEW e \in T PROVE ToSet(Append(s, e)) = ToSet(s) \cup {e}
  <2>1. /\ DOMAIN Append(s, e) = 1 .. Len(s) + 1
        /\ \A i \in 1 .. Len(s) : Append(s, e)[i] = s[i]
        /\ Append(s, e)[Len(s) + 1] = e
    BY <1>1, AppendProperties, LenProperties
  <2> QED
    BY <1>1, <2>1 DEF ToSet
<1>3. ASSUME NEW e \in T PROVE ToSet(<<e>> \o s) = ToSet(s) \cup {e}
  <2>1. <<e>> \in Seq(T) /\ Len(<<e>>) = 1 /\ <<e>>[1] = e
    OBVIOUS
  <2>2. /\ DOMAIN (<<e>> \o s) = 1 .. Len(s) + 1
        /\ (<<e>> \o s)[1] = e
        /\ \A i \in 1 .. Len(s) : (<<e>> \o s)[i + 1] = s[i]
    BY <1>1, <2>1, ConcatProperties, LenProperties
  <2>3. ASSUME NEW x \in ToSet(<<e>> \o s) PROVE x \in ToSet(s) \cup {e}
    <3>1. PICK j \in 1 .. Len(s) + 1 : x = (<<e>> \o s)[j]
      BY <2>2 DEF ToSet
    <3>2. j = 1 \/ (j - 1 \in 1 .. Len(s) /\ j = (j - 1) + 1)
      BY <1>1
    <3> QED
      BY <1>1, <2>2, <3>1, <3>2 DEF ToSet
  <2>4. ASSUME NEW x \in ToSet(s) \cup {e} PROVE x \in ToSet(<<e>> \o s)
    <3>1. CASE x = e
      BY <1>1, <2>2, <3>1 DEF ToSet
    <3>2. ASSUME NEW j \in 1 .. Len(s), x = s[j] PROVE x \in ToSet(<<e>> \o s)
      <4>1. j + 1 \in 1 .. Len(s) + 1 /\ (<<e>> \o s)[j + 1] = x
        BY <1>1, <2>2, <3>2
      <4> QED
        BY <2>2, <4>1, Zenon DEF ToSet
    <3> QED
      BY <1>1, <3>1, <3>2 DEF ToSet
  <2> QED
    BY <2>3, <2>4
<1>4. ASSUME s # <<>> PROVE ToSet(s) = ToSet(Tail(s)) \cup {Head(s)}
  <2>1. /\ Len(s) >= 1 /\ Head(s) = s[1]
        /\ DOMAIN Tail(s) = 1 .. Len(s) - 1
        /\ \A i \in 1 .. Len(s) - 1 : Tail(s)[i] = s[i + 1]
    BY <1>1, <1>4, HeadTailProperties, LenProperties, EmptySeq
  <2>2. ASSUME NEW x \in ToSet(s) PROVE x \in ToSet(Tail(s)) \cup {Head(s)}
    <3>1. PICK j \in 1 .. Len(s) : x = s[j]
      BY <1>1 DEF ToSet
    <3>2. j = 1 \/ (j - 1 \in 1 .. Len(s) - 1 /\ j = (j - 1) + 1)
      BY <1>1
    <3> QED
      BY <1>1, <2>1, <3>1, <3>2 DEF ToSet
  <2>3. ASSUME NEW x \in ToSet(Tail(s)) \cup {Head(s)} PROVE x \in ToSet(s)
    BY <1>1, <2>1 DEF ToSet
  <2> QED
    BY <2>2, <2>3
<1> QED
  BY <1>2, <1>3, <1>4
-----------------------------------------------------------------------------
(* A record stays one of its kind when fields of it are replaced.  The     *)
(* provers see that for arbitrary sets of values only.                     *)
RecordOf(States, Ages, Numbers, Lists) ==
    [status : States, version_message : BOOLEAN,
     wtxidrelay_received : BOOLEAN, silent : BOOLEAN, ping_sent : Ages, ping_nonce : Numbers,
     sent : Numbers, pings : Lists]

LEMMA RecordOfFacts ==
    ASSUME NEW States, NEW Ages, NEW Numbers, NEW Lists,
           NEW r \in RecordOf(States, Ages, Numbers, Lists),
           NEW s \in States, NEW a \in Ages, NEW n \in Numbers, NEW p \in Lists
    PROVE  LET R == RecordOf(States, Ages, Numbers, Lists)
           IN  /\ [r EXCEPT !.status = s] \in R
               /\ [r EXCEPT !.ping_sent = a, !.ping_nonce = n, !.pings = p] \in R
               /\ [r EXCEPT !.pings = p, !.silent = FALSE] \in R
               /\ [r EXCEPT !.sent = n, !.silent = FALSE] \in R
               /\ [r EXCEPT !.ping_sent = a] \in R
               /\ [r EXCEPT !.ping_nonce = n] \in R
               /\ [r EXCEPT !.version_message = TRUE] \in R
               /\ [r EXCEPT !.wtxidrelay_received = TRUE] \in R
               /\ [r EXCEPT !.silent = TRUE] \in R
BY DEF RecordOf

LEMMA RecordFacts ==
    ASSUME NEW r \in Connection,
           NEW s \in {"Open", "Connected", "Closed"}, NEW n \in Nat, NEW p \in Seq(Nat)
    PROVE  /\ [r EXCEPT !.status = s] \in Connection
           /\ [r EXCEPT !.ping_sent = 1, !.ping_nonce = n, !.pings = p] \in Connection
           /\ [r EXCEPT !.pings = p, !.silent = FALSE] \in Connection
           /\ [r EXCEPT !.sent = n, !.silent = FALSE] \in Connection
           /\ [r EXCEPT !.ping_sent = 0] \in Connection
           /\ [r EXCEPT !.ping_sent = 2] \in Connection
           /\ [r EXCEPT !.ping_nonce = 0] \in Connection
           /\ [r EXCEPT !.version_message = TRUE] \in Connection
           /\ [r EXCEPT !.wtxidrelay_received = TRUE] \in Connection
           /\ [r EXCEPT !.silent = TRUE] \in Connection
<1> DEFINE States == {"Open", "Connected", "Closed"}
<1>1. Connection = RecordOf(States, 0 .. 2, Nat, Seq(Nat))
  BY DEF Connection, RecordOf
<1>2. {0, 1, 2} \subseteq 0 .. 2 /\ 0 \in Nat /\ s \in States
  OBVIOUS
<1> HIDE DEF States
<1>3. \A a \in 0 .. 2, k \in Nat :
         LET R == RecordOf(States, 0 .. 2, Nat, Seq(Nat))
         IN  /\ [r EXCEPT !.status = s] \in R
             /\ [r EXCEPT !.ping_sent = a, !.ping_nonce = k, !.pings = p] \in R
             /\ [r EXCEPT !.pings = p, !.silent = FALSE] \in R
             /\ [r EXCEPT !.sent = k, !.silent = FALSE] \in R
             /\ [r EXCEPT !.ping_sent = a] \in R
             /\ [r EXCEPT !.ping_nonce = k] \in R
             /\ [r EXCEPT !.version_message = TRUE] \in R
             /\ [r EXCEPT !.wtxidrelay_received = TRUE] \in R
             /\ [r EXCEPT !.silent = TRUE] \in R
  BY <1>1, <1>2, RecordOfFacts, Zenon
<1>4. {0, 1, 2} \subseteq 0 .. 2 /\ 0 \in Nat
  OBVIOUS
<1> QED
  BY <1>1, <1>3, <1>4, Zenon

(* The nonces a connection has still to send back are finitely many, so    *)
(* send_ping finds a new one.                                              *)
LEMMA PingedFacts ==
    ASSUME TypeOK, NEW c \in DOMAIN connections
    PROVE  /\ Pinged(c) \in Connection
           /\ Pinged(c).status = connections[c].status
           /\ Pinged(c).ping_nonce \in Nat
           /\ Pinged(c).pings \in Seq(Nat)
           /\ c \in sockets => Pinged(c).ping_nonce \in ToSet(Pinged(c).pings)
           /\ ToSet(connections[c].pings) \subseteq ToSet(Pinged(c).pings)
<1> DEFINE asked == {x \in ToSet(messages) \cup {current} : x.type = "pong" /\ x.id = c}
           nonce == Min(1 .. Cardinality(Unanswered(c)) + 1 \ Unanswered(c))
<1>1. connections[c] \in Connection /\ connections[c].pings \in Seq(Nat)
  BY DEF TypeOK, Connection
<1>2. IsFiniteSet(asked)
  <2>1. IsFiniteSet(ToSet(messages))
    BY ElementsFinite DEF TypeOK
  <2>2. IsFiniteSet(ToSet(messages) \cup {current})
    BY <2>1, FS_AddElement
  <2> QED
    BY <2>2, FS_Subset
<1>3. IsFiniteSet({m.nonce : m \in asked})
  <2> DEFINE f == [m \in asked |-> m.nonce]
  <2>1. f \in Surjection(asked, {m.nonce : m \in asked})
    BY DEF Surjection
  <2> QED
    BY <1>2, <2>1, FS_Surjection
<1>4. IsFiniteSet(Unanswered(c))
  BY <1>1, <1>3, ElementsFinite, FS_Union DEF Unanswered
<1>5. nonce \in Nat
  BY <1>4, FreshNonce
<1> HIDE DEF nonce
<1> DEFINE pings == IF c \in sockets THEN Append(connections[c].pings, nonce)
                                     ELSE connections[c].pings
<1>6. Pinged(c) = [connections[c] EXCEPT !.ping_sent = 1, !.ping_nonce = nonce, !.pings = pings]
  BY DEF Pinged, nonce
<1>7. pings \in Seq(Nat)
  BY <1>1, <1>5, AppendProperties
<1>8. c \in sockets => ToSet(pings) = ToSet(connections[c].pings) \cup {nonce}
  BY <1>1, <1>5, ToSetFacts
<1>9. c \notin sockets => pings = connections[c].pings
  OBVIOUS
<1> HIDE DEF pings
<1>10. Pinged(c) \in Connection
  <2>1. "Open" \in {"Open", "Connected", "Closed"}
    OBVIOUS
  <2>2. [connections[c] EXCEPT !.ping_sent = 1, !.ping_nonce = nonce, !.pings = pings] \in Connection
    BY <1>1, <1>5, <1>7, <2>1, RecordFacts, Zenon
  <2> QED
    BY <1>6, <2>2, Zenon
<1>11. /\ Pinged(c).status = connections[c].status
       /\ Pinged(c).ping_nonce = nonce
       /\ Pinged(c).pings = pings
  BY <1>1, <1>5, <1>6, <1>7 DEF Connection
<1> QED
  BY <1>5, <1>7, <1>8, <1>9, <1>10, <1>11

(* The conjuncts of TypeOK about the connections. *)
ConnectionsOK ==
    /\ DOMAIN connections \subseteq 1 .. last_connection_id
    /\ \A c \in DOMAIN connections : connections[c] \in Connection
    /\ sockets \subseteq DOMAIN connections

(* What is still to come for one connection. *)
ToCome(c) ==
    c \in sockets /\ Live(c) /\ connections[c].ping_sent # 0 /\ connections[c].ping_nonce # 0
        => connections[c].ping_nonce \in Unanswered(c)

LEMMA ToComeFacts == PongToCome <=> \A c : ToCome(c)
BY DEF PongToCome, ToCome

LEMMA StopAllFacts ==
    ASSUME TypeOK, NEW S, StopAll(S), UNCHANGED last_connection_id
    PROVE  /\ ConnectionsOK'
           /\ DOMAIN connections' = DOMAIN connections
           /\ \A c : Live(c)' =>
                 c \in sockets /\ Live(c) /\ connections'[c] = connections[c] /\ c \notin S
<1>1. /\ DOMAIN connections' = DOMAIN connections
      /\ sockets' = sockets \ S
      /\ \A c \in DOMAIN connections :
            connections'[c] = IF c \in S THEN [connections[c] EXCEPT !.status = "Closed"]
                              ELSE connections[c]
  BY DEF StopAll
<1>2. \A c \in DOMAIN connections : connections'[c] \in Connection
  <2>1. <<>> \in Seq(Nat) /\ 0 \in Nat
    OBVIOUS
  <2> QED
    BY <1>1, <2>1, RecordFacts, Zenon DEF TypeOK
<1>3. ConnectionsOK'
  BY <1>1, <1>2 DEF TypeOK, ConnectionsOK
<1>4. sockets \subseteq DOMAIN connections
  BY DEF TypeOK
<1> QED
  BY <1>1, <1>3, <1>4 DEF Live

LEMMA PingAllFacts ==
    ASSUME TypeOK, NEW S, PingAll(S),
           UNCHANGED <<sockets, last_connection_id, messages, current>>
    PROVE  /\ ConnectionsOK'
           /\ PongToCome => PongToCome'
<1>1. /\ DOMAIN connections' = DOMAIN connections
      /\ \A c \in DOMAIN connections :
            connections'[c] = IF c \in S THEN Pinged(c) ELSE connections[c]
  BY DEF PingAll
<1>2. \A c \in DOMAIN connections : connections'[c] \in Connection
  BY <1>1, PingedFacts DEF TypeOK
<1>3. ConnectionsOK'
  BY <1>1, <1>2 DEF TypeOK, ConnectionsOK
<1>4. ASSUME PongToCome, NEW c PROVE ToCome(c)'
  <2> SUFFICES ASSUME c \in sockets PROVE ToCome(c)'
    BY DEF ToCome
  <2>1. c \in DOMAIN connections
    BY DEF TypeOK
  <2>2. CASE c \in S
    <3>1. connections'[c].ping_nonce \in ToSet(connections'[c].pings)
      BY <1>1, <2>1, <2>2, PingedFacts
    <3> QED
      BY <3>1 DEF ToCome, Unanswered
  <2>3. CASE c \notin S
    <3>1. connections'[c] = connections[c]
      BY <1>1, <2>1, <2>3
    <3>2. Unanswered(c)' = Unanswered(c) /\ Live(c)' = Live(c)
      BY <3>1 DEF Unanswered, Live
    <3> QED
      BY <1>4, <3>1, <3>2, ToComeFacts DEF ToCome
  <2> QED
    BY <2>2, <2>3
<1> QED
  BY <1>3, <1>4 DEF PongToCome, ToCome
-----------------------------------------------------------------------------
HandshakeMessages == Message(ToSet(Handshake), Ids)

Messages == Message({"pong", "ipv4", "ipv6"}, Ids)

(* The rest of TypeOK. *)
ControlOK ==
    /\ pc \in {"handshake", "found_handshake", "verack", "getpeername", "rpc", "messages",
               "found_message", "pong", "stop", "wait", "closed", "dead"}
    /\ net \in {"running", "spinning", "stopped"}
    /\ {closing, last_connection_id} \subseteq 0 .. MaxIds
    /\ current \in HandshakeMessages \cup Messages \cup {NoMessage}
    /\ budget \in Nat
    /\ {terminate_flag, stop_requested} \subseteq BOOLEAN
    /\ peer_db \in {"empty", "unreachable", "reachable"}
    /\ requests \in 0 .. MaxRequests

QueuesOK ==
    /\ handshake_messages \in Seq(HandshakeMessages)
    /\ messages \in Seq(Messages)
    /\ rpc_messages \in Seq(Requests)

LEMMA MessageFacts ==
    /\ Message(ToSet(Handshake) \cup {"pong", "ipv4", "ipv6"}, Ids) = HandshakeMessages \cup Messages
    /\ \A m \in HandshakeMessages : m.type # "pong"
    /\ NoMessage.type # "pong"
<1>1. Message(ToSet(Handshake) \cup {"pong", "ipv4", "ipv6"}, Ids) = HandshakeMessages \cup Messages
  BY DEF HandshakeMessages, Messages, Message
<1>2. ToSet(Handshake) = {"version", "wtxidrelay", "verack"}
  <2>1. DOMAIN Handshake = 1 .. 3
    BY DEF Handshake
  <2> QED
    BY <2>1 DEF Handshake, ToSet
<1> QED
  BY <1>1, <1>2 DEF HandshakeMessages, Message, NoMessage

LEMMA TypeParts == TypeOK <=> ControlOK /\ ConnectionsOK /\ QueuesOK
BY MessageFacts DEF TypeOK, ControlOK, ConnectionsOK, QueuesOK, HandshakeMessages, Messages

(* A for loop of Node.run never takes from an empty queue: the network     *)
(* thread and the RPC thread only ever add to the two.                     *)
BudgetOK ==
    /\ pc = "rpc" => budget <= Len(rpc_messages)
    /\ pc \in {"messages", "found_message", "pong"} => budget <= Len(messages)

(* A pong is at hand only while it is handled: what takes the place of the *)
(* message at hand in any other step loses none.                           *)
CurrentOK == current.type = "pong" => pc \in {"found_message", "pong"}

Inv == ControlOK /\ ConnectionsOK /\ QueuesOK /\ BudgetOK /\ CurrentOK /\ PongToCome

(* The step does not take a pong out of the main thread's hand. *)
NoPongLost == current' = current \/ current.type # "pong"

LEMMA UnansweredKept ==
    ASSUME NEW d, connections'[d].pings = connections[d].pings,
           UNCHANGED messages, NoPongLost \/ current.id # d
    PROVE  Unanswered(d) \subseteq Unanswered(d)'
BY DEF Unanswered, NoPongLost

(* The ping of each connection that still works is an old one, and what it *)
(* waits for has not been lost.                                            *)
LEMMA PongKept ==
    ASSUME PongToCome,
           \A c \in sockets' : Live(c)' =>
               /\ Live(c)
               /\ connections'[c].ping_nonce = connections[c].ping_nonce
               /\ connections'[c].ping_sent # 0 => connections[c].ping_sent # 0
               /\ Unanswered(c) \subseteq Unanswered(c)'
    PROVE  PongToCome'
<1> SUFFICES ASSUME NEW c \in sockets', Live(c)', connections'[c].ping_sent # 0,
                    connections'[c].ping_nonce # 0
             PROVE  connections'[c].ping_nonce \in Unanswered(c)'
  BY DEF PongToCome
<1>1. Live(c) /\ connections[c].ping_sent # 0 /\ connections[c].ping_nonce # 0 /\ c \in sockets
  BY DEF Live
<1>2. connections[c].ping_nonce \in Unanswered(c)
  BY <1>1 DEF PongToCome
<1> QED
  BY <1>2

LEMMA PongUntouched ==
    ASSUME PongToCome, UNCHANGED <<connections, sockets, messages>>, NoPongLost
    PROVE  PongToCome'
<1>1. \A c \in sockets : Unanswered(c) \subseteq Unanswered(c)' /\ (Live(c)' => Live(c))
  BY UnansweredKept DEF Live
<1> QED
  BY <1>1, PongKept

(* A stop leaves the connections it does not concern as they are. *)
LEMMA PongStopped ==
    ASSUME TypeOK, PongToCome, NEW S, StopAll(S), UNCHANGED <<last_connection_id, messages>>,
           NoPongLost
    PROVE  PongToCome'
<1>1. \A c \in sockets' : Live(c)' => Live(c) /\ connections'[c] = connections[c]
  BY StopAllFacts
<1>2. \A c \in sockets' : Live(c)' => Unanswered(c) \subseteq Unanswered(c)'
  BY <1>1, UnansweredKept
<1> QED
  BY <1>1, <1>2, PongKept

(* Nor does a change of a connection that leaves its ping as it is. *)
LEMMA EditFacts ==
    ASSUME Inv, NEW c \in DOMAIN connections, NEW r \in Connection,
           connections' = [connections EXCEPT ![c] = r],
           UNCHANGED <<sockets, last_connection_id, messages>>, NoPongLost,
           r.status \in {connections[c].status, "Closed"},
           r.pings = connections[c].pings, r.ping_nonce = connections[c].ping_nonce,
           r.ping_sent # 0 => connections[c].ping_sent # 0
    PROVE  ConnectionsOK' /\ PongToCome'
<1>1. ConnectionsOK'
  BY DEF Inv, ConnectionsOK
<1>2. \A d \in sockets : /\ connections'[d].status \in {connections[d].status, "Closed"}
                         /\ connections'[d].pings = connections[d].pings
                         /\ connections'[d].ping_nonce = connections[d].ping_nonce
                         /\ connections'[d].ping_sent # 0 => connections[d].ping_sent # 0
  BY DEF Inv, ConnectionsOK
<1>3. \A d \in sockets : (Live(d)' => Live(d)) /\ Unanswered(d) \subseteq Unanswered(d)'
  BY <1>2, UnansweredKept DEF Live
<1>4. PongToCome'
  BY <1>2, <1>3, PongKept DEF Inv
<1> QED
  BY <1>1, <1>4

LEMMA ShareFacts ==
    ASSUME NEW T, NEW queue \in Seq(T)
    PROVE  Share(queue) \in Nat /\ Share(queue) <= Len(queue)
<1>1. Len(queue) \in Nat
  BY LenProperties
<1>2. IsFiniteSet(1 .. Len(queue)) /\ Cardinality(1 .. Len(queue)) = Len(queue)
  BY <1>1, FS_Interval
<1> DEFINE powers == {k \in 1 .. Len(queue) : 2^k <= Len(queue) + 1}
<1>3. powers \in SUBSET (1 .. Len(queue))
  OBVIOUS
<1> HIDE DEF powers
<1>4. Cardinality(powers) <= Len(queue) /\ IsFiniteSet(powers)
  BY <1>2, <1>3, FS_Subset
<1>5. Cardinality(powers) \in Nat
  BY <1>4, FS_CardinalityType
<1> QED
  BY <1>4, <1>5 DEF Share, powers

LEMMA InitInv == Init => Inv
<1> SUFFICES ASSUME Init PROVE Inv
  OBVIOUS
<1>1. ControlOK
  <2>1. {terminate_flag, stop_requested} \subseteq BOOLEAN
    BY Zenon DEF Init
  <2>2. {closing, last_connection_id} \subseteq 0 .. MaxIds /\ requests \in 0 .. MaxRequests
    BY ConnectionsAssumption DEF Init
  <2> QED
    BY <2>1, <2>2 DEF Init, ControlOK
<1>2. ConnectionsOK
  BY DEF Init, ConnectionsOK
<1>3. QueuesOK
  BY DEF Init, QueuesOK
<1>4. BudgetOK /\ CurrentOK /\ PongToCome
  BY MessageFacts DEF Init, BudgetOK, CurrentOK, PongToCome
<1> QED
  BY <1>1, <1>2, <1>3, <1>4 DEF Inv
-----------------------------------------------------------------------------
(* The main thread. *)

(* A message is taken out of its queue; that it is forgotten if its        *)
(* connection is not there any more loses no pong of one that works.       *)
LEMMA TakeHandshakeStep ==
    ASSUME Inv, TakeHandshake
    PROVE  Inv'
<1>1. Head(handshake_messages) \in HandshakeMessages /\ Tail(handshake_messages) \in Seq(HandshakeMessages)
  BY HeadTailProperties DEF Inv, QueuesOK, TakeHandshake
<1>2. /\ pc = "handshake" /\ pc' \in {"handshake", "found_handshake"}
      /\ current' \in {current, Head(handshake_messages)}
      /\ handshake_messages' = Tail(handshake_messages)
      /\ UNCHANGED <<budget, terminate_flag, netVars, connVars, messages, rpc_messages,
                     peer_db, requests>>
  BY DEF TakeHandshake, LookFor
<1>3. current.type # "pong" /\ current'.type # "pong"
  BY <1>1, <1>2, MessageFacts DEF Inv, CurrentOK
<1>4. ControlOK'
  BY <1>1, <1>2 DEF Inv, ControlOK, netVars, connVars
<1>5. QueuesOK' /\ BudgetOK' /\ CurrentOK'
  BY <1>1, <1>2, <1>3 DEF Inv, QueuesOK, BudgetOK, CurrentOK
<1>6. ConnectionsOK'
  BY <1>2 DEF Inv, ConnectionsOK, connVars
<1>7. PongToCome'
  BY <1>2, <1>3, PongUntouched DEF Inv, NoPongLost, connVars
<1> QED
  BY <1>4, <1>5, <1>6, <1>7 DEF Inv

LEMMA HandshakeStep ==
    ASSUME Inv, HandleHandshake
    PROVE  Inv'
<1> DEFINE c == current.id
<1>1. TypeOK
  BY TypeParts DEF Inv
<1>2. /\ pc = "found_handshake" /\ pc' \in {"handshake", "verack", "dead"}
      /\ current' \in {current, NoMessage}
      /\ UNCHANGED <<budget, terminate_flag, netVars, last_connection_id, queueVars,
                     peer_db, requests>>
  BY DEF HandleHandshake, LookupFails, Return, Version, Wtxidrelay, Verack
<1>3. current.type # "pong" /\ current'.type # "pong" /\ NoPongLost
  BY <1>2, MessageFacts DEF Inv, CurrentOK, NoPongLost
<1>4. ControlOK'
  BY <1>2 DEF Inv, ControlOK, netVars
<1>5. QueuesOK' /\ BudgetOK' /\ CurrentOK'
  BY <1>2, <1>3 DEF Inv, QueuesOK, BudgetOK, CurrentOK, queueVars
<1>6. \/ \E S : StopAll(S)
      \/ UNCHANGED <<connections, sockets>>
      \/ /\ c \in DOMAIN connections /\ UNCHANGED sockets
         /\ \/ connections' = [connections EXCEPT ![c].version_message = TRUE]
            \/ connections' = [connections EXCEPT ![c].wtxidrelay_received = TRUE]
  BY Zenon DEF HandleHandshake, LookupFails, Version, Wtxidrelay, Verack, Is
<1>7. CASE \E S : StopAll(S)
  <2>1. UNCHANGED <<last_connection_id, messages>>
    BY <1>2 DEF queueVars
  <2>2. ConnectionsOK' /\ PongToCome'
    BY <1>1, <1>3, <1>7, <2>1, StopAllFacts, PongStopped, Zenon DEF Inv
  <2> QED
    BY <1>4, <1>5, <2>2 DEF Inv
<1>8. CASE UNCHANGED <<connections, sockets>>
  <2>1. ConnectionsOK'
    BY <1>2, <1>8 DEF Inv, ConnectionsOK
  <2>2. PongToCome'
    BY <1>2, <1>3, <1>8, PongUntouched DEF Inv, queueVars
  <2> QED
    BY <1>4, <1>5, <2>1, <2>2 DEF Inv
<1>9. CASE /\ c \in DOMAIN connections /\ UNCHANGED sockets
           /\ \/ connections' = [connections EXCEPT ![c].version_message = TRUE]
              \/ connections' = [connections EXCEPT ![c].wtxidrelay_received = TRUE]
  <2>1. PICK r : /\ r \in {[connections[c] EXCEPT !.version_message = TRUE],
                          [connections[c] EXCEPT !.wtxidrelay_received = TRUE]}
                 /\ connections' = [connections EXCEPT ![c] = r]
    BY <1>9, Zenon
  <2>2. r \in Connection
    <3>1. "Open" \in {"Open", "Connected", "Closed"} /\ 0 \in Nat /\ <<>> \in Seq(Nat)
      OBVIOUS
    <3>2. connections[c] \in Connection
      BY <1>9 DEF Inv, ConnectionsOK
    <3> QED
      BY <2>1, <3>1, <3>2, RecordFacts, Zenon
  <2>3. /\ r.status = connections[c].status /\ r.pings = connections[c].pings
        /\ r.ping_sent = connections[c].ping_sent /\ r.ping_nonce = connections[c].ping_nonce
    <3>1. connections[c] \in Connection
      BY <1>9 DEF Inv, ConnectionsOK
    <3> QED
      BY <2>1, <3>1 DEF Connection
  <2>4. UNCHANGED <<sockets, last_connection_id, messages>>
    BY <1>2, <1>9 DEF queueVars
  <2>5. ConnectionsOK' /\ PongToCome'
    BY <1>3, <1>9, <2>1, <2>2, <2>3, <2>4, EditFacts, Zenon
  <2> QED
    BY <1>4, <1>5, <2>5 DEF Inv
<1> QED
  BY <1>6, <1>7, <1>8, <1>9, Zenon

LEMMA SetConnectedStep ==
    ASSUME Inv, SetConnected
    PROVE  Inv'
<1>1. TypeOK
  BY TypeParts DEF Inv
<1>2. /\ pc = "verack" /\ pc' = "getpeername"
      /\ DOMAIN connections' = DOMAIN connections
      /\ \A c \in DOMAIN connections :
            connections'[c] = IF c = current.id THEN [Pinged(c) EXCEPT !.status = "Connected"]
                              ELSE connections[c]
      /\ UNCHANGED <<budget, current, terminate_flag, netVars, sockets, last_connection_id,
                     queueVars, peer_db, requests>>
  BY DEF SetConnected
<1>3. ControlOK'
  BY <1>2 DEF Inv, ControlOK, netVars
<1>4. QueuesOK' /\ BudgetOK' /\ CurrentOK'
  BY <1>2 DEF Inv, QueuesOK, BudgetOK, CurrentOK, queueVars
<1>5. \A c \in DOMAIN connections : c = current.id =>
         /\ connections'[c] \in Connection
         /\ connections'[c].ping_nonce = Pinged(c).ping_nonce
         /\ connections'[c].pings = Pinged(c).pings
  <2> SUFFICES ASSUME NEW c \in DOMAIN connections, c = current.id
               PROVE  /\ connections'[c] \in Connection
                      /\ connections'[c].ping_nonce = Pinged(c).ping_nonce
                      /\ connections'[c].pings = Pinged(c).pings
    OBVIOUS
  <2>1. Pinged(c) \in Connection
    BY <1>1, PingedFacts
  <2>2. "Connected" \in {"Open", "Connected", "Closed"} /\ 0 \in Nat /\ <<>> \in Seq(Nat)
    OBVIOUS
  <2>3. [Pinged(c) EXCEPT !.status = "Connected"] \in Connection
    BY <2>1, <2>2, RecordFacts, Zenon
  <2>4. connections'[c] = [Pinged(c) EXCEPT !.status = "Connected"]
    BY <1>2
  <2>5. connections'[c].ping_nonce = Pinged(c).ping_nonce /\ connections'[c].pings = Pinged(c).pings
    BY <2>1, <2>4 DEF Connection
  <2> QED
    BY <2>3, <2>4, <2>5
<1>6. ConnectionsOK'
  BY <1>2, <1>5 DEF Inv, ConnectionsOK
<1>7. PongToCome'
  <2> SUFFICES ASSUME NEW c \in sockets', Live(c)', connections'[c].ping_sent # 0,
                      connections'[c].ping_nonce # 0
               PROVE  connections'[c].ping_nonce \in Unanswered(c)'
    BY DEF PongToCome
  <2>1. c \in sockets /\ c \in DOMAIN connections
    BY <1>2 DEF Inv, ConnectionsOK
  <2>2. CASE c = current.id
    <3>1. connections'[c].ping_nonce \in ToSet(connections'[c].pings)
      BY <1>1, <1>5, <2>1, <2>2, PingedFacts
    <3> QED
      BY <3>1 DEF Unanswered
  <2>3. CASE c # current.id
    <3>1. connections'[c] = connections[c]
      BY <1>2, <2>1, <2>3
    <3>2. Live(c) /\ Unanswered(c)' = Unanswered(c)
      BY <1>2, <2>1, <3>1 DEF Live, Unanswered, queueVars
    <3> QED
      BY <2>1, <3>1, <3>2 DEF Inv, PongToCome
  <2> QED
    BY <2>2, <2>3
<1> QED
  BY <1>3, <1>4, <1>6, <1>7 DEF Inv

LEMMA LogPeerNameStep ==
    ASSUME Inv, LogPeerName
    PROVE  Inv'
<1>1. TypeOK
  BY TypeParts DEF Inv
<1>2. /\ pc = "getpeername" /\ pc' = "handshake" /\ current' = NoMessage
      /\ StopAll({current.id} \ sockets)
      /\ UNCHANGED <<budget, terminate_flag, netVars, last_connection_id, queueVars,
                     peer_db, requests>>
  BY DEF LogPeerName, Return
<1>3. ControlOK'
  BY <1>2 DEF Inv, ControlOK, netVars
<1>4. current.type # "pong" /\ current'.type # "pong"
  BY <1>2, MessageFacts DEF Inv, CurrentOK
<1>5. QueuesOK' /\ BudgetOK' /\ CurrentOK'
  BY <1>2, <1>4 DEF Inv, QueuesOK, BudgetOK, CurrentOK, queueVars
<1>6. UNCHANGED <<last_connection_id, messages>> /\ NoPongLost
  BY <1>2, <1>4 DEF queueVars, NoPongLost
<1>7. ConnectionsOK' /\ PongToCome'
  BY <1>1, <1>2, <1>6, StopAllFacts, PongStopped, Zenon DEF Inv
<1> QED
  BY <1>3, <1>5, <1>7 DEF Inv

LEMMA RoundStep ==
    ASSUME Inv, EndHandshakes \/ EndRequests
    PROVE  Inv'
<1>1. /\ pc \in {"handshake", "rpc"}
      /\ UNCHANGED <<current, terminate_flag, netVars, connVars, queueVars, peer_db, requests>>
      /\ \/ pc' = "rpc" /\ budget' = Share(rpc_messages)
         \/ pc' = "messages" /\ budget' = Share(messages)
  BY DEF EndHandshakes, EndRequests, GoTo
<1>2. /\ Share(rpc_messages) \in Nat /\ Share(rpc_messages) <= Len(rpc_messages)
      /\ Share(messages) \in Nat /\ Share(messages) <= Len(messages)
  BY ShareFacts DEF Inv, QueuesOK
<1>3. ControlOK'
  BY <1>1, <1>2 DEF Inv, ControlOK, netVars, connVars
<1>4. QueuesOK' /\ BudgetOK' /\ CurrentOK'
  BY <1>1, <1>2 DEF Inv, QueuesOK, BudgetOK, CurrentOK, queueVars
<1>5. ConnectionsOK'
  BY <1>1 DEF Inv, ConnectionsOK, connVars
<1>6. PongToCome'
  BY <1>1, PongUntouched DEF Inv, NoPongLost, connVars, queueVars
<1> QED
  BY <1>3, <1>4, <1>5, <1>6 DEF Inv

LEMMA HandleRpcStep ==
    ASSUME Inv, HandleRpc
    PROVE  Inv'
<1>1. TypeOK
  BY TypeParts DEF Inv
<1>2. /\ pc = "rpc" /\ budget > 0 /\ pc' \in {"rpc", "dead"} /\ budget' = budget - 1
      /\ rpc_messages' = Tail(rpc_messages)
      /\ UNCHANGED <<current, netVars, sockets, last_connection_id, handshake_messages,
                     messages, peer_db, requests>>
  BY DEF HandleRpc, GoTo
<1>3. /\ rpc_messages \in Seq(Requests) /\ Len(rpc_messages) >= 1 /\ budget <= Len(rpc_messages)
      /\ budget \in Nat
  BY <1>2 DEF Inv, QueuesOK, BudgetOK, ControlOK
<1>4. Tail(rpc_messages) \in Seq(Requests) /\ Len(Tail(rpc_messages)) = Len(rpc_messages) - 1
  BY <1>3, HeadTailProperties
<1>5. terminate_flag' \in BOOLEAN
  <2>1. terminate_flag \in BOOLEAN
    BY Zenon DEF Inv, ControlOK
  <2> QED
    BY <2>1, Zenon DEF HandleRpc
<1>6. ControlOK'
  BY <1>2, <1>3, <1>5 DEF Inv, ControlOK, netVars
<1>7. QueuesOK' /\ BudgetOK' /\ CurrentOK'
  BY <1>2, <1>3, <1>4 DEF Inv, QueuesOK, BudgetOK, CurrentOK
<1>8. ConnectionsOK' /\ PongToCome'
  BY <1>1, <1>2, PingAllFacts DEF Inv, HandleRpc
<1> QED
  BY <1>6, <1>7, <1>8 DEF Inv

(* The message taken goes from the queue into the main thread's hand. *)
LEMMA TakeMessageStep ==
    ASSUME Inv, TakeMessage
    PROVE  Inv'
<1> DEFINE msg == Head(messages)
<1>1. /\ pc = "messages" /\ budget > 0 /\ budget' = budget - 1 /\ messages' = Tail(messages)
      /\ \/ pc' = "found_message" /\ current' = msg
         \/ msg.id \notin DOMAIN connections /\ UNCHANGED <<pc, current>>
      /\ UNCHANGED <<terminate_flag, netVars, connVars, handshake_messages, rpc_messages,
                     peer_db, requests>>
  BY DEF TakeMessage, LookFor
<1>2. /\ messages \in Seq(Messages) /\ Len(messages) >= 1 /\ budget <= Len(messages)
      /\ budget \in Nat
  BY <1>1 DEF Inv, QueuesOK, BudgetOK, ControlOK
<1>3. /\ msg \in Messages /\ Tail(messages) \in Seq(Messages)
      /\ Len(Tail(messages)) = Len(messages) - 1
      /\ ToSet(messages) = ToSet(messages') \cup {msg}
  BY <1>1, <1>2, HeadTailProperties, ToSetFacts
<1>4. current.type # "pong"
  BY <1>1 DEF Inv, CurrentOK
<1> HIDE DEF msg
<1>5. ControlOK'
  BY <1>1, <1>2, <1>3 DEF Inv, ControlOK, netVars, connVars
<1>6. QueuesOK' /\ BudgetOK' /\ CurrentOK'
  BY <1>1, <1>2, <1>3, <1>4 DEF Inv, QueuesOK, BudgetOK, CurrentOK
<1>7. ConnectionsOK'
  BY <1>1 DEF Inv, ConnectionsOK, connVars
<1>8. \A d \in sockets : Unanswered(d) \subseteq Unanswered(d)'
  <2> SUFFICES ASSUME NEW d \in sockets, NEW m \in ToSet(messages) \cup {current},
                      m.type = "pong", m.id = d
               PROVE  m \in ToSet(messages') \cup {current'}
    BY <1>1 DEF Unanswered, connVars
  <2>1. d \in DOMAIN connections
    BY DEF Inv, ConnectionsOK
  <2> QED
    BY <1>1, <1>3, <1>4, <2>1
<1>9. PongToCome'
  BY <1>1, <1>8, PongKept DEF Inv, Live, connVars
<1> QED
  BY <1>5, <1>6, <1>7, <1>9 DEF Inv

(* The pong that comes is for the ping of its connection, or for none and  *)
(* the connection is ended, or no ping is unanswered.                      *)
LEMMA PongHandled ==
    ASSUME Inv, HandleP2p
    PROVE  ConnectionsOK' /\ PongToCome'
<1> DEFINE c == current.id
<1>1. TypeOK
  BY TypeParts DEF Inv
<1>2. UNCHANGED <<last_connection_id, messages>>
  BY DEF HandleP2p, queueVars
<1>3. CASE LookupFails
  <2>1. UNCHANGED <<connections, sockets>> /\ c \notin sockets
    BY <1>3 DEF LookupFails, Inv, ConnectionsOK
  <2>2. ConnectionsOK'
    BY <1>2, <2>1 DEF Inv, ConnectionsOK
  <2>3. \A d \in sockets : Unanswered(d) \subseteq Unanswered(d)' /\ (Live(d)' => Live(d))
    BY <1>2, <2>1, UnansweredKept DEF Live
  <2> QED
    BY <2>1, <2>2, <2>3, PongKept DEF Inv
<1>4. CASE Is(c, "Connected") /\ current.type = "pong" /\ Answers(c, current.nonce)
           /\ Pong(c, current.nonce)
  <2> DEFINE r == [connections[c] EXCEPT !.ping_sent = 0]
  <2>1. /\ connections' = [connections EXCEPT ![c] = r]
        /\ UNCHANGED <<sockets, current>>
    BY <1>4 DEF Pong
  <2>2. connections[c] \in Connection /\ c \in DOMAIN connections
    BY <1>4 DEF Is, Inv, ConnectionsOK
  <2>3. "Open" \in {"Open", "Connected", "Closed"} /\ 0 \in Nat /\ <<>> \in Seq(Nat)
    OBVIOUS
  <2>4. r \in Connection
    BY <2>2, <2>3, RecordFacts, Zenon
  <2>5. /\ r.status = connections[c].status /\ r.pings = connections[c].pings
        /\ r.ping_sent = 0 /\ r.ping_nonce = connections[c].ping_nonce
    BY <2>2 DEF Connection
  <2>6. /\ UNCHANGED <<sockets, last_connection_id, messages>> /\ NoPongLost
        /\ r.ping_sent # 0 => connections[c].ping_sent # 0
        /\ r.status \in {connections[c].status, "Closed"}
    BY <1>2, <2>1, <2>5 DEF NoPongLost
  <2> QED
    BY <2>1, <2>2, <2>4, <2>5, <2>6, EditFacts, Zenon
<1>5. CASE \E S : /\ StopAll(S)
                  /\ c \in S \/ current.type # "pong" \/ Is(c, "Closed") \/ connections[c].ping_sent = 0
  <2>1. PICK S : /\ StopAll(S)
                 /\ c \in S \/ current.type # "pong" \/ Is(c, "Closed") \/ connections[c].ping_sent = 0
    BY <1>5
  <2>2. /\ ConnectionsOK'
        /\ \A d : Live(d)' =>
              d \in sockets /\ Live(d) /\ connections'[d] = connections[d] /\ d \notin S
    BY <1>1, <1>2, <2>1, StopAllFacts
  <2>3. ASSUME NEW d \in sockets', Live(d)', connections'[d].ping_sent # 0,
               connections'[d].ping_nonce # 0
        PROVE  connections'[d].ping_nonce \in Unanswered(d)'
    <3>1. d \in sockets /\ Live(d) /\ connections'[d] = connections[d] /\ d \notin S
      BY <2>2, <2>3
    <3>2. d # c \/ current.type # "pong"
      BY <2>1, <2>3, <3>1 DEF Live, Is
    <3>3. Unanswered(d) \subseteq Unanswered(d)'
      BY <1>2, <3>1, <3>2, UnansweredKept DEF NoPongLost
    <3> QED
      BY <2>3, <3>1, <3>3 DEF Inv, PongToCome
  <2> QED
    BY <2>2, <2>3 DEF PongToCome
<1>6. ASSUME Is(c, "Connected"), current.type = "pong", Pong(c, current.nonce),
             ~ Answers(c, current.nonce)
      PROVE  \E S : StopAll(S) /\ (c \in S \/ connections[c].ping_sent = 0)
  <2>1. StopAll(IF connections[c].ping_sent # 0 THEN {c} ELSE {})
    BY <1>6 DEF Pong
  <2> QED
    BY <2>1
<1>7. ASSUME c \in DOMAIN connections, ~ (Is(c, "Connected") /\ current.type = "pong"),
             StopAll(IF Is(c, "Open") THEN {c} ELSE {})
      PROVE  \E S : StopAll(S) /\ (c \in S \/ current.type # "pong" \/ Is(c, "Closed"))
  <2>1. connections[c].status \in {"Open", "Connected", "Closed"}
    BY <1>7 DEF Inv, ConnectionsOK, Connection
  <2>2. Is(c, "Open") \/ current.type # "pong" \/ Is(c, "Closed")
    BY <1>7, <2>1 DEF Is
  <2> QED
    BY <1>7, <2>2
<1> QED
  BY <1>3, <1>4, <1>5, <1>6, <1>7, Zenon DEF HandleP2p

LEMMA HandleP2pStep ==
    ASSUME Inv, HandleP2p
    PROVE  Inv'
<1>1. /\ pc = "found_message" /\ pc' \in {"messages", "pong", "dead"}
      /\ current' \in {current, NoMessage} /\ (pc' # "pong" => current' = NoMessage)
      /\ UNCHANGED <<budget, terminate_flag, netVars, last_connection_id, queueVars, requests>>
  BY DEF HandleP2p, LookupFails, Return, Pong
<1>2. peer_db' \in {"empty", "unreachable", "reachable"}
  BY DEF HandleP2p, AddAddresses, Inv, ControlOK
<1>3. ControlOK'
  BY <1>1, <1>2 DEF Inv, ControlOK, netVars
<1>4. QueuesOK' /\ BudgetOK' /\ CurrentOK'
  BY <1>1, MessageFacts DEF Inv, QueuesOK, BudgetOK, CurrentOK, queueVars
<1> QED
  BY <1>3, <1>4, PongHandled DEF Inv

(* The nonce is wiped, be it that of a newer ping: of that ping nothing is *)
(* claimed.                                                                *)
LEMMA EndPongStep ==
    ASSUME Inv, EndPong
    PROVE  Inv'
<1> DEFINE c == current.id
<1>1. /\ pc = "pong" /\ pc' = "messages" /\ current' = NoMessage
      /\ DOMAIN connections' = DOMAIN connections
      /\ \A d \in DOMAIN connections :
            connections'[d] = IF d = c THEN [connections[d] EXCEPT !.ping_nonce = 0]
                              ELSE connections[d]
      /\ UNCHANGED <<budget, terminate_flag, netVars, sockets, last_connection_id, queueVars,
                     peer_db, requests>>
  BY DEF EndPong, Return
<1>2. ControlOK'
  BY <1>1 DEF Inv, ControlOK, netVars
<1>3. QueuesOK' /\ BudgetOK' /\ CurrentOK'
  BY <1>1, MessageFacts DEF Inv, QueuesOK, BudgetOK, CurrentOK, queueVars
<1>4. \A d \in DOMAIN connections : connections'[d] \in Connection
  <2>1. "Open" \in {"Open", "Connected", "Closed"} /\ 0 \in Nat /\ <<>> \in Seq(Nat)
    OBVIOUS
  <2>2. \A d \in DOMAIN connections : connections[d] \in Connection
    BY DEF Inv, ConnectionsOK
  <2> QED
    BY <1>1, <2>1, <2>2, RecordFacts, Zenon
<1>5. ConnectionsOK'
  BY <1>1, <1>4 DEF Inv, ConnectionsOK
<1>6. PongToCome'
  <2> SUFFICES ASSUME NEW d \in sockets', Live(d)', connections'[d].ping_sent # 0,
                      connections'[d].ping_nonce # 0
               PROVE  connections'[d].ping_nonce \in Unanswered(d)'
    BY DEF PongToCome
  <2>1. d \in sockets /\ d \in DOMAIN connections /\ connections[d] \in Connection
    BY <1>1 DEF Inv, ConnectionsOK
  <2>2. d # c
    BY <1>1, <2>1 DEF Connection
  <2>3. connections'[d] = connections[d]
    BY <1>1, <2>1, <2>2
  <2>4. UNCHANGED messages
    BY <1>1 DEF queueVars
  <2>5. Unanswered(d) \subseteq Unanswered(d)'
    BY <2>2, <2>3, <2>4, UnansweredKept
  <2>6. Live(d)
    BY <1>1, <2>1, <2>3 DEF Live
  <2> QED
    BY <2>1, <2>3, <2>5, <2>6 DEF Inv, PongToCome
<1> QED
  BY <1>2, <1>3, <1>5, <1>6 DEF Inv

LEMMA WorkStep ==
    ASSUME Inv, Work \/ StopManager \/ CloseAll
    PROVE  Inv'
<1>1. TypeOK
  BY TypeParts DEF Inv
<1>2. /\ pc \in {"messages", "stop", "wait"} /\ pc' \in {"stop", "handshake", "wait", "closed"}
      /\ stop_requested' \in {stop_requested, TRUE}
      /\ UNCHANGED <<budget, current, terminate_flag, net, closing, last_connection_id, queueVars,
                     peer_db, requests>>
  BY DEF Work, StopManager, CloseAll, ScheduleStop, netVars, connVars
<1>3. UNCHANGED <<connections, sockets>> \/ \E S : StopAll(S)
  BY Zenon DEF Work, StopManager, CloseAll, connVars
<1>4. ControlOK'
  <2>1. stop_requested' \in BOOLEAN
    BY <1>2, Zenon DEF Inv, ControlOK
  <2> QED
    BY <1>2, <2>1 DEF Inv, ControlOK
<1>5. QueuesOK' /\ BudgetOK' /\ CurrentOK'
  BY <1>2 DEF Inv, QueuesOK, BudgetOK, CurrentOK, queueVars
<1>6. ConnectionsOK' /\ PongToCome'
  <2>1. UNCHANGED <<last_connection_id, messages>> /\ NoPongLost
    BY <1>2 DEF queueVars, NoPongLost
  <2>2. CASE UNCHANGED <<connections, sockets>>
    <3>1. ConnectionsOK'
      BY <1>2, <2>2 DEF Inv, ConnectionsOK
    <3> QED
      BY <2>1, <2>2, <3>1, PongUntouched DEF Inv
  <2>3. CASE \E S : StopAll(S)
    BY <1>1, <2>1, <2>3, StopAllFacts, PongStopped, Zenon DEF Inv
  <2> QED
    BY <1>3, <2>2, <2>3
<1> QED
  BY <1>4, <1>5, <1>6 DEF Inv
-----------------------------------------------------------------------------
(* The network thread. *)

LEMMA CreateStep ==
    ASSUME Inv, NEW dialled \in BOOLEAN, CreateConnection(dialled)
    PROVE  Inv'
<1> DEFINE c == last_connection_id + 1
<1>1. /\ c \in Ids /\ last_connection_id' = c
      /\ DOMAIN connections' = DOMAIN connections \cup {c}
      /\ \A d \in DOMAIN connections \cup {c} :
            connections'[d] = IF d = c THEN NewConnection ELSE connections[d]
      /\ sockets' = sockets \cup {c}
      /\ UNCHANGED <<mainVars, netVars, queueVars, peer_db, requests>>
  BY DEF CreateConnection
<1>2. last_connection_id \in Nat /\ c \in 0 .. MaxIds /\ MaxIds \in Nat
  BY <1>1, ConnectionsAssumption DEF Inv, ControlOK, Ids
<1>3. c \notin DOMAIN connections
  BY <1>2 DEF Inv, ConnectionsOK
<1>4. ControlOK'
  BY <1>1, <1>2 DEF Inv, ControlOK, netVars, mainVars
<1>5. QueuesOK' /\ BudgetOK' /\ CurrentOK'
  BY <1>1 DEF Inv, QueuesOK, BudgetOK, CurrentOK, queueVars, mainVars
<1>6. NewConnection \in Connection /\ NewConnection.ping_sent = 0
  BY DEF NewConnection, Connection
<1>7. ConnectionsOK'
  BY <1>1, <1>2, <1>6 DEF Inv, ConnectionsOK
<1>8. ASSUME NEW d \in sockets', Live(d)', connections'[d].ping_sent # 0,
             connections'[d].ping_nonce # 0
      PROVE  connections'[d].ping_nonce \in Unanswered(d)'
  <2>1. d # c /\ d \in sockets /\ connections'[d] = connections[d]
    BY <1>1, <1>6, <1>8 DEF Inv, ConnectionsOK
  <2>2. Unanswered(d)' = Unanswered(d) /\ Live(d)
    BY <1>1, <1>8, <2>1 DEF Unanswered, Live, queueVars, mainVars
  <2> QED
    BY <1>8, <2>1, <2>2 DEF Inv, PongToCome
<1> QED
  BY <1>4, <1>5, <1>7, <1>8 DEF Inv, PongToCome

(* A message that comes in: the pong goes from the connection to the       *)
(* queue, where verack's or the user's next ping does not touch it.        *)
LEMMA ReceiveStep ==
    ASSUME Inv, NEW c \in Ids, Receive(c)
    PROVE  Inv'
<1>1. /\ c \in DOMAIN connections /\ connections[c] \in Connection
      /\ connections[c].sent \in Nat /\ connections[c].pings \in Seq(Nat)
      /\ UNCHANGED <<mainVars, netVars, sockets, last_connection_id, rpc_messages, peer_db,
                     requests>>
  BY DEF Receive, Live, Inv, ConnectionsOK, Connection
<1>2. ControlOK'
  BY <1>1 DEF Inv, ControlOK, netVars, mainVars
<1>3. "Open" \in {"Open", "Connected", "Closed"} /\ 0 \in Nat /\ <<>> \in Seq(Nat)
  OBVIOUS
<1>4. CASE ReceiveHandshake(c) \/ \E netid \in {"ipv4", "ipv6"} : ReceiveAddresses(c, netid)
  <2> DEFINE r == [connections[c] EXCEPT !.sent = @ + 1, !.silent = FALSE]
  <2>1. connections' = [connections EXCEPT ![c] = r]
    BY <1>4 DEF ReceiveHandshake, ReceiveAddresses
  <2>2. r \in Connection
    <3>1. connections[c].sent + 1 \in Nat
      BY <1>1
    <3> QED
      BY <1>1, <1>3, <3>1, RecordFacts, Zenon
  <2>3. /\ r.status = connections[c].status /\ r.pings = connections[c].pings
        /\ r.ping_sent = connections[c].ping_sent /\ r.ping_nonce = connections[c].ping_nonce
    BY <1>1 DEF Connection
  <2> HIDE DEF r
  <2>4. ConnectionsOK'
    BY <1>1, <2>1, <2>2 DEF Inv, ConnectionsOK
  <2>5. /\ handshake_messages' \in Seq(HandshakeMessages)
        /\ messages' \in Seq(Messages) /\ Len(messages') >= Len(messages)
        /\ \A d \in sockets : Unanswered(d) \subseteq Unanswered(d)'
    <3>1. \A d \in sockets : connections'[d].pings = connections[d].pings
      BY <1>1, <2>1, <2>3 DEF Inv, ConnectionsOK
    <3>2. CASE ReceiveHandshake(c)
      <4>1. [type |-> Handshake[connections[c].sent + 1], id |-> c, nonce |-> 0] \in HandshakeMessages
        <5>1. Len(Handshake) = 3 /\ DOMAIN Handshake = 1 .. 3
          BY DEF Handshake
        <5>2. connections[c].sent + 1 \in DOMAIN Handshake
          BY <1>1, <3>2, <5>1 DEF ReceiveHandshake
        <5> QED
          BY <5>2 DEF HandshakeMessages, Message, ToSet
      <4>2. handshake_messages' \in Seq(HandshakeMessages) /\ messages' = messages
        BY <3>2, <4>1, AppendProperties DEF ReceiveHandshake, Inv, QueuesOK
      <4>3. Len(messages) \in Nat
        BY LenProperties DEF Inv, QueuesOK
      <4> QED
        BY <1>1, <3>1, <4>2, <4>3 DEF Unanswered, Inv, QueuesOK, mainVars
    <3>3. ASSUME NEW netid \in {"ipv4", "ipv6"}, ReceiveAddresses(c, netid)
          PROVE  /\ handshake_messages' \in Seq(HandshakeMessages)
                 /\ messages' \in Seq(Messages) /\ Len(messages') >= Len(messages)
                 /\ \A d \in sockets : Unanswered(d) \subseteq Unanswered(d)'
      <4> DEFINE m == [type |-> netid, id |-> c, nonce |-> 0]
      <4>1. m \in Messages
        BY DEF Messages, Message
      <4>2. messages' = Append(messages, m) /\ handshake_messages' = handshake_messages
        BY <3>3 DEF ReceiveAddresses
      <4> HIDE DEF m
      <4>3. /\ messages' \in Seq(Messages) /\ Len(messages') = Len(messages) + 1
            /\ Len(messages) \in Nat
            /\ ToSet(messages') = ToSet(messages) \cup {m}
        BY <4>1, <4>2, AppendProperties, LenProperties, ToSetFacts DEF Inv, QueuesOK
      <4> QED
        BY <1>1, <3>1, <4>2, <4>3 DEF Unanswered, Inv, QueuesOK, mainVars
    <3> QED
      BY <1>4, <3>2, <3>3
  <2>6. QueuesOK' /\ BudgetOK' /\ CurrentOK'
    <3>1. Len(messages) \in Nat /\ Len(messages') \in Nat
      BY <2>5, LenProperties DEF Inv, QueuesOK
    <3> QED
      BY <1>1, <2>5, <3>1 DEF Inv, QueuesOK, BudgetOK, CurrentOK, ControlOK, mainVars
  <2>7. PongToCome'
    <3>1. \A d \in sockets : /\ Live(d)' = Live(d)
                             /\ connections'[d].ping_sent = connections[d].ping_sent
                             /\ connections'[d].ping_nonce = connections[d].ping_nonce
      BY <1>1, <2>1, <2>3 DEF Live, Inv, ConnectionsOK
    <3> QED
      BY <1>1, <2>5, <3>1, PongKept DEF Inv
  <2> QED
    BY <1>2, <2>4, <2>6, <2>7 DEF Inv
<1>5. CASE ReceivePong(c)
  <2> DEFINE r == [connections[c] EXCEPT !.pings = Tail(@), !.silent = FALSE]
             m == [type |-> "pong", id |-> c, nonce |-> Head(connections[c].pings)]
  <2>1. /\ connections' = [connections EXCEPT ![c] = r]
        /\ messages' = <<m>> \o messages
        /\ handshake_messages' = handshake_messages
        /\ connections[c].pings # <<>>
    BY <1>5 DEF ReceivePong
  <2>2. Tail(connections[c].pings) \in Seq(Nat) /\ Head(connections[c].pings) \in Nat
    BY <1>1, <2>1, HeadTailProperties
  <2>3. r \in Connection
    BY <1>1, <1>3, <2>2, RecordFacts, Zenon
  <2>4. /\ r.status = connections[c].status /\ r.pings = Tail(connections[c].pings)
        /\ r.ping_sent = connections[c].ping_sent /\ r.ping_nonce = connections[c].ping_nonce
    BY <1>1 DEF Connection
  <2>5. m \in Messages /\ m.type = "pong" /\ m.id = c /\ m.nonce = Head(connections[c].pings)
    BY <2>2 DEF Messages, Message, Ids
  <2> HIDE DEF r, m
  <2>6. ConnectionsOK'
    BY <1>1, <2>1, <2>3 DEF Inv, ConnectionsOK
  <2>7. /\ messages' \in Seq(Messages) /\ Len(messages') = Len(messages) + 1
        /\ Len(messages) \in Nat
        /\ ToSet(messages') = ToSet(messages) \cup {m}
    <3>1. messages \in Seq(Messages) /\ <<m>> \in Seq(Messages) /\ Len(<<m>>) = 1
      BY <2>5 DEF Inv, QueuesOK
    <3>2. Len(messages') = Len(<<m>>) + Len(messages) /\ messages' \in Seq(Messages)
      BY <2>1, <3>1, ConcatProperties
    <3> QED
      BY <2>1, <2>5, <3>1, <3>2, ToSetFacts, LenProperties
  <2>8. QueuesOK' /\ BudgetOK' /\ CurrentOK'
    BY <1>1, <2>1, <2>7 DEF Inv, QueuesOK, BudgetOK, CurrentOK, ControlOK, mainVars
  <2>9. ASSUME NEW d \in sockets
        PROVE  /\ Live(d)' = Live(d) /\ Unanswered(d) \subseteq Unanswered(d)'
               /\ connections'[d].ping_sent = connections[d].ping_sent
               /\ connections'[d].ping_nonce = connections[d].ping_nonce
    <3>1. CASE d # c
      <4>1. connections'[d] = connections[d] /\ d \in DOMAIN connections
        BY <2>1, <3>1 DEF Inv, ConnectionsOK
      <4> QED
        BY <1>1, <2>7, <4>1 DEF Live, Unanswered, mainVars
    <3>2. CASE d = c
      <4>1. connections'[d] = r
        BY <1>1, <2>1, <3>2
      <4>2. ToSet(connections[d].pings) =
                ToSet(Tail(connections[d].pings)) \cup {Head(connections[d].pings)}
        BY <1>1, <2>1, <3>2, ToSetFacts
      <4>3. m \in {x \in ToSet(messages') : x.type = "pong" /\ x.id = d}
        BY <2>5, <2>7, <3>2
      <4>4. Unanswered(d) \subseteq Unanswered(d)'
        BY <1>1, <2>4, <2>5, <2>7, <3>2, <4>1, <4>2, <4>3 DEF Unanswered, mainVars
      <4> QED
        BY <1>1, <2>4, <3>2, <4>1, <4>4 DEF Live
    <3> QED
      BY <3>1, <3>2
  <2>10. PongToCome'
    BY <1>1, <2>9, PongKept DEF Inv
  <2> QED
    BY <1>2, <2>6, <2>8, <2>10 DEF Inv
<1> QED
  BY <1>4, <1>5 DEF Receive

(* The stop of the network thread, a reset, and what manage_connections    *)
(* removes: no connection works that did not.                              *)
LEMMA StopStep ==
    ASSUME Inv, NEW c \in Ids, BeginStop(c)
    PROVE  Inv'
<1> DEFINE r == [connections[c] EXCEPT !.status = "Closed"]
<1>1. /\ c \in DOMAIN connections /\ connections[c] \in Connection
      /\ connections' = [connections EXCEPT ![c] = r]
      /\ closing' = c
      /\ UNCHANGED <<mainVars, net, stop_requested, sockets, last_connection_id, queueVars,
                     peer_db, requests>>
  BY DEF BeginStop, Live, Inv, ConnectionsOK
<1>2. ControlOK'
  BY <1>1 DEF Inv, ControlOK, mainVars, Ids
<1>3. QueuesOK' /\ BudgetOK' /\ CurrentOK'
  BY <1>1 DEF Inv, QueuesOK, BudgetOK, CurrentOK, mainVars, queueVars
<1>4. r \in Connection
  <2>1. "Closed" \in {"Open", "Connected", "Closed"} /\ 0 \in Nat /\ <<>> \in Seq(Nat)
    OBVIOUS
  <2> QED
    BY <1>1, <2>1, RecordFacts, Zenon
<1>5. /\ r.status = "Closed" /\ r.pings = connections[c].pings
      /\ r.ping_sent = connections[c].ping_sent /\ r.ping_nonce = connections[c].ping_nonce
  BY <1>1 DEF Connection
<1> HIDE DEF r
<1>6. ConnectionsOK' /\ PongToCome'
  <2>1. /\ UNCHANGED <<sockets, last_connection_id, messages>> /\ NoPongLost
        /\ r.status \in {connections[c].status, "Closed"}
    BY <1>1, <1>5 DEF queueVars, mainVars, NoPongLost
  <2> QED
    BY <1>1, <1>4, <1>5, <2>1, EditFacts, Zenon
<1> QED
  BY <1>2, <1>3, <1>6 DEF Inv

LEMMA ClockStep ==
    ASSUME Inv, NEW c \in Ids, FallSilent(c) \/ PingAges(c)
    PROVE  Inv'
<1>1. PICK r : /\ \/ r = [connections[c] EXCEPT !.silent = TRUE]
                  \/ r = [connections[c] EXCEPT !.ping_sent = 2] /\ connections[c].ping_sent = 1
               /\ connections' = [connections EXCEPT ![c] = r]
  BY Zenon DEF FallSilent, PingAges
<1>2. /\ c \in DOMAIN connections /\ connections[c] \in Connection
      /\ UNCHANGED <<mainVars, netVars, sockets, last_connection_id, queueVars, peer_db, requests>>
  BY DEF FallSilent, PingAges, Inv, ConnectionsOK
<1>3. ControlOK'
  BY <1>2 DEF Inv, ControlOK, mainVars, netVars
<1>4. QueuesOK' /\ BudgetOK' /\ CurrentOK'
  BY <1>2 DEF Inv, QueuesOK, BudgetOK, CurrentOK, mainVars, queueVars
<1>5. r \in Connection
  <2>1. "Closed" \in {"Open", "Connected", "Closed"} /\ 0 \in Nat /\ <<>> \in Seq(Nat)
    OBVIOUS
  <2> QED
    BY <1>1, <1>2, <2>1, RecordFacts, Zenon
<1>6. /\ r.status = connections[c].status /\ r.pings = connections[c].pings
      /\ r.ping_sent # 0 => connections[c].ping_sent # 0
      /\ r.ping_nonce = connections[c].ping_nonce
  BY <1>1, <1>2 DEF Connection
<1>7. ConnectionsOK' /\ PongToCome'
  <2>1. /\ UNCHANGED <<sockets, last_connection_id, messages>> /\ NoPongLost
        /\ r.status \in {connections[c].status, "Closed"}
    BY <1>2, <1>6 DEF queueVars, mainVars, NoPongLost
  <2> QED
    BY <1>1, <1>2, <1>5, <1>6, <2>1, EditFacts, Zenon
<1> QED
  BY <1>3, <1>4, <1>7 DEF Inv

LEMMA ManageStep ==
    ASSUME Inv, NEW c \in Ids, ManageConnection(c)
    PROVE  Inv'
<1>1. TypeOK
  BY TypeParts DEF Inv
<1>2. UNCHANGED <<mainVars, netVars, last_connection_id, queueVars, peer_db, requests>>
  BY DEF ManageConnection
<1>3. ControlOK'
  BY <1>2 DEF Inv, ControlOK, mainVars, netVars
<1>4. QueuesOK' /\ BudgetOK' /\ CurrentOK'
  BY <1>2 DEF Inv, QueuesOK, BudgetOK, CurrentOK, mainVars, queueVars
<1>5. CASE RemoveConnection(c)
  <2>1. /\ DOMAIN connections' = DOMAIN connections \ {c}
        /\ \A d \in DOMAIN connections' : connections'[d] = connections[d]
        /\ sockets' = sockets \ {c}
    BY <1>5 DEF RemoveConnection, Restrict
  <2>2. ConnectionsOK'
    BY <1>2, <2>1 DEF Inv, ConnectionsOK
  <2>3. \A d \in sockets' : /\ connections'[d] = connections[d]
                            /\ Live(d)' => Live(d)
    BY <2>1 DEF Live, Inv, ConnectionsOK
  <2>4. \A d \in sockets' : Unanswered(d)' = Unanswered(d)
    BY <1>2, <2>3 DEF Unanswered, queueVars, mainVars
  <2> QED
    BY <1>3, <1>4, <2>2, <2>3, <2>4, PongKept DEF Inv
<1>6. CASE PingAll({c}) /\ UNCHANGED sockets
  BY <1>1, <1>2, <1>3, <1>4, <1>6, PingAllFacts DEF Inv, queueVars, mainVars
<1> QED
  BY <1>5, <1>6 DEF ManageConnection

LEMMA SocketStep ==
    ASSUME Inv, EndStop \/ SpinForAddress \/ FindAddress \/ StopLoop \/ \E c \in Ids : Reset(c)
    PROVE  Inv'
<1>1. /\ sockets' \subseteq sockets /\ closing' \in {closing, 0}
      /\ net' \in {net, "spinning", "running", "stopped"}
      /\ UNCHANGED <<mainVars, stop_requested, connections, last_connection_id, queueVars,
                     peer_db, requests>>
  BY DEF EndStop, SpinForAddress, FindAddress, StopLoop, Reset, netVars, connVars
<1>2. ControlOK'
  BY <1>1, ConnectionsAssumption DEF Inv, ControlOK, mainVars
<1>3. QueuesOK' /\ BudgetOK' /\ CurrentOK'
  BY <1>1 DEF Inv, QueuesOK, BudgetOK, CurrentOK, mainVars, queueVars
<1>4. ConnectionsOK'
  BY <1>1 DEF Inv, ConnectionsOK
<1>5. PongToCome'
  <2>1. \A d \in sockets' : (Live(d)' => Live(d)) /\ Unanswered(d)' = Unanswered(d)
    BY <1>1 DEF Live, Unanswered, queueVars, mainVars
  <2> QED
    BY <1>1, <2>1, PongKept DEF Inv
<1> QED
  BY <1>2, <1>3, <1>4, <1>5 DEF Inv
-----------------------------------------------------------------------------
(* The RPC thread and signals. *)

LEMMA RequestStep ==
    ASSUME Inv, NEW kind \in Requests, Request(kind)
    PROVE  Inv'
<1>1. /\ rpc_messages' \in Seq(Requests) /\ Len(rpc_messages') = Len(rpc_messages) + 1
      /\ Len(rpc_messages) \in Nat
  BY AppendProperties, LenProperties DEF Request, Inv, QueuesOK
<1>2. ControlOK'
  BY ConnectionsAssumption DEF Request, Inv, ControlOK, mainVars, netVars, connVars
<1>3. QueuesOK' /\ BudgetOK' /\ CurrentOK'
  BY <1>1 DEF Request, Inv, QueuesOK, BudgetOK, CurrentOK, ControlOK, mainVars
<1>4. ConnectionsOK'
  BY DEF Request, Inv, ConnectionsOK, connVars
<1>5. PongToCome'
  BY PongUntouched DEF Request, Inv, NoPongLost, connVars, mainVars
<1> QED
  BY <1>2, <1>3, <1>4, <1>5 DEF Inv

LEMMA SignalStep ==
    ASSUME Inv, Signal \/ UNCHANGED vars
    PROVE  Inv'
<1>1. /\ terminate_flag' \in {terminate_flag, TRUE}
      /\ UNCHANGED <<pc, budget, current, netVars, connVars, queueVars, peer_db, requests>>
  BY Zenon DEF Signal, vars, mainVars
<1>2. terminate_flag' \in BOOLEAN
  BY <1>1, Zenon DEF Inv, ControlOK
<1>3. ControlOK'
  BY <1>1, <1>2 DEF Inv, ControlOK, netVars, connVars
<1>4. QueuesOK' /\ BudgetOK' /\ CurrentOK' /\ ConnectionsOK'
  BY <1>1 DEF Inv, QueuesOK, BudgetOK, CurrentOK, ConnectionsOK, queueVars, connVars
<1>5. PongToCome'
  BY <1>1, PongUntouched DEF Inv, NoPongLost, connVars, queueVars
<1> QED
  BY <1>3, <1>4, <1>5 DEF Inv
-----------------------------------------------------------------------------

LEMMA NextInv == Inv /\ [Next]_vars => Inv'
<1> SUFFICES ASSUME Inv, [Next]_vars PROVE Inv'
  OBVIOUS
<1>1. CASE Main
  BY <1>1, TakeHandshakeStep, HandshakeStep, SetConnectedStep, LogPeerNameStep, RoundStep,
     HandleRpcStep, TakeMessageStep, HandleP2pStep, EndPongStep, WorkStep DEF Main
<1>2. CASE Network
  BY <1>2, SocketStep, CreateStep, ReceiveStep, StopStep, ManageStep DEF Network
<1>3. CASE \E c \in Ids : FallSilent(c) \/ PingAges(c)
  BY <1>3, ClockStep
<1>4. CASE \E kind \in Requests : Request(kind)
  BY <1>4, RequestStep
<1>5. CASE Signal \/ UNCHANGED vars
  BY <1>5, SignalStep
<1> QED
  BY <1>1, <1>2, <1>3, <1>4, <1>5 DEF Next

THEOREM Invariance == Spec => []Inv
<1>1. Init => Inv
  BY InitInv
<1>2. Inv /\ [Next]_vars => Inv'
  BY NextInv
<1> QED
  BY <1>1, <1>2, PTL DEF Spec

(* Whatever the two threads do to a connection at the same time, verack    *)
(* bringing one back that is being stopped and a lookup that fails among   *)
(* it, no socket is open whose connection is forgotten, and no queue is    *)
(* read that is empty.                                                     *)
THEOREM TypeCorrect == Spec => []TypeOK
<1>1. Inv => TypeOK
  BY TypeParts DEF Inv
<1> QED
  BY Invariance, <1>1, PTL

(* The pong that a working connection waits for is still to come, in the   *)
(* queue or in the main thread's hand if it is not on its way: no message  *)
(* is lost, and a ping takes the place of the one before.  This covers the *)
(* ping that the network thread sends between the two assignments of the   *)
(* pong callback, up to the second, which sets the nonce to 0: of a        *)
(* connection left in that state nothing is claimed.                       *)
THEOREM ThePongIsToCome == Spec => []PongToCome
<1>1. Inv => PongToCome
  BY DEF Inv
<1> QED
  BY Invariance, <1>1, PTL
=============================================================================
