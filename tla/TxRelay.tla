------------------------------ MODULE TxRelay ------------------------------
(***************************************************************************)
(* How nodes that run this code pass transactions on: tx_download of       *)
(* download.py, the callbacks tx, inv and getdata, sendrawtransaction, and *)
(* the mempool of each node.  Any two nodes have a connection that may     *)
(* break and come back; what is under way is lost with it.                 *)
(*                                                                         *)
(* received_txs holds pairs of a connection and a wtxid but is searched    *)
(* for bare wtxids, which are never found: so no announcement is held back *)
(* from a peer that has the transaction, and no request is left out.  Only *)
(* the wtxids of the pairs matter and asked_txs stays empty.               *)
(***************************************************************************)
EXTENDS Mempool

CONSTANTS
    Nodes,
    Parents,        \* Parents[t]: the txids t spends that are not on the chain at first
    AnnounceMin,    \* that many transactions are not worth a message (5)
    Events          \* what may happen to a node from outside, each once

ASSUME RelayAssumption ==
    /\ Parents \in [Txs -> SUBSET TxIds]
    /\ AnnounceMin \in Nat
    /\ Events \subseteq {"hear", "send", "reorg"} \X Nodes \X Txs

VARIABLES
    pool,           \* each node's mempool
    confirmed,      \* the transactions on each node's active chain
    status,         \* NodeStatus
    received_txs,   \* DownloadManager.received_txs, the wtxids
    inv_txs,        \* DownloadManager.inv_txs: <<connection, wtxid>>
    conn_status,    \* conn_status[n][m]: n's end of its connection to m
    wire,           \* wire[n][m]: messages from n that m has not handled yet
    happened        \* the events so far

chainVars == <<confirmed, status>>
vars == <<pool, chainVars, received_txs, inv_txs, conn_status, wire, happened>>

Messages == [type : {"inv", "getdata", "tx"}, txs : Seq(Txs) \ {<<>>}]

Msg(type, txs) == [type |-> type, txs |-> txs]

Others(n) == Nodes \ {n}

Linked(n, m) == conn_status[n][m] = "Connected" /\ conn_status[m][n] = "Connected"

Confirmed(n) == {TxId[t] : t \in confirmed[n]}

Has(n, id) == HasTxId(pool[n], id) \/ id \in Confirmed(n)

(* verify_mempool_acceptance: each output spent is on the chain, unspent,  *)
(* or in the mempool.  Scripts are good, and only transactions of one txid *)
(* spend the same output.                                                  *)
VerifyMempoolAcceptance(n, t) ==
    /\ TxId[t] \notin Confirmed(n)
    /\ \A id \in Parents[t] : Has(n, id)
-----------------------------------------------------------------------------
(* The tx callback: an orphan is dropped; a wtxid the mempool does not     *)
(* hold is to be announced, even if add_tx does not take it.               *)
TakeTx(n, t) ==
    IF VerifyMempoolAcceptance(n, t) /\ t \notin pool[n].transactions
    THEN /\ pool' = [pool EXCEPT ![n] = AddTx(@, t)]
         /\ received_txs' = [received_txs EXCEPT ![n] = Append(@, t)]
    ELSE UNCHANGED <<pool, received_txs>>

(* n takes the next message from m off the connection and answers. *)
Answer(n, m, answers) ==
    wire' = [wire EXCEPT ![m][n] = Tail(@), ![n][m] = @ \o answers]

NextIs(n, m, type) ==
    /\ conn_status[n][m] = "Connected"
    /\ wire[m][n] # <<>>
    /\ Head(wire[m][n]).type = type

Tx(n, m) ==
    /\ NextIs(n, m, "tx")
    /\ TakeTx(n, Head(wire[m][n]).txs[1])
    /\ Answer(n, m, <<>>)
    /\ UNCHANGED <<chainVars, inv_txs, conn_status, happened>>

(* The inv callback, for transactions. *)
Inv(n, m) ==
    LET missing == GetMissing(pool[n], Head(wire[m][n]).txs)
    IN  /\ NextIs(n, m, "inv")
        /\ inv_txs' = IF status[n] # "BlockSynced" THEN inv_txs
                      ELSE [inv_txs EXCEPT ![n] =
                                @ \o [i \in DOMAIN missing |-> <<m, missing[i]>>]]
        /\ Answer(n, m, <<>>)
        /\ UNCHANGED <<pool, chainVars, received_txs, conn_status, happened>>

(* The getdata callback, for transactions: those that are held, in order.  *)
GetData(n, m) ==
    LET found == Among(Head(wire[m][n]).txs, pool[n].transactions)
    IN  /\ NextIs(n, m, "getdata")
        /\ Answer(n, m, [i \in DOMAIN found |-> Msg("tx", <<found[i]>>)])
        /\ UNCHANGED <<pool, chainVars, received_txs, inv_txs, conn_status, happened>>

(* Mutant: each entry takes the place of the last one for the connection.  *)
AskedLast(n, m) ==
    LET mine == Among(inv_txs[n], {m} \X Txs)
    IN  IF mine = <<>> THEN <<>> ELSE <<mine[Len(mine)][2]>>

(* What n asks m for: all that m has announced since the last round. *)
AskedOf(n, m) ==
    LET mine == Among(inv_txs[n], {m} \X Txs)
    IN  [i \in DOMAIN mine |-> mine[i][2]]

Announcements(n) ==
    IF Len(received_txs[n]) > AnnounceMin THEN received_txs[n] ELSE <<>>

(* Mutant: what is asked of nobody is asked all the same. *)
SendAnyway(type, txs) == <<Msg(type, txs)>>

NonEmpty(type, txs) == IF txs = <<>> THEN <<>> ELSE <<Msg(type, txs)>>

(* Mutant: what was asked for is kept. *)
AskedKept(n) == inv_txs[n]

(* What is left of inv_txs after a round. *)
AskedLeft(n) == <<>>

(* tx_download: everything received since the last round is announced to   *)
(* every connection, or to none if it is too little; everything announced  *)
(* by the others is asked for; then both lists are forgotten.              *)
TxDownload(n) ==
    /\ status[n] = "BlockSynced"
    /\ received_txs[n] # <<>> \/ inv_txs[n] # <<>>
    /\ wire' = [wire EXCEPT ![n] = [m \in Nodes |->
                   IF conn_status[n][m] \notin {"Open", "Connected"} THEN @[m]
                   ELSE @[m] \o NonEmpty("inv", Announcements(n))
                             \o NonEmpty("getdata", AskedOf(n, m))]]
    /\ received_txs' = [received_txs EXCEPT ![n] = <<>>]
    /\ inv_txs' = [inv_txs EXCEPT ![n] = AskedLeft(n)]
    /\ UNCHANGED <<pool, chainVars, conn_status, happened>>
-----------------------------------------------------------------------------
Happens(event, n, t) ==
    /\ <<event, n, t>> \in Events \ happened
    /\ happened' = happened \cup {<<event, n, t>>}

(* A transaction from a node outside the model: the tx callback. *)
HearTx(n, t) ==
    /\ Happens("hear", n, t)
    /\ TakeTx(n, t)
    /\ UNCHANGED <<chainVars, inv_txs, conn_status, wire>>

(* sendrawtransaction: what is acceptable goes to every connection, taken  *)
(* by the mempool or not.                                                  *)
SendRawTransaction(n, t) ==
    /\ Happens("send", n, t)
    /\ IF VerifyMempoolAcceptance(n, t)
       THEN /\ pool' = [pool EXCEPT ![n] = AddTx(@, t)]
            /\ wire' = [wire EXCEPT ![n] = [m \in Nodes |->
                           IF conn_status[n][m] \notin {"Open", "Connected"} THEN @[m]
                           ELSE Append(@[m], Msg("tx", <<t>>))]]
       ELSE UNCHANGED <<pool, wire>>
    /\ UNCHANGED <<chainVars, received_txs, inv_txs, conn_status>>

(* update_chain connects a block with t in it; the mempool follows once    *)
(* the node is synchronised.                                               *)
Confirm(n, t) ==
    /\ TxId[t] \notin Confirmed(n)
    /\ Parents[t] \subseteq Confirmed(n)
    /\ confirmed' = [confirmed EXCEPT ![n] = @ \cup {t}]
    /\ pool' = IF status[n] = "BlockSynced" THEN [pool EXCEPT ![n] = RemoveTx(@, t)] ELSE pool
    /\ UNCHANGED <<status, received_txs, inv_txs, conn_status, wire, happened>>

(* update_chain disconnects the block with t in it, which goes back to the *)
(* mempool if there is room.                                               *)
Unconfirm(n, t) ==
    /\ Happens("reorg", n, t)
    /\ t \in confirmed[n]
    /\ \A u \in confirmed[n] : TxId[t] \notin Parents[u]
    /\ confirmed' = [confirmed EXCEPT ![n] = @ \ {t}]
    /\ pool' = IF status[n] = "BlockSynced" THEN [pool EXCEPT ![n] = AddTx(@, t)] ELSE pool
    /\ UNCHANGED <<status, received_txs, inv_txs, conn_status, wire>>

(* Both ends of some connections are stopped.  What an announcement from   *)
(* a connection that is gone still asks for goes nowhere.                  *)
Drop(links) ==
    LET gone(n, m) == <<n, m>> \in links \/ <<m, n>> \in links
    IN  /\ conn_status' = [n \in Nodes |-> [m \in Nodes |->
                              IF gone(n, m) THEN "Closed" ELSE conn_status[n][m]]]
        /\ wire' = [n \in Nodes |-> [m \in Nodes |->
                       IF gone(n, m) THEN <<>> ELSE wire[n][m]]]
        /\ inv_txs' = [n \in Nodes |->
                          Among(inv_txs[n], {m \in Nodes : ~ gone(n, m)} \X Txs)]

(* finish_sync: every connection is stopped. *)
FinishSync(n) ==
    /\ status[n] # "BlockSynced"
    /\ status' = [status EXCEPT ![n] = "BlockSynced"]
    /\ Drop({n} \X Others(n))
    /\ UNCHANGED <<pool, confirmed, received_txs, happened>>

Break(n, m) ==
    /\ conn_status[n][m] = "Connected"
    /\ Drop({<<n, m>>})
    /\ UNCHANGED <<pool, chainVars, received_txs, happened>>

(* handle_p2p stops a connection over which a message comes before the     *)
(* handshake is done; tx_download and sendrawtransaction send regardless.  *)
Reject(n, m) ==
    /\ conn_status[n][m] = "Open"
    /\ wire[m][n] # <<>>
    /\ Drop({<<n, m>>})
    /\ UNCHANGED <<pool, chainVars, received_txs, happened>>

Connect(n, m) ==
    /\ conn_status[n][m] = "Closed"
    /\ conn_status' = [conn_status EXCEPT ![n][m] = "Open", ![m][n] = "Open"]
    /\ UNCHANGED <<pool, chainVars, received_txs, inv_txs, wire, happened>>

Verack(n, m) ==
    /\ conn_status[n][m] = "Open"
    /\ conn_status' = [conn_status EXCEPT ![n][m] = "Connected"]
    /\ UNCHANGED <<pool, chainVars, received_txs, inv_txs, wire, happened>>
-----------------------------------------------------------------------------
Init ==
    /\ pool = [n \in Nodes |-> EmptyPool]
    /\ confirmed = [n \in Nodes |-> {}]
    /\ status = [n \in Nodes |-> "HeaderSynced"]
    /\ received_txs = [n \in Nodes |-> <<>>]
    /\ inv_txs = [n \in Nodes |-> <<>>]
    /\ conn_status = [n \in Nodes |-> [m \in Nodes |-> IF m = n THEN "None" ELSE "Closed"]]
    /\ wire = [n \in Nodes |-> [m \in Nodes |-> <<>>]]
    /\ happened = {}

Handle(n, m) == Tx(n, m) \/ Inv(n, m) \/ GetData(n, m) \/ Reject(n, m)

Next ==
    \E n \in Nodes :
        \/ TxDownload(n) \/ FinishSync(n)
        \/ \E m \in Others(n) : Handle(n, m) \/ Break(n, m) \/ Connect(n, m) \/ Verack(n, m)
        \/ \E t \in Txs : \/ HearTx(n, t) \/ SendRawTransaction(n, t)
                          \/ Confirm(n, t) \/ Unconfirm(n, t)

(* The main loop of each node handles every message and takes a step of    *)
(* the download manager in each round.                                     *)
Spec ==
    /\ Init /\ [][Next]_vars
    /\ \A n \in Nodes :
          /\ WF_vars(TxDownload(n))
          /\ \A m \in Others(n) : WF_vars(Handle(n, m))
-----------------------------------------------------------------------------
TypeOK ==
    /\ \A n \in Nodes : pool[n].transactions \subseteq Txs
    /\ confirmed \in [Nodes -> SUBSET Txs]
    /\ status \in [Nodes -> {"HeaderSynced", "BlockSynced"}]
    /\ received_txs \in [Nodes -> Seq(Txs)]
    /\ inv_txs \in [Nodes -> Seq(Nodes \X Txs)]
    /\ conn_status \in [Nodes -> [Nodes -> {"None", "Open", "Connected", "Closed"}]]
    /\ \A n, m \in Nodes :
          /\ wire[n][m] \in Seq(Messages)
          /\ conn_status[n][m] \in {"None", "Closed"} => wire[n][m] = <<>>
    /\ happened \subseteq Events

(* The mempool's indexes and counters agree, whichever witness of a        *)
(* transaction arrives first, is announced, or ends up in a block.         *)
MempoolConsistent == \A n \in Nodes : Consistent(pool[n])

(* t is on the way from n to m as part of an announcement, after those of  *)
(* its parents that m lacks, and n can serve them all.                     *)
Announced(n, m, t) ==
    \E msg \in ToSet(wire[n][m]) : \E i \in DOMAIN msg.txs :
        /\ msg.type = "inv"
        /\ msg.txs[i] = t
        /\ \A id \in Parents[t] :
              Has(m, id) \/ \E j \in 1 .. i - 1 : TxId[msg.txs[j]] = id

(* A transaction or a parent of it is no longer there to be served. *)
Withdrawn(n, t) == ~ ({TxId[t]} \cup Parents[t] \subseteq DOMAIN pool[n].txid_index)

(* What a node announces its peer comes to have, parents first, unless one *)
(* of them confirms it or something before, another witness was first, the *)
(* peer is full or not synchronised, or the connection breaks.             *)
TxSpreads ==
    \A n \in Nodes : \A m \in Others(n), t \in Txs :
        Announced(n, m, t) ~> \/ Has(m, TxId[t])
                              \/ Withdrawn(n, t) \/ t \notin pool[n].transactions
                              \/ IsFull(pool[m]) \/ status[m] # "BlockSynced"
                              \/ ~ Linked(n, m)

(* Nodes fall silent once nothing new comes from outside: they do not hand *)
(* the same transactions round for ever, though nothing they announce is   *)
(* held back from whom it came and a full mempool forgets what it had.     *)
GossipEnds == <>[](\A n, m \in Nodes : wire[n][m] = <<>>)
=============================================================================
