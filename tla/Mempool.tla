------------------------------ MODULE Mempool ------------------------------
(***************************************************************************)
(* mempool.py: what a Mempool holds and how its operations change it.  A   *)
(* transaction is its wtxid (tx.hash); transactions that differ only in    *)
(* their witness share a txid (tx.id).                                     *)
(***************************************************************************)
EXTENDS Integers, SequencesExt

CONSTANTS
    Txs,            \* wtxids
    TxId,           \* TxId[t]: tx.id
    VSize,          \* VSize[t]: tx.vsize
    BytesLimit      \* bytesize_limit

ASSUME MempoolAssumption ==
    /\ VSize \in [Txs -> Nat \ {0}]
    /\ BytesLimit \in Nat

TxIds == {TxId[t] : t \in Txs}

EmptyPool == [transactions |-> {}, txid_index |-> <<>>, size |-> 0, bytesize |-> 0]

IsFull(pool) == pool.bytesize >= BytesLimit

HasTxId(pool, id) == id \in DOMAIN pool.txid_index

(* The elements of seq that are in S: [x for x in seq if x in S]. *)
Among(seq, S) ==
    LET upto[i \in 0 .. Len(seq)] ==
            IF i = 0 THEN <<>>
            ELSE IF seq[i] \in S THEN Append(upto[i - 1], seq[i]) ELSE upto[i - 1]
    IN  upto[Len(seq)]

(* get_missing, by wtxid: a full mempool misses nothing. *)
GetMissing(pool, seq) ==
    IF IsFull(pool) THEN <<>> ELSE Among(seq, Txs \ pool.transactions)

(* add_tx: nothing while it is full, and one witness per txid. *)
AddTx(pool, t) ==
    IF IsFull(pool) \/ HasTxId(pool, TxId[t]) THEN pool
    ELSE [transactions |-> pool.transactions \cup {t},
          txid_index   |-> [id \in DOMAIN pool.txid_index \cup {TxId[t]} |->
                               IF id = TxId[t] THEN t ELSE pool.txid_index[id]],
          size         |-> pool.size + 1,
          bytesize     |-> pool.bytesize + VSize[t]]

(* Mutant: the size subtracted is that of the transaction in the block. *)
RemoveByBlock(pool, t) ==
    IF ~ HasTxId(pool, TxId[t]) THEN pool
    ELSE [transactions |-> pool.transactions \ {pool.txid_index[TxId[t]]},
          txid_index   |-> Restrict(pool.txid_index, DOMAIN pool.txid_index \ {TxId[t]}),
          size         |-> pool.size - 1,
          bytesize     |-> pool.bytesize - VSize[t]]

(* remove_tx: whatever is held under the txid goes. *)
RemoveTx(pool, t) ==
    IF ~ HasTxId(pool, TxId[t]) THEN pool
    ELSE LET held == pool.txid_index[TxId[t]]
         IN  [transactions |-> pool.transactions \ {held},
              txid_index   |-> Restrict(pool.txid_index, DOMAIN pool.txid_index \ {TxId[t]}),
              size         |-> pool.size - 1,
              bytesize     |-> pool.bytesize - VSize[held]]

Bytes(txs) == MapThenSumSet(LAMBDA t : VSize[t], txs)

(* The two indexes name the same transactions, one for each txid, and the  *)
(* counters are theirs.                                                    *)
Consistent(pool) ==
    /\ Range(pool.txid_index) = pool.transactions
    /\ \A id \in DOMAIN pool.txid_index : TxId[pool.txid_index[id]] = id
    /\ pool.size = Cardinality(pool.transactions)
    /\ pool.bytesize = Bytes(pool.transactions)
=============================================================================
