------------------------------- MODULE Ledger -------------------------------
(***************************************************************************)
(* What the blocks of the tree do to the coins.                            *)
(*                                                                         *)
(* A coin is an outpoint; the TxOut kept with it is determined by the      *)
(* transaction that creates it.  A transaction is the record of the coins  *)
(* it spends and of those it creates, and Txs[b] are the transactions of   *)
(* block b in order, the coinbase first.  Genesis creates no coin: its     *)
(* coinbase is never written to the utxo index.                            *)
(***************************************************************************)
EXTENDS BlockTree

CONSTANTS
    Coins,
    Txs         \* Txs[b]: sequence of [ins : SUBSET Coins, outs : SUBSET Coins]

CreatedBefore(b, j) == UNION {Txs[b][i].outs : i \in 1 .. j - 1}

SpentBefore(b, j) == UNION {Txs[b][i].ins : i \in 1 .. j - 1}

Created(b) == CreatedBefore(b, Len(Txs[b]) + 1)

Spent(b) == SpentBefore(b, Len(Txs[b]) + 1)

(* Coinbases spend nothing, and no transaction is repeated in a block. *)
ASSUME TxAssumption ==
    /\ Txs \in [Blocks -> Seq([ins : SUBSET Coins, outs : SUBSET Coins])]
    /\ Created(Genesis) = {}
    /\ Spent(Genesis) = {}
    /\ \A b \in Blocks :
          /\ Len(Txs[b]) > 0
          /\ Txs[b][1].ins = {}
          /\ \A i, j \in 1 .. Len(Txs[b]) :
                i # j => Txs[b][i].outs \cap Txs[b][j].outs = {}

(* Transaction ids are unique on a branch (BIP30; the code relies on it).  *)
ASSUME UniqueCoins ==
    \A b \in Blocks : \A i, j \in 1 .. Len(Path[b]) :
        i # j => Created(Path[b][i]) \cap Created(Path[b][j]) = {}
-----------------------------------------------------------------------------

(* The coins left by the branch that ends in b. *)
UtxoOf(b) ==
    {c \in Coins :
        \E i \in 1 .. Len(Path[b]) :
            /\ c \in Created(Path[b][i])
            /\ \A k \in i .. Len(Path[b]) : c \notin Spent(Path[b][k])}

(* Every input of b is unspent when its transaction's turn comes. *)
SpendsAvailable(b) ==
    \A j \in 1 .. Len(Txs[b]) :
        Txs[b][j].ins \subseteq
            (UtxoOf(Parent(b)) \cup CreatedBefore(b, j)) \ SpentBefore(b, j)

(* No block of the branch spends a coin that is missing or spent before. *)
ValidBranch(b) ==
    \A i \in 2 .. Len(Path[b]) : SpendsAvailable(Path[b][i])
=============================================================================
