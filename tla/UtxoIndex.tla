----------------------------- MODULE UtxoIndex -----------------------------
(***************************************************************************)
(* chainstate/utxo_index.py: the unspent outputs on disk and the changes   *)
(* staged over them while update_chain tries a branch.  RevBlock needs no  *)
(* state: a block's patch lists the coins the block creates and spends.    *)
(***************************************************************************)
EXTENDS Ledger

VARIABLES
    utxo_db,            \* coins with a record under the prefix "utxo-"
    removed_utxos,      \* staged deletions
    updated_utxo_set    \* staged additions

utxoVars == <<utxo_db, removed_utxos, updated_utxo_set>>

(* What the staged changes amount to. *)
StagedView == (utxo_db \ removed_utxos) \cup updated_utxo_set
-----------------------------------------------------------------------------

(* The staged sets when add_block reaches the j-th transaction of b. *)
UpdatedAt(b, j) ==
    (updated_utxo_set \cup CreatedBefore(b, j)) \ SpentBefore(b, j)

RemovedAt(b, j) ==
    removed_utxos \cup (SpentBefore(b, j) \ (updated_utxo_set \cup CreatedBefore(b, j)))

(* Mutants: the staged removals are not looked at; nor the staged coins. *)
InputOnDiskOrStaged(b, j, c) == c \in UpdatedAt(b, j) \cup utxo_db

InputOnDisk(b, j, c) == c \notin RemovedAt(b, j) /\ c \in utxo_db

(* add_block raises at an input that is staged as removed, and at one that *)
(* is neither staged as added nor on disk.                                 *)
InputOK(b, j, c) ==
    /\ c \notin RemovedAt(b, j)
    /\ c \in UpdatedAt(b, j) \cup utxo_db

CanAddBlock(b) ==
    \A j \in 1 .. Len(Txs[b]) : \A c \in Txs[b][j].ins : InputOK(b, j, c)

AddBlock(b) ==
    /\ CanAddBlock(b)
    /\ updated_utxo_set' = UpdatedAt(b, Len(Txs[b]) + 1)
    /\ removed_utxos' = RemovedAt(b, Len(Txs[b]) + 1)
    /\ UNCHANGED utxo_db

(* apply_rev_block: every coin b creates must be there to be removed, also *)
(* one that b spends itself; then the coins b spends come back.            *)
CanApplyRevBlock(b) ==
    \A c \in Created(b) :
        /\ c \notin removed_utxos
        /\ c \in updated_utxo_set \cup utxo_db

ApplyRevBlock(b) ==
    /\ CanApplyRevBlock(b)
    /\ updated_utxo_set' = (updated_utxo_set \ Created(b)) \cup Spent(b)
    /\ removed_utxos' = removed_utxos \cup (Created(b) \ updated_utxo_set)
    /\ UNCHANGED utxo_db

(* Mutants: the insertions come first; the staged coins stay staged. *)
PutThenDelete ==
    /\ utxo_db' = (utxo_db \cup updated_utxo_set) \ removed_utxos
    /\ removed_utxos' = {}
    /\ updated_utxo_set' = {}

FinalizeKeepingStaged ==
    /\ utxo_db' = (utxo_db \ removed_utxos) \cup updated_utxo_set
    /\ removed_utxos' = {}
    /\ UNCHANGED updated_utxo_set

(* The deletions come before the insertions. *)
Finalize ==
    /\ utxo_db' = (utxo_db \ removed_utxos) \cup updated_utxo_set
    /\ removed_utxos' = {}
    /\ updated_utxo_set' = {}

Rollback ==
    /\ removed_utxos' = {}
    /\ updated_utxo_set' = {}
    /\ UNCHANGED utxo_db
-----------------------------------------------------------------------------

UtxoInit ==
    /\ utxo_db = {}
    /\ removed_utxos = {}
    /\ updated_utxo_set = {}

(* The caller adds a block only where its coins are new, and reverts one   *)
(* only where the coins it spent are still spent.                          *)
UtxoNext ==
    \/ \E b \in Blocks :
          \/ Created(b) \cap StagedView = {} /\ AddBlock(b)
          \/ (Spent(b) \ Created(b)) \cap StagedView = {} /\ ApplyRevBlock(b)
    \/ Finalize
    \/ Rollback

UtxoSpec == UtxoInit /\ [][UtxoNext]_utxoVars

(* Coins; only those on disk are staged as removed. *)
UtxoTypeOK ==
    /\ utxo_db \subseteq Coins
    /\ removed_utxos \subseteq utxo_db
    /\ updated_utxo_set \subseteq Coins

(* A coin on disk is staged as added only after it was staged as removed,  *)
(* so a pop from updated_utxo_set never uncovers a stale record of it.     *)
StagedOverDisk == updated_utxo_set \cap utxo_db \subseteq removed_utxos

(* The two staged sets over the disk behave as one set of coins: no spend  *)
(* of a missing or spent coin gets through, and a commit is all or nothing.*)
UtxoSetSpec == INSTANCE UtxoSet WITH coins <- utxo_db, view <- StagedView
ImplementsUtxoSet == UtxoSetSpec!Spec
=============================================================================
