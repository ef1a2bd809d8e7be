---------------------------- MODULE ChainUpdate -----------------------------
(***************************************************************************)
(* The main thread of the node as far as the chain is concerned: the       *)
(* messages that bring headers, blocks and transactions, and update_chain, *)
(* which moves the active chain, the utxo set and the mempool along.       *)
(*                                                                         *)
(* Only this thread touches these parts, one message or one update_chain   *)
(* at a time (pc = "idle" in between), but each takes several puts to two  *)
(* databases, and the process may be killed between any two of them.  The  *)
(* utxo index is extended, the block index instantiated as Index.          *)
(*                                                                         *)
(* The block database is RecordStore, which BlockDB implements: after some *)
(* kills a read returns another block or patch than the one asked for, or  *)
(* bytes that are none, and update_chain works with what it was given.     *)
(***************************************************************************)
EXTENDS UtxoIndex, FiniteSets

CONSTANTS
    ScanWindow,     \* see BlockIndex
    MaxHeaders,     \* headers in a full message (2000)
    OfferedTxs,     \* transactions that may be offered to the mempool
    MempoolLimit,   \* bytesize_limit, with every transaction of size 1
    MaxCrashes,     \* bound on the number of kills
    Garbled         \* see RecordStore

ASSUME ChainAssumption ==
    /\ ScanWindow \in Nat \ {0} /\ MaxHeaders \in Nat \ {0}
    /\ OfferedTxs \subseteq [ins : SUBSET Coins, outs : SUBSET Coins]
    /\ MaxCrashes \in Nat
    /\ Garbled \notin {"blk", "rev"} \X Blocks

VARIABLES
    \* chainstate/block_index.py
    header_dict, downloaded, active_chain, block_candidates, header_index, loading,
    \* block_db, as RecordStore has it
    stored, writing, flushed, cut,
    \* Mempool.transactions
    mempool,
    status,         \* NodeStatus
    pc,             \* what the main thread is doing
    batch,          \* the headers, or the block, of the message in progress
    added,          \* the flag of add_headers
    to_add,         \* the hashes to connect in the running update_chain
    to_remove,      \* the hashes to disconnect
    done,           \* headers, or blocks of to_remove \o to_add, dealt with
    crashes

indexVars == <<header_dict, downloaded, active_chain, block_candidates,
               header_index, loading>>
blockVars == <<stored, writing, flushed, cut>>
updateVars == <<to_add, to_remove>>
messageVars == <<batch, added>>
vars == <<indexVars, utxoVars, blockVars, updateVars, messageVars,
          mempool, status, pc, done, crashes>>

Index == INSTANCE BlockIndex
Store == INSTANCE RecordStore WITH Hashes <- Blocks

NodeStatus == {"SyncingHeaders", "HeaderSynced", "BlockSynced"}

(* BlockDB.blocks and BlockDB.rev_patches. *)
Has(kind, h) == <<kind, h>> \in Store!Stored

blocks == {h \in Blocks : Has("blk", h)}

rev_patches == {h \in Blocks : Has("rev", h)}

(* get_block and get_rev_block find the record of some block, which need   *)
(* not be h: Found is the hash in that record.                             *)
Readable(kind, h) == Has(kind, h) /\ stored[<<kind, h>>] # Garbled

Found(kind, h) == stored[<<kind, h>>][2]

Intact == Store!Intact
-----------------------------------------------------------------------------
(* Messages.                                                               *)

(* A headers message lists consecutive headers of some branch; callbacks   *)
(* take it in any status of the node.                                      *)
HeaderMessages ==
    {msg \in UNION {{SubSeq(Path[b], i, Len(Path[b])) : i \in 2 .. Len(Path[b])} : b \in Blocks} :
        Len(msg) <= MaxHeaders}

ReceiveHeaders ==
    /\ pc = "idle"
    /\ batch' \in HeaderMessages
    /\ added' = FALSE
    /\ done' = 0
    /\ pc' = "headers"
    /\ UNCHANGED <<indexVars, utxoVars, blockVars, updateVars, mempool, status, crashes>>

(* One header: recorded, or skipped when it is known or an orphan. *)
TakeHeader ==
    LET h == batch[done + 1]
    IN  /\ pc = "headers"
        /\ done < Len(batch)
        /\ done' = done + 1
        /\ IF h \notin Index!Known /\ Parent(h) \in Index!Known
           THEN Index!AddHeader(h) /\ added' = TRUE
           ELSE UNCHANGED <<indexVars, added>>
        /\ UNCHANGED <<utxoVars, blockVars, updateVars, batch, mempool, status, pc, crashes>>

(* A full message that brought news asks for more; any other ends the      *)
(* synchronisation of headers.                                             *)
EndHeaders ==
    /\ pc = "headers"
    /\ done = Len(batch)
    /\ status' = IF status = "SyncingHeaders" /\ ~(Len(batch) = MaxHeaders /\ added)
                 THEN "HeaderSynced" ELSE status
    /\ pc' = "idle"
    /\ batch' = <<>>
    /\ added' = FALSE
    /\ done' = 0
    /\ UNCHANGED <<indexVars, utxoVars, blockVars, updateVars, mempool, crashes>>

(* block_db.add_block keeps a block that is there, and writes a new one in *)
(* three steps.                                                            *)
BeginBlock(b) ==
    IF Has("blk", b) THEN UNCHANGED blockVars ELSE Store!Flush(<<"blk", b>>)

PutRecord ==
    /\ Store!PutSize \/ Store!PutLocation
    /\ UNCHANGED <<indexVars, utxoVars, updateVars, messageVars, mempool, status,
                   pc, done, crashes>>

(* Mutants: the callback takes a block nobody announced, and sets the flag *)
(* before it stores the block.                                             *)
ReceiveUnannounced(b) ==
    /\ pc = "idle"
    /\ b \notin downloaded
    /\ BeginBlock(b)
    /\ batch' = <<b>>
    /\ pc' = "block"
    /\ UNCHANGED <<indexVars, utxoVars, updateVars, added, mempool, status, done, crashes>>

FlagBeforeStoring(b) ==
    /\ pc = "idle"
    /\ b \in Index!Known \ downloaded
    /\ Index!MarkDownloaded(b)
    /\ batch' = <<b>>
    /\ pc' = "block"
    /\ UNCHANGED <<utxoVars, blockVars, updateVars, added, mempool, status, done, crashes>>

(* The block callback stores the block, and then puts the flag in the      *)
(* block index.                                                            *)
ReceiveBlock(b) ==
    /\ pc = "idle"
    /\ b \in Index!Known \ downloaded
    /\ BeginBlock(b)
    /\ batch' = <<b>>
    /\ pc' = "block"
    /\ UNCHANGED <<indexVars, utxoVars, updateVars, added, mempool, status, done, crashes>>

FlagBlock ==
    /\ pc = "block"
    /\ writing = Store!NotWriting
    /\ Index!MarkDownloaded(batch[1])
    /\ batch' = <<>>
    /\ pc' = "idle"
    /\ UNCHANGED <<utxoVars, blockVars, updateVars, added, mempool, status, done, crashes>>

(* The mempool takes nothing once it is full. *)
AddTx(pool, t) == IF Cardinality(pool) < MempoolLimit THEN pool \cup {t} ELSE pool

(* Every input is a coin on disk or an output of a transaction in the      *)
(* mempool.  The scripts of the transactions offered are good.             *)
VerifyMempoolAcceptance(t) == t.ins \subseteq utxo_db \cup UNION {u.outs : u \in mempool}

ReceiveTx(t) ==
    /\ pc = "idle"
    /\ t \notin mempool
    /\ VerifyMempoolAcceptance(t)
    /\ mempool' = AddTx(mempool, t)
    /\ UNCHANGED <<indexVars, utxoVars, blockVars, updateVars, messageVars, status,
                   pc, done, crashes>>
-----------------------------------------------------------------------------
(* update_chain.                                                           *)

(* get_first_candidate pops stale entries as it looks for a better branch. *)
Fork == ForkAdd(Index!FirstCandidate, active_chain)

(* Nothing better to do: the blocks are synchronised. *)
FinishSync ==
    /\ pc \in {"idle", "recheck"}
    /\ status # "SyncingHeaders"
    /\ ~ Index!HasCandidate
    /\ Index!PopStale
    /\ status' = "BlockSynced"
    /\ pc' = "idle"
    /\ UNCHANGED <<utxoVars, blockVars, updateVars, messageVars, mempool, done, crashes>>

(* The first candidate, or a block under it, is not downloaded yet. *)
WaitForBlocks ==
    /\ pc = "idle"
    /\ status # "SyncingHeaders"
    /\ Index!HasCandidate
    /\ ~ (Elems(Fork) \subseteq downloaded)
    /\ Index!PopStale
    /\ UNCHANGED <<utxoVars, blockVars, updateVars, messageVars, mempool, status, pc,
                   done, crashes>>

(* Mutant: the blocks of the new branch are not looked for. *)
StartUnchecked ==
    /\ pc = "idle"
    /\ status # "SyncingHeaders"
    /\ Index!HasCandidate
    /\ Index!PopStale
    /\ to_add' = Fork
    /\ to_remove' = ForkRemove(Index!FirstCandidate, active_chain)
    /\ done' = 0
    /\ pc' = "update"
    /\ UNCHANGED <<utxoVars, blockVars, messageVars, mempool, status, crashes>>

StartUpdate ==
    /\ pc = "idle"
    /\ status # "SyncingHeaders"
    /\ Index!HasCandidate
    /\ Elems(Fork) \subseteq downloaded
    /\ Index!PopStale
    /\ to_add' = Fork
    /\ to_remove' = ForkRemove(Index!FirstCandidate, active_chain)
    /\ done' = 0
    /\ pc' = "update"
    /\ UNCHANGED <<utxoVars, blockVars, messageVars, mempool, status, crashes>>

(* All blocks and patches are read before the try block: bytes that do not *)
(* parse raise here, which leaves update_chain and ends the main loop.     *)
ReadRaises ==
    /\ pc = "idle"
    /\ status # "SyncingHeaders"
    /\ Index!HasCandidate
    /\ Elems(Fork) \subseteq downloaded
    /\ \/ \E h \in Elems(Fork) : Has("blk", h) /\ ~ Readable("blk", h)
       \/ \E h \in Elems(ForkRemove(Index!FirstCandidate, active_chain)) :
             Has("rev", h) /\ ~ Readable("rev", h)
    /\ Index!PopStale
    /\ pc' = "stopped"
    /\ UNCHANGED <<utxoVars, blockVars, updateVars, messageVars, mempool, status, done,
                   crashes>>

Reverting == pc = "update" /\ done < Len(to_remove)

Connecting ==
    /\ pc = "update"
    /\ done \in Len(to_remove) .. Len(to_remove) + Len(to_add) - 1

ToRevert == to_remove[done + 1]

ToConnect == to_add[done - Len(to_remove) + 1]

(* The blocks to remove are reverted in ascending order, each by the patch *)
(* found for it; a patch that is missing or makes no sense raises.         *)
CanRevert == Readable("rev", ToRevert) /\ CanApplyRevBlock(Found("rev", ToRevert))

RevertBlock ==
    /\ Reverting
    /\ CanRevert
    /\ ApplyRevBlock(Found("rev", ToRevert))
    /\ done' = done + 1
    /\ UNCHANGED <<indexVars, blockVars, updateVars, messageVars, mempool, status, pc, crashes>>

(* add_block and check_transactions.  The latter runs the scripts, but the *)
(* worker that finds one false catches the exception and only writes a     *)
(* report: it stops no block.                                              *)
CanConnect == Readable("blk", ToConnect) /\ CanAddBlock(Found("blk", ToConnect))

(* A block that passes is put as valid at once, under the hash it was      *)
(* looked for by.                                                          *)
ConnectBlock ==
    /\ Connecting
    /\ CanConnect
    /\ AddBlock(Found("blk", ToConnect))
    /\ Index!MarkValid(ToConnect)
    /\ pc' = "record"
    /\ UNCHANGED <<blockVars, updateVars, messageVars, mempool, status, done, crashes>>

(* block_db.add_rev_block, under the hash in the block. *)
PatchKey == <<"rev", Found("blk", ToConnect)>>

RecordRevBlock ==
    /\ pc = "record"
    /\ Store!Flush(PatchKey)
    /\ UNCHANGED <<indexVars, utxoVars, updateVars, messageVars, mempool, status, pc,
                   done, crashes>>

EndBlock ==
    /\ pc = "record"
    /\ PatchKey \in Store!Stored
    /\ done' = done + 1
    /\ pc' = "update"
    /\ UNCHANGED <<indexVars, utxoVars, blockVars, updateVars, messageVars, mempool,
                   status, crashes>>

(* An exception inside the try block. *)
RollbackUpdate ==
    /\ \/ Reverting /\ ~ CanRevert
       \/ Connecting /\ ~ CanConnect
    /\ Rollback
    /\ to_add' = <<>>
    /\ to_remove' = <<>>
    /\ done' = 0
    /\ pc' = "recheck"
    /\ UNCHANGED <<indexVars, blockVars, messageVars, mempool, status, crashes>>

AllApplied == pc = "update" /\ done = Len(to_remove) + Len(to_add)

(* rev_block.hash and block.header.hash of what was read. *)
Removed == [i \in 1 .. Len(to_remove) |-> Found("rev", to_remove[i])]

Added == [i \in 1 .. Len(to_add) |-> Found("blk", to_add[i])]

(* The transactions of b but its coinbase, while the mempool has room. *)
TakeBack(pool, b) ==
    LET take[j \in 1 .. Len(Txs[b])] ==
            IF j = 1 THEN pool ELSE AddTx(take[j - 1], Txs[b][j])
    IN  take[Len(Txs[b])]

(* After a switch the node, once synchronised, reads the removed blocks    *)
(* again and adds their transactions to the mempool (bytes that parse and  *)
(* are no block have none worth telling apart); then it removes every      *)
(* transaction of the connected blocks.                                    *)
TakenBack(n) ==
    LET pool[i \in 0 .. n] ==
            IF i = 0 THEN mempool
            ELSE IF Readable("blk", Removed[i])
                 THEN TakeBack(pool[i - 1], Found("blk", Removed[i]))
                 ELSE pool[i - 1]
    IN  pool[n]

(* Mutant: the connected blocks' transactions are removed first. *)
MempoolTakingBackLast ==
    LET left == mempool \ UNION {Elems(Txs[b]) : b \in Elems(Added)}
    IN  IF Removed = <<>> THEN left ELSE TakeBack(left, Found("blk", Tip(Removed)))

MempoolAfterSwitch ==
    TakenBack(Len(Removed)) \ UNION {Elems(Txs[b]) : b \in Elems(Added)}

(* The write batch: the chain, the statuses and the coins. *)
Commit ==
    /\ AllApplied
    /\ Index!Move(Added, Removed)
    /\ UNCHANGED <<downloaded, block_candidates, header_index, loading>>
    /\ Finalize

FinalizeUpdate ==
    /\ Commit
    /\ status = "BlockSynced" => \A i \in 1 .. Len(Removed) : Has("blk", Removed[i])
    /\ mempool' = IF status = "BlockSynced" THEN MempoolAfterSwitch ELSE mempool
    /\ to_add' = <<>>
    /\ to_remove' = <<>>
    /\ done' = 0
    /\ pc' = "recheck"
    /\ UNCHANGED <<blockVars, messageVars, status, crashes>>

(* get_block finds no block where it looks for a removed one: the batch is *)
(* written, and the exception ends the main loop.                          *)
TakeBackRaises ==
    /\ Commit
    /\ status = "BlockSynced"
    /\ \E i \in 1 .. Len(Removed) :
          /\ ~ Readable("blk", Removed[i])
          /\ \A j \in 1 .. i - 1 : Has("blk", Removed[j])
          /\ mempool' = TakenBack(i - 1)
    /\ pc' = "stopped"
    /\ UNCHANGED <<blockVars, updateVars, messageVars, status, done, crashes>>

(* remove_from_active_chain raises in the finally clause: the batch is     *)
(* discarded, and the exception leaves update_chain and ends the main loop.*)
(* What it had changed in memory is lost with the process.                 *)
FinalizeRaises ==
    /\ AllApplied
    /\ ~ Index!CanMove(Removed)
    /\ pc' = "stopped"
    /\ UNCHANGED <<indexVars, utxoVars, blockVars, updateVars, messageVars, mempool,
                   status, done, crashes>>

(* The look at the candidates after an update that finds another one. *)
Recheck ==
    /\ pc = "recheck"
    /\ Index!HasCandidate
    /\ Index!PopStale
    /\ pc' = "idle"
    /\ UNCHANGED <<utxoVars, blockVars, updateVars, messageVars, mempool, status, done,
                   crashes>>
-----------------------------------------------------------------------------
(* The process is killed, or stopped, and started again: the databases     *)
(* keep every put and no part of an uncommitted batch.  A block or patch   *)
(* that was being written is lost, with all that follows from it.          *)

(* Mutant: coins are put as they are staged, so a kill leaves them on disk. *)
RestartWithStaged ==
    /\ crashes < MaxCrashes
    /\ crashes' = crashes + 1
    /\ Index!Restart
    /\ Store!Kill
    /\ utxo_db' = StagedView
    /\ removed_utxos' = {}
    /\ updated_utxo_set' = {}
    /\ mempool' = {}
    /\ status' = "SyncingHeaders"
    /\ pc' = "loading"
    /\ batch' = <<>> /\ added' = FALSE
    /\ to_add' = <<>> /\ to_remove' = <<>> /\ done' = 0

Restart ==
    /\ crashes < MaxCrashes
    /\ crashes' = crashes + 1
    /\ Index!Restart
    /\ Store!Kill
    /\ UNCHANGED utxo_db
    /\ removed_utxos' = {}
    /\ updated_utxo_set' = {}
    /\ mempool' = {}
    /\ status' = "SyncingHeaders"
    /\ pc' = "loading"
    /\ batch' = <<>> /\ added' = FALSE
    /\ to_add' = <<>> /\ to_remove' = <<>> /\ done' = 0

LoadRecord ==
    /\ pc = "loading"
    /\ \E h \in loading : Index!LoadNext(h)
    /\ UNCHANGED <<utxoVars, blockVars, updateVars, messageVars, mempool, status, pc,
                   done, crashes>>

EndLoading ==
    /\ pc = "loading"
    /\ loading = {}
    /\ pc' = "idle"
    /\ UNCHANGED <<indexVars, utxoVars, blockVars, updateVars, messageVars, mempool,
                   status, done, crashes>>
-----------------------------------------------------------------------------
Init ==
    /\ Index!Init
    /\ UtxoInit
    /\ Store!Init
    /\ mempool = {}
    /\ status = "SyncingHeaders"
    /\ pc = "idle"
    /\ batch = <<>> /\ added = FALSE
    /\ to_add = <<>> /\ to_remove = <<>> /\ done = 0
    /\ crashes = 0

UpdateChain ==
    \/ FinishSync \/ WaitForBlocks \/ StartUpdate \/ ReadRaises
    \/ RevertBlock \/ ConnectBlock \/ RecordRevBlock \/ EndBlock \/ RollbackUpdate
    \/ FinalizeUpdate \/ TakeBackRaises \/ FinalizeRaises \/ Recheck

HandleMessage == TakeHeader \/ EndHeaders \/ FlagBlock

Next ==
    \/ ReceiveHeaders
    \/ \E b \in Blocks : ReceiveBlock(b)
    \/ \E t \in OfferedTxs : ReceiveTx(t)
    \/ HandleMessage
    \/ UpdateChain
    \/ PutRecord
    \/ Restart \/ LoadRecord \/ EndLoading

Spec == Init /\ [][Next]_vars

(* The main loop calls update_chain after every round of messages, however *)
(* many arrive, and finishes what it has begun; a peer has each block the  *)
(* node knows of, and it is asked until the block arrives.                 *)
FairSpec ==
    /\ Spec
    /\ SF_vars(UpdateChain)
    /\ WF_vars(HandleMessage)
    /\ WF_vars(PutRecord)
    /\ WF_vars(LoadRecord \/ EndLoading)
    /\ \A b \in Blocks : SF_vars(ReceiveBlock(b))
-----------------------------------------------------------------------------

TypeOK ==
    /\ Index!TypeOK
    /\ UtxoTypeOK
    /\ stored \in [Store!Stored -> Store!Keys \cup {Garbled}]
    /\ \A key \in Store!Stored \cup flushed : key \in Store!Keys /\ key[2] \in Index!Known
    /\ writing # Store!NotWriting =>
          /\ writing.stage \in {"flushed", "sized"}
          /\ writing.key \in flushed \ Store!Stored
          /\ pc = IF writing.key[1] = "blk" THEN "block" ELSE "record"
    /\ cut \subseteq Store!Kinds
    /\ mempool \subseteq [ins : SUBSET Coins, outs : SUBSET Coins]
    /\ status \in NodeStatus
    /\ pc \in {"idle", "headers", "block", "update", "record", "recheck",
               "stopped", "loading"}
    /\ batch \in Seq(Blocks) /\ added \in BOOLEAN
    /\ to_add \in Seq(Blocks) /\ to_remove \in Seq(Blocks) /\ done \in Nat
    /\ crashes \in 0 .. MaxCrashes

(* The utxo set on disk is at all times, through any failure and after any *)
(* kill, the one the active chain leaves, as long as the block database    *)
(* reads back what was stored.  A kill between the data and the size of a  *)
(* record is the one after which it may not.                               *)
UtxoMatchesChain == Intact => utxo_db = UtxoOf(Tip(active_chain))

(* Nothing is vouched for that was not stored first, after a kill between  *)
(* any puts: a downloaded flag stands for a block with a record, a block   *)
(* of the active chain can be reverted, and, when records are read back as *)
(* they were stored, read again for the mempool.                           *)
StoredFirst ==
    /\ downloaded \ {Genesis} \subseteq blocks
    /\ Elems(active_chain) \ {Genesis} \subseteq rev_patches
    /\ Intact => Elems(active_chain) \ {Genesis} \subseteq blocks

(* While update_chain tries a branch that removes at most one block, the   *)
(* staged coins are those of the last block applied; outside it nothing is *)
(* staged that a later update could commit, whatever was read.             *)
AppliedTip ==
    IF done > Len(to_remove) THEN to_add[done - Len(to_remove)]
    ELSE IF done > 0 THEN Parent(to_remove[done]) ELSE Tip(active_chain)

StagedTracksBranch ==
    /\ Intact /\ pc = "update" /\ Len(to_remove) <= 1 => StagedView = UtxoOf(AppliedTip)
    /\ pc \notin {"update", "record", "stopped"} =>
          removed_utxos = {} /\ updated_utxo_set = {}

(* Every known header with more work than the active chain waits in        *)
(* block_candidates ("blocks that are waiting to be connected to the       *)
(* active chain"), so finish_sync never declares a stale chain the best.   *)
BetterHeadersWait ==
    Intact /\ loading = {} =>
        \A b \in Index!Known : Work[b] > Index!ChainWork => b \in Elems(block_candidates)

(* A main loop that only meets branches of known blocks never ends. *)
NeverStops == Intact => pc # "stopped"

(* update_chain gives a branch up only if it spends what is not there. *)
RejectsOnlyInvalid ==
    [][Intact /\ RollbackUpdate => ~ ValidBranch(Tip(to_add))]_vars

(* Once synchronised, no confirmed transaction gets into a mempool that    *)
(* holds none, whichever blocks are connected and removed.                 *)
Unconfirmed(pool) ==
    \A t \in pool : \A b \in Elems(active_chain) : t \notin Elems(Txs[b])

MempoolStaysUnconfirmed ==
    [][Intact /\ status = "BlockSynced" /\ Unconfirmed(mempool) => Unconfirmed(mempool)']_vars

(* The chain and the utxo set change together, for more work only, and to  *)
(* branches without a false spend, as long as what was stored is read.     *)
Best == INSTANCE BestChain WITH chain <- active_chain, utxo <- utxo_db
ImplementsBestChain == Best!Init /\ [][Intact => Best!Next]_<<active_chain, utxo_db>>

(* update_chain and the callbacks use the index and the staged utxo set    *)
(* only in the ways these components are specified for, as long as what    *)
(* was stored is read.                                                     *)
UsesIndex == Index!Init /\ [][Intact => Index!Next]_indexVars
UsesUtxoIndex == UtxoInit /\ [][Intact => UtxoNext]_utxoVars

(* "The actual block chain" is one branch of the tree. *)
ChainIsBranch == IsBranch(active_chain)

(* A header heard of once the headers are synchronised is in the end       *)
(* overtaken by the active chain.                                          *)
CatchesUp ==
    \A b \in Blocks :
        b \in Index!Known /\ status # "SyncingHeaders" ~> Index!ChainWork >= Work[b]
=============================================================================
