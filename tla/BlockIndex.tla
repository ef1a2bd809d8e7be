----------------------------- MODULE BlockIndex -----------------------------
(***************************************************************************)
(* chainstate/block_index.py: the index of all known headers, the active   *)
(* chain, the queue of candidates to extend it and the best header chain.  *)
(*                                                                         *)
(* The database needs no variable of its own: every change of a BlockInfo  *)
(* is put at once (insert_block_info), and the changes of a chain switch   *)
(* are put by one atomic write batch, so outside a switch the persisted    *)
(* records are the records in memory.  A restart keeps header_dict and     *)
(* downloaded, and rebuilds everything else from them.                     *)
(***************************************************************************)
EXTENDS BlockTree, FiniteSets

CONSTANT ScanWindow     \* get_first_candidate looks at so many entries (100)

ASSUME ScanAssumption == ScanWindow \in Nat \ {0}

VARIABLES
    header_dict,        \* BlockInfo.status of each block, "unknown" without a record
    downloaded,         \* the blocks whose BlockInfo.downloaded is set
    active_chain,       \* the connected chain, Genesis first
    block_candidates,   \* deque of hashes; the work kept with each is its Work
    header_index,       \* the best header chain, Genesis first
    loading             \* the part of sorted_header_dict init_from_db still has to visit

indexVars == <<header_dict, downloaded, active_chain, block_candidates,
               header_index, loading>>

Status == {"unknown", "valid_header", "valid", "in_active_chain"}

Known == {b \in Blocks : header_dict[b] # "unknown"}

ChainWork == Work[Tip(active_chain)]
-----------------------------------------------------------------------------

(* Mutant: a header is a candidate only if it beats the best header. *)
AddBestHeader(h) ==
    /\ h \notin Known
    /\ Parent(h) \in Known
    /\ header_dict' = [header_dict EXCEPT ![h] = "valid_header"]
    /\ block_candidates' = IF Work[h] > Work[Tip(header_index)]
                           THEN Append(block_candidates, h)
                           ELSE block_candidates
    /\ header_index' = ExtendHeaderIndex(header_index, h)
    /\ UNCHANGED <<downloaded, active_chain, loading>>

(* One header of an add_headers message: known headers and orphans are     *)
(* skipped.                                                                *)
AddHeader(h) ==
    /\ h \notin Known
    /\ Parent(h) \in Known
    /\ header_dict' = [header_dict EXCEPT ![h] = "valid_header"]
    /\ block_candidates' = IF Work[h] > ChainWork
                           THEN Append(block_candidates, h)
                           ELSE block_candidates
    /\ header_index' = ExtendHeaderIndex(header_index, h)
    /\ UNCHANGED <<downloaded, active_chain, loading>>

(* Mutant: the flag of a block without a header. *)
MarkUnheard(b) ==
    /\ b \notin downloaded
    /\ downloaded' = downloaded \cup {b}
    /\ UNCHANGED <<header_dict, active_chain, block_candidates, header_index, loading>>

(* The block callback has stored the block and persists the flag. *)
MarkDownloaded(b) ==
    /\ b \in Known \ downloaded
    /\ downloaded' = downloaded \cup {b}
    /\ UNCHANGED <<header_dict, active_chain, block_candidates, header_index, loading>>

(* Mutant: a block is recorded as connected when it passes its checks. *)
MarkConnected(b) ==
    /\ header_dict' = [header_dict EXCEPT ![b] = "in_active_chain"]
    /\ UNCHANGED <<downloaded, active_chain, block_candidates, header_index, loading>>

(* update_block_status(valid), put outside the batch of the switch. *)
MarkValid(b) ==
    /\ header_dict' = [header_dict EXCEPT ![b] = "valid"]
    /\ UNCHANGED <<downloaded, active_chain, block_candidates, header_index, loading>>
-----------------------------------------------------------------------------

(* get_first_candidate: the front entries with less work than the active   *)
(* chain are popped; among the first ScanWindow entries that are left, the *)
(* first downloaded one with more work, else the first with more work.     *)
StaleEntries ==
    {n \in 0 .. Len(block_candidates) :
        \A i \in 1 .. n : Work[block_candidates[i]] < ChainWork}

LiveCandidates ==
    LET n == CHOOSE m \in StaleEntries : \A k \in StaleEntries : k <= m
    IN  SubSeq(block_candidates, n + 1, Len(block_candidates))

(* Mutant: a branch of the same work will do. *)
NotWorse == {i \in 1 .. Len(LiveCandidates) :
                i <= ScanWindow /\ Work[LiveCandidates[i]] >= ChainWork}

Better == {i \in 1 .. Len(LiveCandidates) :
                i <= ScanWindow /\ Work[LiveCandidates[i]] > ChainWork}

BetterDownloaded == {i \in Better : LiveCandidates[i] \in downloaded}

HasCandidate == Better # {}

FirstCandidate ==
    LET pool == IF BetterDownloaded # {} THEN BetterDownloaded ELSE Better
    IN  LiveCandidates[CHOOSE i \in pool : \A j \in pool : i <= j]

(* Mutant: the entry looked at is popped too. *)
PopFirst ==
    /\ block_candidates' = IF LiveCandidates = <<>> THEN <<>> ELSE Tail(LiveCandidates)
    /\ UNCHANGED <<header_dict, downloaded, active_chain, header_index, loading>>

PopStale ==
    /\ block_candidates' = LiveCandidates
    /\ UNCHANGED <<header_dict, downloaded, active_chain, header_index, loading>>

(* Mutant: the comparison with the tip fails for the tip itself. *)
CanOnlyExtend(remove) == remove = <<>>

(* remove_from_active_chain raises unless it is given the tip. *)
CanMove(remove) ==
    /\ Len(remove) <= Len(active_chain)
    /\ \A i \in 1 .. Len(remove) : remove[i] = active_chain[Len(active_chain) + 1 - i]

(* Mutant: the removed blocks keep their status. *)
MoveKeepingStatus(add, remove) ==
    /\ CanMove(remove)
    /\ active_chain' = SubSeq(active_chain, 1, Len(active_chain) - Len(remove)) \o add
    /\ header_dict' = [b \in Blocks |->
                          IF b \in Elems(add) THEN "in_active_chain" ELSE header_dict[b]]

(* The write batch of update_chain: all removals, then all additions. *)
Move(add, remove) ==
    /\ CanMove(remove)
    /\ active_chain' = SubSeq(active_chain, 1, Len(active_chain) - Len(remove)) \o add
    /\ header_dict' = [b \in Blocks |->
                          CASE b \in Elems(add) -> "in_active_chain"
                            [] b \in Elems(remove) \ Elems(add) -> "valid"
                            [] OTHER -> header_dict[b]]

(* get_fork_details lists the blocks in ascending order, so the batch goes *)
(* through only if it removes at most one.                                 *)
CanSwitch(h) == CanMove(ForkRemove(h, active_chain))

MoveChain(h) == Move(ForkAdd(h, active_chain), ForkRemove(h, active_chain))

SwitchTo(h) ==
    /\ MoveChain(h)
    /\ UNCHANGED <<downloaded, block_candidates, header_index, loading>>
-----------------------------------------------------------------------------

(* generate_active_chain: the blocks with the status in_active_chain in    *)
(* order of their index; of several with one index the last in key order.  *)
InActiveChain == {b \in Blocks : header_dict[b] = "in_active_chain"}

ActiveHeights == {Height(b) : b \in InActiveChain}

NthHeight(n) ==
    CHOOSE i \in ActiveHeights : Cardinality({j \in ActiveHeights : j < i}) = n - 1

LastAt(i) ==
    CHOOSE b \in InActiveChain :
        /\ Height(b) = i
        /\ \A a \in InActiveChain : Height(a) = i => Rank[a] <= Rank[b]

GeneratedChain ==
    [n \in 1 .. Cardinality(ActiveHeights) |-> LastAt(NthHeight(n))]

(* A new BlockIndex on the records of the database: the chain is rebuilt   *)
(* at once, the candidates and the header index by one visit to each       *)
(* record, in sorted_header_dict's order.                                  *)
Restart ==
    /\ active_chain' = GeneratedChain
    /\ header_index' = GeneratedChain
    /\ block_candidates' = <<>>
    /\ loading' = Known
    /\ UNCHANGED <<header_dict, downloaded>>

IsFirst(h, S) ==
    /\ h \in S
    /\ \A b \in S : \/ Height(h) < Height(b)
                    \/ Height(h) = Height(b) /\ Rank[h] <= Rank[b]

(* The loop bodies of generate_block_candidates and generate_header_index, *)
(* which do not depend on each other, for one record.                      *)
LoadNext(h) ==
    /\ IsFirst(h, loading)
    /\ loading' = loading \ {h}
    /\ block_candidates' =
           IF header_dict[h] = "valid_header" /\ Work[h] > ChainWork
           THEN Append(block_candidates, h) ELSE block_candidates
    /\ header_index' =
           IF h \in Elems(header_index) THEN header_index ELSE ExtendHeaderIndex(header_index, h)
    /\ UNCHANGED <<header_dict, downloaded, active_chain>>
-----------------------------------------------------------------------------

(* The constructor on an empty database. *)
Init ==
    /\ header_dict = [b \in Blocks |->
                         IF b = Genesis THEN "in_active_chain" ELSE "unknown"]
    /\ downloaded = {Genesis}
    /\ active_chain = <<Genesis>>
    /\ block_candidates = <<>>
    /\ header_index = <<Genesis>>
    /\ loading = {}

(* The main thread uses the index once the constructor is through.  It     *)
(* validates blocks it has, and switches to a branch with more work, all   *)
(* of whose new blocks are valid.                                          *)
Validate(b) ==
    /\ b \in downloaded
    /\ header_dict[b] \in {"valid_header", "valid"}
    /\ MarkValid(b)

Switch(b) ==
    /\ b \in Known
    /\ Work[b] > ChainWork
    /\ \A a \in Elems(ForkAdd(b, active_chain)) : a \in downloaded /\ header_dict[a] = "valid"
    /\ SwitchTo(b)

Use ==
    /\ loading = {}
    /\ \/ \E b \in Blocks : AddHeader(b) \/ MarkDownloaded(b) \/ Validate(b) \/ Switch(b)
       \/ PopStale

Next ==
    \/ Use
    \/ Restart
    \/ \E b \in Blocks : LoadNext(b)

Spec == Init /\ [][Next]_indexVars
-----------------------------------------------------------------------------

TypeOK ==
    /\ header_dict \in [Blocks -> Status]
    /\ downloaded \subseteq Known
    /\ active_chain \in Seq(Blocks)
    /\ block_candidates \in Seq(Blocks)
    /\ header_index \in Seq(Blocks)
    /\ loading \subseteq Known

(* A header is recorded only after its parent. *)
AncestorsKnown == \A b \in Known : Elems(Path[b]) \subseteq Known

(* The active chain is one branch of the tree, and the persisted statuses  *)
(* tell exactly which blocks are on it.                                    *)
ActiveChainRecorded ==
    /\ IsBranch(active_chain)
    /\ InActiveChain = Elems(active_chain)

(* The header index is one branch, and no header the node knows of has     *)
(* more work than its tip: what the block locators advertise is the best   *)
(* chain known.  It would break if the fork with nothing to remove were    *)
(* ever cut out with chain[:-0].                                           *)
HeaderIndexBest ==
    /\ IsBranch(header_index)
    /\ Elems(header_index) \subseteq Known
    /\ \A b \in (Known \ loading) \cup InActiveChain :
          Work[b] <= Work[Tip(header_index)]

(* Every header with more work than the active chain, not yet validated,   *)
(* waits in block_candidates: none is popped too early or left out when    *)
(* the queue is rebuilt.                                                   *)
CandidatesComplete ==
    \A b \in Known \ loading :
        header_dict[b] = "valid_header" /\ Work[b] > ChainWork
            => b \in Elems(block_candidates)

(* A restart finds the active chain it left, whatever the switches and     *)
(* interrupted validations before it.                                      *)
RestartKeepsChain == [][Restart => active_chain' = active_chain]_indexVars

=============================================================================
