----------------------------- MODULE BlockTree -----------------------------
(***************************************************************************)
(* The tree of block headers a node can ever hear of.  A header names its  *)
(* parent (previous_block_hash), so a block determines the whole branch    *)
(* from the genesis block to itself: Path[b].  A header's bytes, its proof *)
(* of work and its hash are abstracted to what block_index.py uses of      *)
(* them: the parent, the cumulative work and the order of hashes.          *)
(*                                                                         *)
(* The module also defines the operations on branches that the block index *)
(* is built from: get_fork_details, the Python slice that drops the        *)
(* abandoned end of a chain, and the growth of the header index.           *)
(***************************************************************************)
EXTENDS Integers, Sequences

CONSTANTS
    Blocks,     \* every block (hash) there is
    Genesis,    \* chain.genesis
    Path,       \* Path[b]: the branch from Genesis to b, both included
    Work,       \* Work[b]: BlockInfo.chainwork, the work of the whole branch
    Rank        \* Rank[b]: the position of b's hash in the database's key order

Height(b) == Len(Path[b]) - 1              \* BlockInfo.index

Parent(b) == Path[b][Len(Path[b]) - 1]     \* header.previous_block_hash

Tip(chain) == chain[Len(chain)]

Elems(seq) == {seq[i] : i \in 1 .. Len(seq)}

(***************************************************************************)
(* Paths are branches of one tree rooted at Genesis, and a header adds a   *)
(* positive amount of work to its parent's (a 256-bit target never makes   *)
(* calculate_work return 0).                                               *)
(***************************************************************************)
ASSUME PathAssumption ==
    /\ Genesis \in Blocks
    /\ Path \in [Blocks -> Seq(Blocks)]
    /\ Path[Genesis] = <<Genesis>>
    /\ \A b \in Blocks :
          /\ Len(Path[b]) > 0
          /\ Path[b][1] = Genesis
          /\ Tip(Path[b]) = b
          /\ \A i \in 1 .. Len(Path[b]) : Path[Path[b][i]] = SubSeq(Path[b], 1, i)

ASSUME WorkAssumption ==
    /\ Work \in [Blocks -> Nat]
    /\ \A b \in Blocks \ {Genesis} : Work[Parent(b)] < Work[b]

ASSUME RankAssumption ==
    /\ Rank \in [Blocks -> Nat]
    /\ \A a, b \in Blocks : Rank[a] = Rank[b] => a = b

-----------------------------------------------------------------------------

(* A branch of the tree, from Genesis to the last of its blocks. *)
IsBranch(chain) == Len(chain) > 0 /\ chain = Path[Tip(chain)]

(* The positions at which a proper ancestor of h lies on chain.  The walk  *)
(* of get_fork_details goes from h towards Genesis and stops at the first, *)
(* that is the largest, of them.                                           *)
CommonPositions(h, chain) ==
    {i \in 1 .. Height(h) : i <= Len(chain) /\ Path[h][i] = chain[i]}

CommonLen(h, chain) ==
    CHOOSE k \in CommonPositions(h, chain) :
        \A i \in CommonPositions(h, chain) : i <= k

(* get_fork_details: the blocks to add, up to and including h, and the     *)
(* blocks of chain beyond the common ancestor, both in ascending order.    *)
ForkAdd(h, chain) == SubSeq(Path[h], CommonLen(h, chain) + 1, Len(Path[h]))

ForkRemove(h, chain) == SubSeq(chain, CommonLen(h, chain) + 1, Len(chain))

(* The Python slice chain[:-n].  It drops the last n elements, except that *)
(* [:-0] is [:0]: dropping nothing yields the empty list.                  *)
DropLast(chain, n) == IF n = 0 THEN <<>> ELSE SubSeq(chain, 1, Len(chain) - n)

(* Mutant: the work is compared before the parent, so that a child of the  *)
(* tip is taken for a fork that removes nothing.                           *)
ExtendByWork(index, h) ==
    IF Work[h] > Work[Tip(index)]
    THEN DropLast(index, Len(ForkRemove(h, index))) \o ForkAdd(h, index)
    ELSE index

(* A header index once it has heard of h: it grows by a child of its tip   *)
(* and moves to another branch only for more work.                         *)
ExtendHeaderIndex(index, h) ==
    CASE Parent(h) = Tip(index) -> Append(index, h)
      [] Parent(h) # Tip(index) /\ Work[h] > Work[Tip(index)] ->
            DropLast(index, Len(ForkRemove(h, index))) \o ForkAdd(h, index)
      [] OTHER -> index
=============================================================================
