---------------------------- MODULE MCBlockIndex ----------------------------
(* Instances of BlockIndex for TLC. *)
EXTENDS BlockIndex

(* Three branches: a1-a2, b1-b2 and c2, a child of a1 too.  Blocks differ  *)
(* in work, so that of two branches either may be the longer, the heavier  *)
(* or the first in the order of hashes; b2 and c2 are equally heavy.       *)
MCBlocks == {"g", "a1", "a2", "b1", "b2", "c2"}

MCParent == [a1 |-> "g", a2 |-> "a1", b1 |-> "g", b2 |-> "b1", c2 |-> "a1"]

MCBlockWork == [g |-> 1, a1 |-> 1, a2 |-> 2, b1 |-> 2, b2 |-> 2, c2 |-> 3]

MCPath[b \in MCBlocks] ==
    IF b = "g" THEN <<b>> ELSE Append(MCPath[MCParent[b]], b)

MCWork[b \in MCBlocks] ==
    IF b = "g" THEN MCBlockWork[b] ELSE MCWork[MCParent[b]] + MCBlockWork[b]

MCRank == [g |-> 3, a1 |-> 4, a2 |-> 1, b1 |-> 2, b2 |-> 6, c2 |-> 5]
=============================================================================
