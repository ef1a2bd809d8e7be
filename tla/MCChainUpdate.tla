--------------------------- MODULE MCChainUpdate ----------------------------
(***************************************************************************)
(* Instances of ChainUpdate for TLC.  Each tree is a set of blocks with    *)
(* the branch to each; the works and the transactions are given once for   *)
(* all blocks.                                                             *)
(***************************************************************************)
EXTENDS ChainUpdate

(* Two branches of two blocks: the heavier may replace one or two blocks   *)
(* of the lighter.                                                         *)
ForkTree == {"g", "s", "a1", "a2", "b1", "b2"}

(* b1 and b2 together replace a1; small enough for a kill at any step.     *)
KillTree == {"g", "s", "a1", "b1", "b2"}

(* c1, heavier than a1 and d1, spends a coin twice; d1 and d2 together     *)
(* replace a1, whose transaction d1 holds too.                             *)
MixedTree == {"g", "s", "a1", "c1", "d1", "d2"}

(* d1 and d2 together outweigh a1, and spend nothing it creates. *)
PlainTree == {"g", "s", "a1", "d1", "d2"}

(* a1 and b1 hold one transaction, and h2 spends its coin. *)
SharedTree == {"g", "s", "a1", "b1", "h2"}

AllPaths ==
    [g  |-> <<"g">>, s |-> <<"g", "s">>,
     a1 |-> <<"g", "s", "a1">>, a2 |-> <<"g", "s", "a1", "a2">>,
     b1 |-> <<"g", "s", "b1">>, b2 |-> <<"g", "s", "b1", "b2">>,
     h2 |-> <<"g", "s", "b1", "h2">>, c1 |-> <<"g", "s", "c1">>,
     d1 |-> <<"g", "s", "d1">>, d2 |-> <<"g", "s", "d1", "d2">>]

AllWorks ==
    [g |-> 1, s |-> 2, a1 |-> 3, a2 |-> 4, b1 |-> 3, b2 |-> 5, h2 |-> 5, c1 |-> 4,
     d1 |-> 3, d2 |-> 4]

AllRanks ==
    [g |-> 1, s |-> 2, a1 |-> 3, a2 |-> 4, b1 |-> 5, b2 |-> 6, h2 |-> 7, c1 |-> 8,
     d1 |-> 9, d2 |-> 10]

MCPath == [b \in Blocks |-> AllPaths[b]]
MCWork == [b \in Blocks |-> AllWorks[b]]
MCRank == [b \in Blocks |-> AllRanks[b]]

MCCoins == {"cs", "cs2", "ca", "cb", "cd", "w", "x", "y", "z"}

Tx(ins, outs) == [ins |-> ins, outs |-> outs]

(* a1, b1 and d1 hold one transaction; b2 spends the coin w it creates.    *)
AllTxs ==
    [g  |-> <<Tx({}, {})>>,
     s  |-> <<Tx({}, {"cs", "cs2"})>>,
     a1 |-> <<Tx({}, {"ca"}), Tx({"cs"}, {"x"})>>,
     a2 |-> <<Tx({}, {"y"})>>,
     b1 |-> <<Tx({}, {"cb"}), Tx({"cs"}, {"x"})>>,
     b2 |-> <<Tx({}, {"y"}), Tx({"cs2"}, {"w"}), Tx({"w"}, {"z"})>>,
     h2 |-> <<Tx({}, {"y"}), Tx({"x"}, {"z"})>>,
     c1 |-> <<Tx({}, {}), Tx({"cs"}, {"y"}), Tx({"cs"}, {})>>,
     d1 |-> <<Tx({}, {"cd"}), Tx({"cs"}, {"x"}), Tx({"cs2"}, {"w"})>>,
     d2 |-> <<Tx({}, {}), Tx({"w"}, {"z"})>>]

MCTxs == [b \in Blocks |-> AllTxs[b]]

(* The transactions of a1, d1 and d2: the first is in a1 and in d1. *)
MCOffered == {Tx({"cs"}, {"x"}), Tx({"cs2"}, {"w"}), Tx({"w"}, {"z"})}
=============================================================================
