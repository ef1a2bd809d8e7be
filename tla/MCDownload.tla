----------------------------- MODULE MCDownload -----------------------------
(***************************************************************************)
(* An instance of Download for TLC: a branch of two blocks and a block b1  *)
(* that outweighs the first of them.                                       *)
(***************************************************************************)
EXTENDS Download

MCBlocks == {"g", "a1", "a2", "b1"}

MCPath == [g  |-> <<"g">>, a1 |-> <<"g", "a1">>, a2 |-> <<"g", "a1", "a2">>,
           b1 |-> <<"g", "b1">>]

MCWork == [g |-> 1, a1 |-> 2, a2 |-> 3, b1 |-> 2]
MCRank == [g |-> 1, a1 |-> 2, a2 |-> 3, b1 |-> 4]
=============================================================================
