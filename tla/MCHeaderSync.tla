---------------------------- MODULE MCHeaderSync ----------------------------
(***************************************************************************)
(* An instance of HeaderSync for TLC: two branches from the genesis       *)
(* block, the longer of which outweighs the other only with its third      *)
(* header, one more than a message holds.                                  *)
(***************************************************************************)
EXTENDS HeaderSync

MCBlocks == {"g", "a1", "a2", "b1", "b2", "b3"}

MCPath == [g  |-> <<"g">>, a1 |-> <<"g", "a1">>, a2 |-> <<"g", "a1", "a2">>,
           b1 |-> <<"g", "b1">>, b2 |-> <<"g", "b1", "b2">>,
           b3 |-> <<"g", "b1", "b2", "b3">>]

MCWork == [g |-> 1, a1 |-> 2, a2 |-> 4, b1 |-> 2, b2 |-> 3, b3 |-> 5]

MCRank == [g |-> 1, a1 |-> 2, a2 |-> 3, b1 |-> 4, b2 |-> 5, b3 |-> 6]
=============================================================================
