----------------------------- MODULE MCTxRelay -----------------------------
(***************************************************************************)
(* An instance of TxRelay for TLC: a transaction with two witnesses of     *)
(* different size, and a child that spends it.                             *)
(***************************************************************************)
EXTENDS TxRelay

MCTxs == {"t1", "t1w", "t2"}

MCTxId == [t1 |-> "id1", t1w |-> "id1", t2 |-> "id2"]

MCVSize == [t1 |-> 2, t1w |-> 3, t2 |-> 2]

MCParents == [t1 |-> {}, t1w |-> {}, t2 |-> {"id1"}]

MCEvents == {<<"hear", "n1", "t1">>, <<"hear", "n1", "t2">>, <<"send", "n2", "t1w">>,
             <<"reorg", "n2", "t1w">>}
=============================================================================
