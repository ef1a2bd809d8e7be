----------------------------- MODULE BestChain ------------------------------
(***************************************************************************)
(* What the chainstate promises to whoever reads it: a chain and the set   *)
(* of its unspent coins, which change together, and only for a branch with *)
(* more work on which every input is available.                            *)
(***************************************************************************)
EXTENDS Ledger

VARIABLES
    chain,      \* a branch of the tree
    utxo        \* the coins it leaves

Init ==
    /\ chain = <<Genesis>>
    /\ utxo = {}

Adopt(b) ==
    /\ Work[b] > Work[Tip(chain)]
    /\ ValidBranch(b)
    /\ chain' = Path[b]
    /\ utxo' = UtxoOf(b)

Next == \E b \in Blocks : Adopt(b)

Spec == Init /\ [][Next]_<<chain, utxo>>
=============================================================================
