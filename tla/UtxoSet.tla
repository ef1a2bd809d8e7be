------------------------------ MODULE UtxoSet -------------------------------
(***************************************************************************)
(* The promise of the utxo index: a set of coins with a tentative copy.    *)
(* Blocks are applied to and reverted from the copy, which is then         *)
(* committed or thrown away as a whole.                                    *)
(***************************************************************************)
EXTENDS Ledger

VARIABLES
    coins,      \* the committed set
    view        \* the tentative one

Init == coins = {} /\ view = {}

Apply(b) ==
    /\ \A j \in 1 .. Len(Txs[b]) :
          Txs[b][j].ins \subseteq (view \cup CreatedBefore(b, j)) \ SpentBefore(b, j)
    /\ view' = (view \cup Created(b)) \ Spent(b)
    /\ UNCHANGED coins

Revert(b) ==
    /\ Created(b) \subseteq view
    /\ view' = (view \ Created(b)) \cup Spent(b)
    /\ UNCHANGED coins

Commit == coins' = view /\ UNCHANGED view

Discard == view' = coins /\ UNCHANGED coins

Next ==
    \/ \E b \in Blocks : Apply(b) \/ Revert(b)
    \/ Commit
    \/ Discard

Spec == Init /\ [][Next]_<<coins, view>>
=============================================================================
