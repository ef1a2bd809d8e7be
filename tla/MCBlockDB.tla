----------------------------- MODULE MCBlockDB ------------------------------
(***************************************************************************)
(* The instance of BlockDB for TLC: two blocks of one size, a larger one,  *)
(* and patches of one size.                                                *)
(***************************************************************************)
EXTENDS BlockDB

MCHashes == {"h1", "h2", "h3"}

MCSize == [key \in Keys |-> IF key = <<"blk", "h3">> THEN 2 ELSE 1]
=============================================================================
