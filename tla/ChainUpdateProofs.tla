------------------------- MODULE ChainUpdateProofs --------------------------
(***************************************************************************)
(* Chain and coins never disagree, for every tree, every ledger and any    *)
(* number of kills that leave the records of the block database as they    *)
(* were written: update_chain uses the block index and the utxo index as   *)
(* they are specified, and what it commits is what the new branch leaves.  *)
(* What holds whatever is read from the block database is proved first, as *)
(* Form; it carries the rest from one state to the next (NodeInv).         *)
(***************************************************************************)
EXTENDS ChainUpdate, BlockTreeLemmas, FiniteSetTheorems

IndexP == INSTANCE BlockIndexProofs
-----------------------------------------------------------------------------
(* The coins of a branch: what one more block does to them, that a coin of *)
(* a valid branch is spent once and after it was created, and what is left *)
(* when the end of a branch is reverted in ascending order.                *)

(* How the unions over the transactions of a block relate. *)
LEMMA LedgerFacts ==
    ASSUME NEW b \in Blocks
    PROVE  /\ Len(Txs[b]) \in Nat
           /\ Created(b) \subseteq Coins /\ Spent(b) \subseteq Coins
           /\ \A c \in Spent(b) : \E j \in 1 .. Len(Txs[b]) : c \in Txs[b][j].ins
           /\ \A j \in 1 .. Len(Txs[b]) :
                 /\ Txs[b][j].ins \subseteq Coins
                 /\ CreatedBefore(b, j) \subseteq Created(b)
<1>1. Txs[b] \in Seq([ins : SUBSET Coins, outs : SUBSET Coins])
  BY TxAssumption
<1>2. Len(Txs[b]) \in Nat
  BY <1>1
<1>3. \A j \in 1 .. Len(Txs[b]) :
         Txs[b][j].ins \subseteq Coins /\ Txs[b][j].outs \subseteq Coins
  <2> TAKE j \in 1 .. Len(Txs[b])
  <2>1. Txs[b][j] \in [ins : SUBSET Coins, outs : SUBSET Coins]
    BY <1>1, ElementOfSeq
  <2> QED
    BY <2>1
<1>4. 1 .. (Len(Txs[b]) + 1) - 1 = 1 .. Len(Txs[b])
  BY <1>2
<1>5. \A j \in 1 .. Len(Txs[b]) : 1 .. j - 1 \subseteq 1 .. Len(Txs[b])
  BY <1>2
<1>6. Created(b) = UNION {Txs[b][i].outs : i \in 1 .. Len(Txs[b])}
  BY <1>4, Zenon DEF Created, CreatedBefore
<1>7. Spent(b) = UNION {Txs[b][i].ins : i \in 1 .. Len(Txs[b])}
  BY <1>4, Zenon DEF Spent, SpentBefore
<1>8. Created(b) \subseteq Coins
  BY <1>3, <1>6
<1>9. Spent(b) \subseteq Coins
  BY <1>3, <1>7
<1>10. \A c \in Spent(b) : \E j \in 1 .. Len(Txs[b]) : c \in Txs[b][j].ins
  BY <1>7
<1>11. \A j \in 1 .. Len(Txs[b]) : CreatedBefore(b, j) \subseteq Created(b)
  BY <1>5, <1>6, Zenon DEF CreatedBefore
<1> QED
  BY <1>2, <1>3, <1>8, <1>9, <1>10, <1>11

(* A coin is created by one block of a branch. *)
LEMMA CreatedOnce ==
    ASSUME NEW b \in Blocks, NEW i \in 1 .. Len(Path[b]), NEW j \in 1 .. Len(Path[b]),
           NEW x \in Created(Path[b][i]), x \in Created(Path[b][j])
    PROVE  i = j
BY UniqueCoins

(* The coins left by a part of a branch. *)
LEMMA PrefixUtxo ==
    ASSUME NEW b \in Blocks, NEW n \in 1 .. Len(Path[b])
    PROVE  UtxoOf(Path[b][n]) =
               {c \in Coins :
                   \E i \in 1 .. n :
                       /\ c \in Created(Path[b][i])
                       /\ \A m \in i .. n : c \notin Spent(Path[b][m])}
<1>1. /\ Len(Path[Path[b][n]]) = n
      /\ \A j \in 1 .. n : Path[Path[b][n]][j] = Path[b][j]
  BY PrefixFacts
<1>2. n \in Nat
  BY PathFacts
<1>3. \A i \in 1 .. n : \A m \in i .. n : m \in 1 .. n
  BY <1>2
<1>4. UtxoOf(Path[b][n]) =
         {c \in Coins :
             \E i \in 1 .. n :
                 /\ c \in Created(Path[Path[b][n]][i])
                 /\ \A m \in i .. n : c \notin Spent(Path[Path[b][n]][m])}
  BY <1>1, Zenon DEF UtxoOf
<1> QED
  BY <1>1, <1>3, <1>4, Zenon

(* The genesis block leaves nothing. *)
LEMMA GenesisUtxo == UtxoOf(Genesis) = {} /\ ValidBranch(Genesis)
<1>1. Path[Genesis] = <<Genesis>> /\ Created(Genesis) = {}
  BY PathAssumption, TxAssumption
<1>2. Len(Path[Genesis]) = 1 /\ Path[Genesis][1] = Genesis
  BY <1>1
<1>3. \A i \in 1 .. Len(Path[Genesis]) : i = 1
  BY <1>2
<1>4. ~ \E i \in 2 .. Len(Path[Genesis]) : TRUE
  BY <1>2
<1> QED
  BY <1>1, <1>2, <1>3, <1>4 DEF UtxoOf, ValidBranch

(* The step from a block to the next on its branch. *)
LEMMA NextUtxo ==
    ASSUME NEW b \in Blocks, NEW n \in 2 .. Len(Path[b])
    PROVE  /\ n - 1 \in 1 .. Len(Path[b]) /\ n \in 1 .. Len(Path[b])
           /\ Parent(Path[b][n]) = Path[b][n - 1]
           /\ Created(Path[b][n]) \cap UtxoOf(Path[b][n - 1]) = {}
           /\ UtxoOf(Path[b][n]) =
                  (UtxoOf(Path[b][n - 1]) \cup Created(Path[b][n])) \ Spent(Path[b][n])
<1>1. Len(Path[b]) \in Nat
  BY PathFacts
<1>2. n - 1 \in 1 .. Len(Path[b]) /\ n \in 1 .. Len(Path[b]) /\ n - 1 \in 1 .. n /\ n # n - 1
  BY <1>1
<1>3. Parent(Path[b][n]) = Path[b][n - 1]
  BY <1>2, PrefixFacts DEF Parent
<1>4. \A x \in UtxoOf(Path[b][n]) : /\ x \in Coins
                                    /\ \E i \in 1 .. n :
                                          /\ x \in Created(Path[b][i])
                                          /\ \A m \in i .. n : x \notin Spent(Path[b][m])
  BY <1>2, PrefixUtxo
<1>5. \A x \in Coins : (\E i \in 1 .. n :
                           /\ x \in Created(Path[b][i])
                           /\ \A m \in i .. n : x \notin Spent(Path[b][m]))
          => x \in UtxoOf(Path[b][n])
  BY <1>2, PrefixUtxo
<1>6. \A x \in UtxoOf(Path[b][n - 1]) :
          /\ x \in Coins
          /\ \E i \in 1 .. n - 1 :
                /\ x \in Created(Path[b][i])
                /\ \A m \in i .. n - 1 : x \notin Spent(Path[b][m])
  BY <1>2, PrefixUtxo
<1>7. \A x \in Coins : (\E i \in 1 .. n - 1 :
                           /\ x \in Created(Path[b][i])
                           /\ \A m \in i .. n - 1 : x \notin Spent(Path[b][m]))
          => x \in UtxoOf(Path[b][n - 1])
  BY <1>2, PrefixUtxo
<1>8. Path[b][n] \in Blocks /\ Created(Path[b][n]) \subseteq Coins
  BY <1>2, PathFacts, LedgerFacts
<1>9. Created(Path[b][n]) \cap UtxoOf(Path[b][n - 1]) = {}
  <2> SUFFICES ASSUME NEW x \in UtxoOf(Path[b][n - 1]), x \in Created(Path[b][n])
               PROVE  FALSE
    OBVIOUS
  <2>1. PICK i \in 1 .. n - 1 : x \in Created(Path[b][i])
    BY <1>6
  <2>2. i \in 1 .. Len(Path[b]) /\ i # n
    BY <1>1, <2>1
  <2> QED
    BY <1>2, <2>1, <2>2, CreatedOnce
<1>10. ASSUME NEW x \in UtxoOf(Path[b][n])
       PROVE  x \in (UtxoOf(Path[b][n - 1]) \cup Created(Path[b][n])) \ Spent(Path[b][n])
  <2>1. PICK i \in 1 .. n : /\ x \in Created(Path[b][i])
                            /\ \A m \in i .. n : x \notin Spent(Path[b][m])
    BY <1>4
  <2>2. x \in Coins /\ n \in i .. n
    BY <1>1, <1>4
  <2>3. CASE i = n
    BY <2>1, <2>2, <2>3
  <2>4. CASE i # n
    <3>1. i \in 1 .. n - 1 /\ \A m \in i .. n - 1 : m \in i .. n
      BY <1>1, <2>4
    <3> QED
      BY <1>7, <2>1, <2>2, <3>1
  <2> QED
    BY <2>3, <2>4
<1>11. ASSUME NEW x \in UtxoOf(Path[b][n - 1]), x \notin Spent(Path[b][n])
       PROVE  x \in UtxoOf(Path[b][n])
  <2>1. PICK i \in 1 .. n - 1 : /\ x \in Created(Path[b][i])
                                /\ \A m \in i .. n - 1 : x \notin Spent(Path[b][m])
    BY <1>6
  <2>2. i \in 1 .. n /\ \A m \in i .. n : m \in i .. n - 1 \/ m = n
    BY <1>1
  <2>3. x \in Coins
    BY <1>6
  <2> QED
    BY <1>5, <1>11, <2>1, <2>2, <2>3
<1>12. ASSUME NEW x \in Created(Path[b][n]), x \notin Spent(Path[b][n])
       PROVE  x \in UtxoOf(Path[b][n])
  <2>1. n \in 1 .. n /\ \A m \in n .. n : m = n
    BY <1>1
  <2> QED
    BY <1>5, <1>8, <1>12, <2>1
<1> QED
  BY <1>2, <1>3, <1>9, <1>10, <1>11, <1>12

(* A branch is valid as far as it is and its next block finds its coins. *)
LEMMA NextValid ==
    ASSUME NEW b \in Blocks, NEW n \in 2 .. Len(Path[b])
    PROVE  ValidBranch(Path[b][n]) <=>
               ValidBranch(Path[b][n - 1]) /\ SpendsAvailable(Path[b][n])
<1>1. Len(Path[b]) \in Nat
  BY PathFacts
<1>2. n - 1 \in 1 .. Len(Path[b]) /\ n \in 1 .. Len(Path[b])
  BY <1>1
<1>3. ASSUME NEW m \in 1 .. Len(Path[b])
      PROVE  ValidBranch(Path[b][m]) <=> \A i \in 2 .. m : SpendsAvailable(Path[b][i])
  <2>1. Len(Path[Path[b][m]]) = m /\ \A j \in 1 .. m : Path[Path[b][m]][j] = Path[b][j]
    BY PrefixFacts
  <2>2. \A i \in 2 .. m : i \in 1 .. m
    BY <1>1
  <2> QED
    BY <2>1, <2>2, Zenon DEF ValidBranch
<1>4. \A i : i \in 2 .. n <=> i \in 2 .. n - 1 \/ i = n
  BY <1>1
<1> QED
  BY <1>2, <1>3, <1>4, Zenon

(* Each part of a valid branch is valid. *)
LEMMA PrefixValid ==
    ASSUME NEW b \in Blocks, ValidBranch(b), NEW n \in 1 .. Len(Path[b])
    PROVE  ValidBranch(Path[b][n])
<1>1. Len(Path[b]) \in Nat
  BY PathFacts
<1>2. Len(Path[Path[b][n]]) = n /\ \A j \in 1 .. n : Path[Path[b][n]][j] = Path[b][j]
  BY PrefixFacts
<1>3. \A i \in 2 .. n : i \in 1 .. n /\ i \in 2 .. Len(Path[b])
  BY <1>1
<1> QED
  BY <1>2, <1>3, Zenon DEF ValidBranch
-----------------------------------------------------------------------------

(* On a valid branch a coin is spent at or after the block that creates it,*)
(* and by no other block.                                                  *)
LEMMA SpentOnce ==
    ASSUME NEW b \in Blocks, ValidBranch(b), NEW m \in 1 .. Len(Path[b]),
           NEW x \in Spent(Path[b][m])
    PROVE  /\ \E i \in 1 .. m : x \in Created(Path[b][i])
           /\ \A j \in 1 .. Len(Path[b]) : x \in Spent(Path[b][j]) => j = m
<1> DEFINE n == Len(Path[b])
<1>1. n \in Nat /\ Path[b][1] = Genesis
  BY PathFacts
<1>2. ASSUME NEW j \in 1 .. n, NEW y \in Spent(Path[b][j])
      PROVE  /\ j \in 2 .. n
             /\ \/ y \in UtxoOf(Path[b][j - 1])
                \/ y \in Created(Path[b][j])
  <2>1. j # 1
    BY <1>1, <1>2, TxAssumption
  <2>2. j \in 2 .. n
    BY <1>1, <2>1
  <2>3. SpendsAvailable(Path[b][j]) /\ Path[b][j] \in Blocks
    BY <2>2, PathFacts DEF ValidBranch
  <2>4. PICK t \in 1 .. Len(Txs[Path[b][j]]) : y \in Txs[Path[b][j]][t].ins
    BY <1>2, <2>3, LedgerFacts
  <2>5. y \in UtxoOf(Parent(Path[b][j])) \cup CreatedBefore(Path[b][j], t)
    BY <2>3, <2>4 DEF SpendsAvailable
  <2>6. CreatedBefore(Path[b][j], t) \subseteq Created(Path[b][j])
    BY <2>3, LedgerFacts
  <2>7. Parent(Path[b][j]) = Path[b][j - 1]
    BY <2>2, NextUtxo
  <2> QED
    BY <2>2, <2>5, <2>6, <2>7
<1>3. ASSUME NEW j \in 1 .. n, NEW y \in Spent(Path[b][j])
      PROVE  \E i \in 1 .. j : y \in Created(Path[b][i])
  <2>1. j \in 2 .. n /\ (y \in UtxoOf(Path[b][j - 1]) \/ y \in Created(Path[b][j]))
    BY <1>2, <1>3, Zenon
  <2>2. CASE y \in Created(Path[b][j])
    BY <1>1, <2>2
  <2>3. CASE y \in UtxoOf(Path[b][j - 1])
    <3>1. j - 1 \in 1 .. n
      BY <1>1, <2>1
    <3>2. \E i \in 1 .. j - 1 : y \in Created(Path[b][i])
      BY <2>3, <3>1, PrefixUtxo
    <3> QED
      BY <1>1, <3>2
  <2> QED
    BY <2>1, <2>2, <2>3
<1>4. ASSUME NEW j \in 1 .. n, NEW l \in 1 .. n, j < l,
             NEW y \in Spent(Path[b][j]), y \in Spent(Path[b][l])
      PROVE  FALSE
  <2>1. PICK i \in 1 .. j : y \in Created(Path[b][i])
    BY <1>3
  <2>2. i \in 1 .. n /\ i # l
    BY <1>1, <1>4, <2>1
  <2>3. y \notin Created(Path[b][l])
    BY <2>1, <2>2, CreatedOnce
  <2>4. l - 1 \in 1 .. n /\ y \in UtxoOf(Path[b][l - 1])
    <3>1. l \in 2 .. n /\ y \in UtxoOf(Path[b][l - 1])
      BY <1>2, <1>4, <2>3, Zenon
    <3> QED
      BY <1>1, <3>1
  <2>5. PICK i2 \in 1 .. l - 1 : /\ y \in Created(Path[b][i2])
                                 /\ \A q \in i2 .. l - 1 : y \notin Spent(Path[b][q])
    BY <2>4, PrefixUtxo
  <2>6. i2 \in 1 .. n
    BY <1>1, <2>5
  <2>7. i2 = i
    BY <2>1, <2>2, <2>5, <2>6, CreatedOnce
  <2>8. j \in i2 .. l - 1
    BY <1>1, <1>4, <2>1, <2>7
  <2> QED
    BY <1>4, <2>5, <2>8
<1>5. ASSUME NEW j \in 1 .. n, x \in Spent(Path[b][j])
      PROVE  j = m
  <2>1. ~ (j < m) /\ ~ (m < j)
    BY <1>4, <1>5
  <2> QED
    BY <1>1, <2>1
<1> QED
  BY <1>3, <1>5
-----------------------------------------------------------------------------

(* What is staged over the coins of the branch to b once its blocks at     *)
(* k + 1 .. k + d are reverted: the coins the others leave, and those the  *)
(* reverted ones spent.                                                    *)
RevertedView(b, k, d) ==
    {x \in Coins :
        \/ \E i \in (1 .. Len(Path[b])) \ (k + 1 .. k + d) :
              /\ x \in Created(Path[b][i])
              /\ \A m \in i .. Len(Path[b]) : x \notin Spent(Path[b][m])
        \/ \E m \in k + 1 .. k + d : x \in Spent(Path[b][m])}

(* Only blocks can be reverted none of whose coins the branch spends. *)
NothingSpent(b, k, d) ==
    \A i \in k + 1 .. k + d : \A m \in 1 .. Len(Path[b]) :
        Created(Path[b][i]) \cap Spent(Path[b][m]) = {}

(* Before the first one is. *)
LEMMA RevertNone ==
    ASSUME NEW b \in Blocks, NEW k \in 1 .. Len(Path[b])
    PROVE  RevertedView(b, k, 0) = UtxoOf(b) /\ NothingSpent(b, k, 0)
<1>1. Len(Path[b]) \in Nat
  BY PathFacts
<1>2. k + 1 .. k + 0 = {}
  BY <1>1
<1> QED
  BY <1>2, Zenon DEF RevertedView, UtxoOf, NothingSpent

(* One more block: it can be reverted only if nothing it created is spent, *)
(* and what it spent is not there yet.                                     *)
LEMMA RevertNext ==
    ASSUME NEW b \in Blocks, ValidBranch(b), NEW k \in 1 .. Len(Path[b]), NEW d \in Nat,
           k + d + 1 <= Len(Path[b]),
           NothingSpent(b, k, d),
           Created(Path[b][k + d + 1]) \subseteq RevertedView(b, k, d)
    PROVE  LET r == Path[b][k + d + 1]
           IN  /\ (Spent(r) \ Created(r)) \cap RevertedView(b, k, d) = {}
               /\ RevertedView(b, k, d + 1) = (RevertedView(b, k, d) \ Created(r)) \cup Spent(r)
               /\ NothingSpent(b, k, d + 1)
<1> DEFINE n == Len(Path[b])
           j == k + d + 1
           r == Path[b][j]
           V == RevertedView(b, k, d)
           W == RevertedView(b, k, d + 1)
           Left(x, i) == /\ x \in Created(Path[b][i])
                         /\ \A m \in i .. n : x \notin Spent(Path[b][m])
<1>1. /\ n \in Nat /\ j \in 1 .. n
      /\ \A i \in k + 1 .. k + d : i \in 1 .. n /\ i < j
      /\ \A i : i \in k + 1 .. k + (d + 1) <=> i \in k + 1 .. k + d \/ i = j
  BY PathFacts
<1>2. r \in Blocks /\ Created(r) \subseteq Coins /\ Spent(r) \subseteq Coins
  BY <1>1, PathFacts, LedgerFacts
<1>3. \A x : x \in V <=> /\ x \in Coins
                         /\ \/ \E i \in (1 .. n) \ (k + 1 .. k + d) : Left(x, i)
                            \/ \E m \in k + 1 .. k + d : x \in Spent(Path[b][m])
  BY Zenon DEF RevertedView
<1>4. \A x : x \in W <=> /\ x \in Coins
                         /\ \/ \E i \in (1 .. n) \ (k + 1 .. k + (d + 1)) : Left(x, i)
                            \/ \E m \in k + 1 .. k + (d + 1) : x \in Spent(Path[b][m])
  BY Zenon DEF RevertedView
<1>5. ASSUME NEW x \in Created(r), NEW m \in 1 .. n, x \in Spent(Path[b][m])
      PROVE  FALSE
  <2>1. PICK i \in 1 .. m : x \in Created(Path[b][i])
    BY <1>5, SpentOnce
  <2>2. i \in 1 .. n
    BY <1>1, <2>1
  <2>3. i = j
    BY <1>1, <1>5, <2>1, <2>2, CreatedOnce, Zenon
  <2>7. m \in j .. n
    BY <1>1, <2>1, <2>3
  <2>4. x \in V
    BY <1>5
  <2>5. CASE \E i2 \in (1 .. n) \ (k + 1 .. k + d) : Left(x, i2)
    <3>1. PICK i2 \in 1 .. n : Left(x, i2)
      BY <2>5
    <3>2. i2 = j
      BY <1>1, <1>5, <3>1, CreatedOnce
    <3> QED
      BY <1>5, <2>7, <3>1, <3>2
  <2>6. CASE \E m2 \in k + 1 .. k + d : x \in Spent(Path[b][m2])
    <3>1. PICK m2 \in k + 1 .. k + d : x \in Spent(Path[b][m2])
      BY <2>6
    <3>2. m2 \in 1 .. n /\ m2 < j
      BY <1>1, <3>1
    <3>3. m2 = m
      BY <1>5, <3>1, <3>2, SpentOnce
    <3> QED
      BY <1>1, <2>7, <3>2, <3>3
  <2> QED
    BY <1>3, <2>4, <2>5, <2>6
<1>6. ASSUME NEW x \in Spent(r), x \in V
      PROVE  FALSE
  <2>1. CASE \E i \in (1 .. n) \ (k + 1 .. k + d) : Left(x, i)
    <3>1. PICK i \in 1 .. n : Left(x, i)
      BY <2>1
    <3>2. PICK i2 \in 1 .. j : x \in Created(Path[b][i2])
      BY <1>1, <1>6, SpentOnce
    <3>3. i2 \in 1 .. n
      BY <1>1, <3>2
    <3>4. i2 = i
      BY <3>1, <3>2, <3>3, CreatedOnce, Zenon
    <3>5. j \in i .. n
      BY <1>1, <3>2, <3>4
    <3> QED
      BY <1>6, <3>1, <3>5
  <2>2. CASE \E m \in k + 1 .. k + d : x \in Spent(Path[b][m])
    <3>1. PICK m \in k + 1 .. k + d : x \in Spent(Path[b][m])
      BY <2>2
    <3>2. m \in 1 .. n /\ m < j
      BY <1>1, <3>1
    <3>3. m = j
      BY <1>1, <1>6, <3>1, <3>2, SpentOnce
    <3> QED
      BY <1>1, <3>2, <3>3
  <2> QED
    BY <1>3, <1>6, <2>1, <2>2
<1>7. ASSUME NEW x \in W, x \notin Spent(r)
      PROVE  x \in V /\ x \notin Created(r)
  <2>1. CASE \E i \in (1 .. n) \ (k + 1 .. k + (d + 1)) : Left(x, i)
    <3>1. PICK i \in (1 .. n) \ (k + 1 .. k + (d + 1)) : Left(x, i)
      BY <2>1
    <3>2. i \in (1 .. n) \ (k + 1 .. k + d) /\ i # j
      BY <1>1, <3>1
    <3>3. x \notin Created(r)
      BY <1>1, <3>1, <3>2, CreatedOnce
    <3> QED
      BY <1>3, <1>4, <3>1, <3>2, <3>3
  <2>2. CASE \E m \in k + 1 .. k + (d + 1) : x \in Spent(Path[b][m])
    <3>1. PICK m \in k + 1 .. k + (d + 1) : x \in Spent(Path[b][m])
      BY <2>2
    <3>2. m \in k + 1 .. k + d /\ m \in 1 .. n
      BY <1>1, <1>7, <3>1
    <3>3. x \notin Created(r)
      BY <1>5, <3>1, <3>2
    <3> QED
      BY <1>3, <1>4, <3>1, <3>2, <3>3
  <2> QED
    BY <1>4, <2>1, <2>2
<1>8. ASSUME NEW x \in V, x \notin Created(r)
      PROVE  x \in W
  <2>1. CASE \E i \in (1 .. n) \ (k + 1 .. k + d) : Left(x, i)
    <3>1. PICK i \in (1 .. n) \ (k + 1 .. k + d) : Left(x, i)
      BY <2>1
    <3>2. i # j
      BY <1>8, <3>1
    <3>3. i \in (1 .. n) \ (k + 1 .. k + (d + 1))
      BY <1>1, <3>1, <3>2
    <3> QED
      BY <1>3, <1>4, <3>1, <3>3
  <2>2. CASE \E m \in k + 1 .. k + d : x \in Spent(Path[b][m])
    BY <1>1, <1>3, <1>4, <2>2
  <2> QED
    BY <1>3, <2>1, <2>2
<1>9. ASSUME NEW x \in Spent(r)
      PROVE  x \in W
  BY <1>1, <1>2, <1>4, <1>9
<1>10. W = (V \ Created(r)) \cup Spent(r)
  BY <1>7, <1>8, <1>9
<1>11. NothingSpent(b, k, d + 1)
  <2> SUFFICES ASSUME NEW i \in k + 1 .. k + (d + 1), NEW m \in 1 .. n
               PROVE  Created(Path[b][i]) \cap Spent(Path[b][m]) = {}
    BY DEF NothingSpent
  <2>1. CASE i = j
    BY <1>5, <2>1
  <2>2. CASE i # j
    BY <1>1, <2>2 DEF NothingSpent
  <2> QED
    BY <2>1, <2>2
<1> QED
  BY <1>6, <1>10, <1>11

(* Once all of them are, the coins of the part that is left. *)
LEMMA RevertAll ==
    ASSUME NEW b \in Blocks, ValidBranch(b), NEW k \in 1 .. Len(Path[b]), NEW d \in Nat,
           k + d = Len(Path[b]), NothingSpent(b, k, d)
    PROVE  RevertedView(b, k, d) = UtxoOf(Path[b][k])
<1> DEFINE n == Len(Path[b])
           V == RevertedView(b, k, d)
           Left(x, i, l) == /\ x \in Created(Path[b][i])
                            /\ \A m \in i .. l : x \notin Spent(Path[b][m])
<1>1. /\ n \in Nat
      /\ \A i : i \in (1 .. n) \ (k + 1 .. k + d) <=> i \in 1 .. k
      /\ \A i \in 1 .. k : i \in 1 .. n
      /\ \A i \in k + 1 .. n : i \in 1 .. n
  BY PathFacts
<1>2. \A x : x \in V <=> /\ x \in Coins
                         /\ \/ \E i \in 1 .. k : Left(x, i, n)
                            \/ \E m \in k + 1 .. n : x \in Spent(Path[b][m])
  BY <1>1, Zenon DEF RevertedView
<1>3. \A x : x \in UtxoOf(Path[b][k]) <=> x \in Coins /\ \E i \in 1 .. k : Left(x, i, k)
  BY PrefixUtxo
<1>4. ASSUME NEW x \in V PROVE x \in UtxoOf(Path[b][k])
  <2>1. CASE \E i \in 1 .. k : Left(x, i, n)
    <3>1. PICK i \in 1 .. k : Left(x, i, n)
      BY <2>1
    <3>2. Left(x, i, k)
      BY <1>1, <3>1
    <3> QED
      BY <1>2, <1>3, <3>2
  <2>2. CASE \E m \in k + 1 .. n : x \in Spent(Path[b][m])
    <3>1. PICK m \in k + 1 .. n : x \in Spent(Path[b][m])
      BY <2>2
    <3>2. m \in 1 .. n /\ \A q \in 1 .. k : q \in 1 .. n /\ q # m
      BY <1>1, <3>1
    <3>3. PICK i \in 1 .. m : x \in Created(Path[b][i])
      BY <3>1, <3>2, SpentOnce
    <3>4. i \in 1 .. k
      <4>1. SUFFICES ASSUME i \notin 1 .. k PROVE FALSE
        OBVIOUS
      <4>2. i \in k + 1 .. k + d
        BY <1>1, <3>1, <3>3, <4>1
      <4> QED
        BY <3>1, <3>2, <3>3, <4>2 DEF NothingSpent
    <3>5. \A q \in 1 .. k : x \notin Spent(Path[b][q])
      BY <3>1, <3>2, SpentOnce
    <3>6. Left(x, i, k)
      BY <1>1, <3>3, <3>4, <3>5
    <3> QED
      BY <1>2, <1>3, <3>4, <3>6
  <2> QED
    BY <1>2, <2>1, <2>2
<1>5. ASSUME NEW x \in UtxoOf(Path[b][k]) PROVE x \in V
  <2>1. PICK i \in 1 .. k : Left(x, i, k)
    BY <1>3
  <2>2. \A q \in i .. n : q \in i .. k \/ q \in k + 1 .. n
    BY <1>1
  <2>3. Left(x, i, n) \/ \E m \in k + 1 .. n : x \in Spent(Path[b][m])
    BY <2>1, <2>2
  <2> QED
    BY <1>2, <1>3, <2>1, <2>3
<1> QED
  BY <1>4, <1>5
-----------------------------------------------------------------------------
(* The instances speak of the same operators.                              *)

LEMMA SameTree ==
    /\ \A b : Index!Height(b) = Height(b) /\ Index!Parent(b) = Parent(b)
    /\ \A c : Index!Tip(c) = Tip(c) /\ Index!Elems(c) = Elems(c)
    /\ \A c : Index!IsBranch(c) = IsBranch(c)
    /\ \A h, c : /\ Index!ForkAdd(h, c) = ForkAdd(h, c)
                 /\ Index!ForkRemove(h, c) = ForkRemove(h, c)
BY Zenon DEF Index!Height, Index!Parent, Index!Tip, Index!Elems, Index!IsBranch,
             Index!ForkAdd, Index!ForkRemove, Index!CommonLen, Index!CommonPositions,
             Height, Parent, Tip, Elems, IsBranch, ForkAdd, ForkRemove, CommonLen,
             CommonPositions

LEMMA SameTreeProofs ==
    /\ \A b : IndexP!Height(b) = Index!Height(b) /\ IndexP!Parent(b) = Index!Parent(b)
    /\ \A c : IndexP!Tip(c) = Index!Tip(c) /\ IndexP!Elems(c) = Index!Elems(c)
    /\ \A c : IndexP!IsBranch(c) = Index!IsBranch(c)
    /\ \A h, c : /\ IndexP!ForkAdd(h, c) = Index!ForkAdd(h, c)
                 /\ IndexP!ForkRemove(h, c) = Index!ForkRemove(h, c)
                 /\ IndexP!ExtendHeaderIndex(h, c) = Index!ExtendHeaderIndex(h, c)
BY Zenon DEF IndexP!Height, IndexP!Parent, IndexP!Tip, IndexP!Elems, IndexP!IsBranch,
             IndexP!ForkAdd, IndexP!ForkRemove, IndexP!CommonLen, IndexP!CommonPositions,
             IndexP!ExtendHeaderIndex, IndexP!DropLast,
             Index!Height, Index!Parent, Index!Tip, Index!Elems, Index!IsBranch,
             Index!ForkAdd, Index!ForkRemove, Index!CommonLen, Index!CommonPositions,
             Index!ExtendHeaderIndex, Index!DropLast

LEMMA SameIndexState ==
    /\ IndexP!Known = Index!Known
    /\ IndexP!ChainWork = Index!ChainWork
    /\ IndexP!LiveCandidates = Index!LiveCandidates
    /\ IndexP!InActiveChain = Index!InActiveChain
    /\ IndexP!TypeOK = Index!TypeOK
BY Zenon DEF IndexP!Known, Index!Known, IndexP!ChainWork, Index!ChainWork, IndexP!Tip,
             Index!Tip, IndexP!LiveCandidates, Index!LiveCandidates, IndexP!StaleEntries,
             Index!StaleEntries, IndexP!InActiveChain, Index!InActiveChain,
             IndexP!TypeOK, Index!TypeOK, IndexP!Status, Index!Status

LEMMA SameGeneratedChain == IndexP!GeneratedChain = Index!GeneratedChain
BY Zenon
   DEF IndexP!GeneratedChain, Index!GeneratedChain, IndexP!LastAt, Index!LastAt,
       IndexP!NthHeight, Index!NthHeight, IndexP!ActiveHeights, Index!ActiveHeights,
       IndexP!InActiveChain, Index!InActiveChain, IndexP!Height, Index!Height,
       IndexP!Cardinality, Index!Cardinality

LEMMA SameIndexSteps ==
    /\ \A h : IndexP!AddHeader(h) <=> Index!AddHeader(h)
    /\ \A b : IndexP!MarkDownloaded(b) <=> Index!MarkDownloaded(b)
    /\ \A b : IndexP!Validate(b) <=> Index!Validate(b)
    /\ \A b : IndexP!Switch(b) <=> Index!Switch(b)
    /\ IndexP!PopStale <=> Index!PopStale
    /\ IndexP!Restart <=> Index!Restart
    /\ \A h : IndexP!LoadNext(h) <=> Index!LoadNext(h)
<1>1. /\ \A b : Index!Height(b) = IndexP!Height(b) /\ Index!Parent(b) = IndexP!Parent(b)
      /\ \A c : Index!Tip(c) = IndexP!Tip(c) /\ Index!Elems(c) = IndexP!Elems(c)
      /\ \A h, c : /\ Index!ForkAdd(h, c) = IndexP!ForkAdd(h, c)
                   /\ Index!ForkRemove(h, c) = IndexP!ForkRemove(h, c)
                   /\ Index!ExtendHeaderIndex(h, c) = IndexP!ExtendHeaderIndex(h, c)
  BY SameTreeProofs, Zenon
<1>2. /\ Index!Known = IndexP!Known /\ Index!ChainWork = IndexP!ChainWork
      /\ Index!LiveCandidates = IndexP!LiveCandidates
      /\ Index!GeneratedChain = IndexP!GeneratedChain
  BY SameIndexState, SameGeneratedChain, Zenon
<1>3. \A h : IndexP!AddHeader(h) <=> Index!AddHeader(h)
  BY <1>1, <1>2, Zenon DEF IndexP!AddHeader, Index!AddHeader
<1>4. \A b : IndexP!MarkDownloaded(b) <=> Index!MarkDownloaded(b)
  BY <1>2, Zenon DEF IndexP!MarkDownloaded, Index!MarkDownloaded
<1>5. \A b : IndexP!Validate(b) <=> Index!Validate(b)
  BY Zenon DEF IndexP!Validate, Index!Validate, IndexP!MarkValid, Index!MarkValid
<1>6. \A b : IndexP!Switch(b) <=> Index!Switch(b)
  BY <1>1, <1>2, Zenon DEF IndexP!Switch, Index!Switch, IndexP!SwitchTo, Index!SwitchTo,
     IndexP!MoveChain, Index!MoveChain, IndexP!Move, Index!Move, IndexP!CanMove, Index!CanMove
<1>7. IndexP!PopStale <=> Index!PopStale
  BY <1>2, Zenon DEF IndexP!PopStale, Index!PopStale
<1>8. IndexP!Restart <=> Index!Restart
  BY <1>2, Zenon DEF IndexP!Restart, Index!Restart
<1>9. \A h : IndexP!LoadNext(h) <=> Index!LoadNext(h)
  BY <1>1, <1>2, Zenon DEF IndexP!LoadNext, Index!LoadNext, IndexP!IsFirst, Index!IsFirst
<1> QED
  BY <1>3, <1>4, <1>5, <1>6, <1>7, <1>8, <1>9

LEMMA SameIndex ==
    /\ IndexP!Init <=> Index!Init
    /\ IndexP!Next <=> Index!Next
<1>1. IndexP!Init <=> Index!Init
  BY Zenon DEF IndexP!Init, Index!Init
<1>2. IndexP!Next <=> Index!Next
  BY SameIndexSteps, Zenon DEF IndexP!Next, Index!Next, IndexP!Use, Index!Use
<1> QED
  BY <1>1, <1>2
-----------------------------------------------------------------------------
(* The block index, as update_chain and the callbacks use it.              *)

IndexInv == IndexP!Inv

(* A new index is in order. *)
LEMMA IndexStart == Index!Init => IndexInv
BY IndexP!InitInv, SameIndex, PathAssumption, WorkAssumption, RankAssumption, ChainAssumption,
   Zenon DEF IndexInv, IndexP!Tip, Tip, IndexP!Parent, Parent

(* It stays so whatever is done to it. *)
LEMMA IndexStep ==
    ASSUME IndexInv, [Index!Next]_indexVars
    PROVE  IndexInv'
<1>1. IndexP!Inv /\ [IndexP!Next]_indexVars => IndexP!Inv'
  BY IndexP!NextInv, PathAssumption, WorkAssumption, RankAssumption, ChainAssumption, Zenon
     DEF IndexP!Tip, Tip, IndexP!Parent, Parent, IndexP!indexVars, indexVars
<1> QED
  BY <1>1, SameIndex, Zenon DEF IndexInv

(* What there is to know of an index in order. *)
LEMMA IndexFacts ==
    ASSUME IndexInv
    PROVE  /\ Index!TypeOK
           /\ header_dict \in [Blocks -> {"unknown", "valid_header", "valid", "in_active_chain"}]
           /\ downloaded \subseteq Index!Known
           /\ Index!Known \subseteq Blocks
           /\ active_chain \in Seq(Blocks) /\ IsBranch(active_chain)
           /\ Index!LiveCandidates \in Seq(Blocks)
           /\ \A b \in Blocks : header_dict[b] = "in_active_chain" <=> b \in Elems(active_chain)
           /\ Index!ChainWork = Work[Tip(active_chain)]
<1>1. /\ IndexP!TypeOK /\ IndexP!ActiveChainRecorded
  BY Zenon DEF IndexInv, IndexP!Inv
<1>2. Index!TypeOK
  BY <1>1, SameIndexState, Zenon
<1>3. IndexP!IsBranch(active_chain) /\ IndexP!InActiveChain = IndexP!Elems(active_chain)
  BY <1>1, Zenon DEF IndexP!ActiveChainRecorded
<1>4. IsBranch(active_chain) /\ Index!InActiveChain = Elems(active_chain)
  BY <1>3, SameTree, SameTreeProofs, SameIndexState, Zenon
<1>5. Index!LiveCandidates \in Seq(Blocks)
  <2>1. block_candidates \in Seq(Blocks)
    BY <1>1, Zenon DEF IndexP!TypeOK
  <2>2. IndexP!ChainWork \in Nat
    BY IndexP!GenesisKnown, PathAssumption, WorkAssumption, RankAssumption, ChainAssumption,
       Zenon DEF IndexInv, IndexP!Tip, Tip, IndexP!Parent, Parent
  <2>3. IndexP!LiveCandidates \in Seq(Blocks)
    BY <2>1, <2>2, IndexP!LiveFacts, PathAssumption, WorkAssumption, RankAssumption,
       ChainAssumption, Zenon DEF IndexP!Tip, Tip, IndexP!Parent, Parent
  <2> QED
    BY <2>3, SameIndexState, Zenon
<1>6. Index!ChainWork = Work[Tip(active_chain)]
  BY SameTree, Zenon DEF Index!ChainWork
<1>7. \A b \in Elems(active_chain) : b \in Blocks
  BY <1>4, Zenon DEF Index!InActiveChain
<1> QED
  BY <1>2, <1>4, <1>5, <1>6, <1>7 DEF Index!TypeOK, Index!Known, Index!InActiveChain, Index!Status

(* The branch get_first_candidate returns is heavier than the active chain.*)
LEMMA CandidateOf ==
    ASSUME Index!LiveCandidates \in Seq(Blocks), Index!HasCandidate
    PROVE  /\ Index!FirstCandidate \in Blocks
           /\ Work[Index!FirstCandidate] > Index!ChainWork
<1> DEFINE q == Index!LiveCandidates
           pool == IF Index!BetterDownloaded # {} THEN Index!BetterDownloaded ELSE Index!Better
           m == CHOOSE i \in pool : \A j \in pool : i <= j
<1>1. q \in Seq(Blocks) /\ Len(q) \in Nat /\ \A i \in 1 .. Len(q) : q[i] \in Blocks
  BY ElementOfSeq, LenProperties
<1>2. /\ \A i \in Index!Better : i \in 1 .. Len(q) /\ Work[q[i]] > Index!ChainWork
      /\ Index!BetterDownloaded \subseteq Index!Better
  BY DEF Index!Better, Index!BetterDownloaded
<1>3. pool # {} /\ pool \subseteq Index!Better
  BY <1>2 DEF Index!HasCandidate
<1>4. pool \in SUBSET Nat
  BY <1>1, <1>2, <1>3
<1>5. m \in pool
  <2> HIDE DEF pool
  <2>1. \E i \in pool : \A j \in pool : i <= j
    BY <1>3, <1>4, MinExists
  <2> QED
    BY <2>1
<1>6. Index!FirstCandidate = q[m]
  BY Zenon DEF Index!FirstCandidate
<1> HIDE DEF m, pool, q
<1>7. m \in 1 .. Len(q) /\ Work[q[m]] > Index!ChainWork
  BY <1>2, <1>3, <1>5
<1> QED
  BY <1>1, <1>6, <1>7

LEMMA CandidateFacts ==
    ASSUME IndexInv, Index!HasCandidate
    PROVE  /\ Index!FirstCandidate \in Blocks
           /\ Work[Index!FirstCandidate] > Work[Tip(active_chain)]
BY IndexFacts, CandidateOf

(* A header is recorded. *)
LEMMA HeaderStep ==
    ASSUME IndexInv, loading = {}, NEW h \in Blocks, Index!AddHeader(h)
    PROVE  /\ Index!Next /\ IndexInv'
           /\ Index!Known \subseteq Index!Known'
           /\ UNCHANGED <<downloaded, active_chain, loading>>
<1>1. Index!Next
  BY DEF Index!Next, Index!Use
<1>2. Index!Known \subseteq Index!Known'
  BY IndexFacts DEF Index!AddHeader, Index!Known
<1> QED
  BY <1>1, <1>2, IndexStep DEF Index!AddHeader

(* A flag is set. *)
LEMMA DownloadStep ==
    ASSUME IndexInv, loading = {}, NEW b \in Blocks, Index!MarkDownloaded(b)
    PROVE  /\ Index!Next /\ IndexInv'
           /\ Index!Known' = Index!Known
           /\ downloaded' = downloaded \cup {b}
           /\ UNCHANGED <<active_chain, loading>>
<1>1. Index!Next
  BY DEF Index!Next, Index!Use
<1>2. Index!Known' = Index!Known
  BY DEF Index!MarkDownloaded, Index!Known
<1> QED
  BY <1>1, <1>2, IndexStep DEF Index!MarkDownloaded

(* The candidates are looked at. *)
LEMMA PopStep ==
    ASSUME IndexInv, loading = {}, Index!PopStale
    PROVE  /\ Index!Next /\ IndexInv'
           /\ Index!Known' = Index!Known
           /\ UNCHANGED <<header_dict, downloaded, active_chain, loading>>
<1>1. Index!Next
  BY DEF Index!Next, Index!Use
<1>2. Index!Known' = Index!Known
  BY DEF Index!PopStale, Index!Known
<1> QED
  BY <1>1, <1>2, IndexStep DEF Index!PopStale

(* A block that is not on the active chain passes its checks. *)
LEMMA ValidStep ==
    ASSUME IndexInv, loading = {}, NEW b \in downloaded, b \notin Elems(active_chain),
           Index!MarkValid(b)
    PROVE  /\ Index!Next /\ IndexInv'
           /\ Index!Known' = Index!Known
           /\ header_dict'[b] = "valid"
           /\ \A a \in Blocks : header_dict[a] = "valid" => header_dict'[a] = "valid"
           /\ UNCHANGED <<downloaded, active_chain, loading>>
<1>1. b \in Blocks /\ header_dict[b] \in {"valid_header", "valid"}
  BY IndexFacts DEF Index!Known
<1>2. Index!Next
  BY <1>1 DEF Index!Next, Index!Use, Index!Validate
<1>3. /\ header_dict' = [header_dict EXCEPT ![b] = "valid"]
      /\ UNCHANGED <<downloaded, active_chain, loading>>
  BY DEF Index!MarkValid
<1>4. /\ header_dict'[b] = "valid"
      /\ \A a \in Blocks : a # b => header_dict'[a] = header_dict[a]
  BY <1>1, <1>3, IndexFacts
<1>5. Index!Known' = Index!Known
  BY <1>1, <1>4 DEF Index!Known
<1> QED
  BY <1>2, <1>3, <1>4, <1>5, IndexStep

(* The active chain moves. *)
LEMMA SwitchStep ==
    ASSUME IndexInv, loading = {}, NEW h \in downloaded, Work[h] > Work[Tip(active_chain)],
           \A a \in Elems(ForkAdd(h, active_chain)) :
               a \in downloaded /\ header_dict[a] = "valid",
           Index!SwitchTo(h)
    PROVE  /\ Index!Next /\ IndexInv'
           /\ Index!Known' = Index!Known
           /\ active_chain' = Path[h]
           /\ UNCHANGED <<downloaded, loading>>
<1> DEFINE c == active_chain
<1>1. h \in Blocks /\ h \in Index!Known
  BY IndexFacts
<1>2. Index!Switch(h)
  BY <1>1, IndexFacts, SameTree, Zenon DEF Index!Switch
<1>3. Index!Next
  BY <1>1, <1>2 DEF Index!Next, Index!Use
<1>4. active_chain' = SubSeq(c, 1, Len(c) - Len(ForkRemove(h, c))) \o ForkAdd(h, c)
  BY SameTree, Zenon DEF Index!SwitchTo, Index!MoveChain, Index!Move
<1>5. active_chain' = Path[h]
  BY <1>1, <1>4, IndexFacts, HeavierForkFacts
<1>6. Index!Known' = Index!Known
  <2>1. \A b \in Blocks : header_dict'[b] = CASE b \in Elems(ForkAdd(h, c)) -> "in_active_chain"
                                              [] b \in Elems(ForkRemove(h, c))
                                                     \ Elems(ForkAdd(h, c)) -> "valid"
                                              [] OTHER -> header_dict[b]
    <3>1. header_dict' = [b \in Blocks |->
                             CASE b \in Index!Elems(Index!ForkAdd(h, c)) -> "in_active_chain"
                               [] b \in Index!Elems(Index!ForkRemove(h, c))
                                      \ Index!Elems(Index!ForkAdd(h, c)) -> "valid"
                               [] OTHER -> header_dict[b]]
      BY DEF Index!SwitchTo, Index!MoveChain, Index!Move
    <3>2. /\ Index!Elems(Index!ForkAdd(h, c)) = Elems(ForkAdd(h, c))
          /\ Index!Elems(Index!ForkRemove(h, c)) = Elems(ForkRemove(h, c))
      BY SameTree, Zenon
    <3> QED
      BY <3>1, <3>2
  <2>2. \A b \in Elems(ForkRemove(h, c)) : header_dict[b] = "in_active_chain" /\ b \in Blocks
    <3>1. Elems(ForkRemove(h, c)) \subseteq Elems(c)
      BY <1>1, IndexFacts, HeavierForkFacts
    <3>2. Elems(c) \subseteq Blocks
      BY IndexFacts, TipFacts
    <3> QED
      BY <3>1, <3>2, IndexFacts
  <2> QED
    BY <2>1, <2>2 DEF Index!Known
<1>7. UNCHANGED <<downloaded, loading>>
  BY DEF Index!SwitchTo
<1> QED
  BY <1>3, <1>5, <1>6, <1>7, IndexStep

(* The node starts again. *)
LEMMA RestartStep ==
    ASSUME IndexInv, Index!Restart
    PROVE  /\ Index!Next /\ IndexInv'
           /\ Index!Known' = Index!Known
           /\ UNCHANGED <<downloaded, active_chain>>
<1>1. Index!Next
  BY DEF Index!Next
<1>2. active_chain' = active_chain
  <2>1. IndexP!Inv /\ IndexP!Restart
    BY SameIndexSteps, Zenon DEF IndexInv
  <2> QED
    BY <2>1, IndexP!RestartInv, PathAssumption, WorkAssumption, RankAssumption,
       ChainAssumption, Zenon DEF IndexP!Tip, Tip, IndexP!Parent, Parent
<1>3. Index!Known' = Index!Known
  BY DEF Index!Restart, Index!Known
<1> QED
  BY <1>1, <1>2, <1>3, IndexStep DEF Index!Restart

(* It takes in one more record. *)
LEMMA LoadStep ==
    ASSUME IndexInv, NEW h \in loading, Index!LoadNext(h)
    PROVE  /\ Index!Next /\ IndexInv'
           /\ Index!Known' = Index!Known
           /\ UNCHANGED <<downloaded, active_chain>>
<1>1. h \in Blocks
  BY IndexFacts DEF Index!TypeOK
<1>2. Index!Next
  BY <1>1 DEF Index!Next
<1>3. Index!Known' = Index!Known
  BY DEF Index!LoadNext, Index!Known
<1> QED
  BY <1>2, <1>3, IndexStep DEF Index!LoadNext
-----------------------------------------------------------------------------
(* The utxo index, likewise.                                               *)

StagedInv == UtxoTypeOK /\ StagedOverDisk

(* A block is added where its coins are new. *)
LEMMA ConnectStep ==
    ASSUME StagedInv, NEW b \in Blocks, Created(b) \cap StagedView = {},
           AddBlock(b)
    PROVE  /\ UtxoNext /\ StagedInv'
           /\ \A j \in 1 .. Len(Txs[b]) :
                 Txs[b][j].ins \subseteq
                     (StagedView \cup CreatedBefore(b, j)) \ SpentBefore(b, j)
           /\ StagedView' = (StagedView \cup Created(b)) \ Spent(b)
           /\ utxo_db' = utxo_db
<1>1. UtxoNext
  BY Zenon DEF UtxoNext
<1>2. /\ updated_utxo_set' = (updated_utxo_set \cup Created(b)) \ Spent(b)
      /\ removed_utxos' = removed_utxos \cup (Spent(b) \ (updated_utxo_set \cup Created(b)))
      /\ utxo_db' = utxo_db
  BY Zenon DEF AddBlock, UpdatedAt, RemovedAt, Created, Spent
<1>3. ASSUME NEW j \in 1 .. Len(Txs[b]), NEW c \in Txs[b][j].ins
      PROVE  /\ c \in (StagedView \cup CreatedBefore(b, j)) \ SpentBefore(b, j)
             /\ c \in updated_utxo_set \cup Created(b) \cup utxo_db
  <2>1. InputOK(b, j, c)
    BY Zenon DEF AddBlock, CanAddBlock
  <2>2. CreatedBefore(b, j) \subseteq Created(b)
    BY LedgerFacts
  <2>3. updated_utxo_set \cap utxo_db \subseteq removed_utxos
    BY DEF StagedInv, StagedOverDisk
  <2> QED
    BY <2>1, <2>2, <2>3
       DEF InputOK, UpdatedAt, RemovedAt, StagedView
<1>4. Spent(b) \subseteq updated_utxo_set \cup Created(b) \cup utxo_db
  BY <1>3, LedgerFacts
<1>5. StagedInv'
  BY <1>2, <1>4, LedgerFacts DEF StagedInv, UtxoTypeOK, StagedOverDisk, StagedView
<1>6. StagedView' = (StagedView \cup Created(b)) \ Spent(b)
  BY <1>2 DEF StagedInv, StagedOverDisk, StagedView
<1> QED
  BY <1>1, <1>2, <1>3, <1>5, <1>6

(* A block is reverted where the coins it spent are still spent. *)
LEMMA RevertStep ==
    ASSUME StagedInv, NEW b \in Blocks, (Spent(b) \ Created(b)) \cap StagedView = {},
           ApplyRevBlock(b)
    PROVE  /\ UtxoNext /\ StagedInv'
           /\ StagedView' = (StagedView \ Created(b)) \cup Spent(b)
           /\ utxo_db' = utxo_db
<1>1. UtxoNext
  BY Zenon DEF UtxoNext
<1>2. /\ updated_utxo_set' = (updated_utxo_set \ Created(b)) \cup Spent(b)
      /\ removed_utxos' = removed_utxos \cup (Created(b) \ updated_utxo_set)
      /\ utxo_db' = utxo_db
  BY DEF ApplyRevBlock
<1>3. /\ Created(b) \cap removed_utxos = {}
      /\ Created(b) \subseteq updated_utxo_set \cup utxo_db
  BY DEF ApplyRevBlock, CanApplyRevBlock
<1>4. StagedInv'
  <2>1. UtxoTypeOK'
    BY <1>2, <1>3, LedgerFacts DEF StagedInv, UtxoTypeOK
  <2>2. StagedOverDisk'
    BY <1>2, <1>3 DEF StagedInv, StagedOverDisk, StagedView
  <2> QED
    BY <2>1, <2>2 DEF StagedInv
<1>5. StagedView' = (StagedView \ Created(b)) \cup Spent(b)
  BY <1>2, <1>3 DEF StagedInv, StagedOverDisk, StagedView
<1> QED
  BY <1>1, <1>2, <1>4, <1>5

(* What is to be removed from the staged coins is there. *)
LEMMA RevertedIsThere ==
    ASSUME NEW b, CanApplyRevBlock(b)
    PROVE  Created(b) \subseteq StagedView
BY DEF CanApplyRevBlock, StagedView

(* The staged coins are put on disk, or given up. *)
LEMMA CommitStep ==
    ASSUME StagedInv, Finalize
    PROVE  /\ UtxoNext /\ StagedInv'
           /\ utxo_db' = StagedView
           /\ removed_utxos' = {} /\ updated_utxo_set' = {}
BY DEF StagedInv, Finalize, UtxoNext, UtxoTypeOK, StagedOverDisk, StagedView

LEMMA DiscardStep ==
    ASSUME StagedInv, Rollback
    PROVE  UtxoNext /\ StagedInv'
BY DEF StagedInv, Rollback, UtxoNext, UtxoTypeOK, StagedOverDisk
-----------------------------------------------------------------------------
(* The utxo index by itself, whoever calls it: the staged changes over the *)
(* coins on disk behave as one set of coins.                               *)

(* The set of coins is about the same ledger. *)
LEMMA SameLedger ==
    /\ \A b, j : /\ UtxoSetSpec!CreatedBefore(b, j) = CreatedBefore(b, j)
                 /\ UtxoSetSpec!SpentBefore(b, j) = SpentBefore(b, j)
    /\ \A b : /\ UtxoSetSpec!Created(b) = Created(b)
              /\ UtxoSetSpec!Spent(b) = Spent(b)
BY Zenon DEF UtxoSetSpec!CreatedBefore, UtxoSetSpec!SpentBefore,
             UtxoSetSpec!Created, UtxoSetSpec!Spent,
             CreatedBefore, SpentBefore, Created, Spent

(* A fresh index has nothing staged and shows the empty set. *)
LEMMA UtxoInitFacts == UtxoInit => StagedInv /\ UtxoSetSpec!Init
BY DEF UtxoInit, StagedInv, UtxoTypeOK, StagedOverDisk, StagedView,
       UtxoSetSpec!Init

(* Every step keeps the invariant and is one of UtxoSet, or changes nothing. *)
LEMMA UtxoNextFacts ==
    ASSUME StagedInv, [UtxoNext]_utxoVars
    PROVE  StagedInv' /\ [UtxoSetSpec!Next]_<<utxo_db, StagedView>>
<1>1. ASSUME NEW b \in Blocks, Created(b) \cap StagedView = {}, AddBlock(b)
      PROVE  StagedInv' /\ UtxoSetSpec!Next
  BY <1>1, ConnectStep, SameLedger DEF UtxoSetSpec!Next, UtxoSetSpec!Apply
<1>2. ASSUME NEW b \in Blocks, (Spent(b) \ Created(b)) \cap StagedView = {},
             ApplyRevBlock(b)
      PROVE  StagedInv' /\ UtxoSetSpec!Next
  <2>1. Created(b) \subseteq StagedView
    BY <1>2, RevertedIsThere DEF ApplyRevBlock
  <2> QED
    BY <1>2, <2>1, RevertStep, SameLedger
       DEF UtxoSetSpec!Next, UtxoSetSpec!Revert
<1>3. CASE Finalize
  <2>1. UtxoSetSpec!Commit
    BY <1>3 DEF Finalize, StagedView, UtxoSetSpec!Commit
  <2> QED
    BY <1>3, <2>1, CommitStep DEF UtxoSetSpec!Next
<1>4. CASE Rollback
  <2>1. UtxoSetSpec!Discard
    BY <1>4 DEF Rollback, StagedView, UtxoSetSpec!Discard
  <2> QED
    BY <1>4, <2>1, DiscardStep DEF UtxoSetSpec!Next
<1>5. CASE UNCHANGED utxoVars
  BY <1>5 DEF utxoVars, StagedInv, UtxoTypeOK, StagedOverDisk, StagedView
<1> QED
  BY <1>1, <1>2, <1>3, <1>4, <1>5 DEF UtxoNext

(* Only coins on disk are staged as removed, and a coin on disk is staged  *)
(* as added only after that: add_block's lookups in the two staged sets    *)
(* and in the database never disagree.                                     *)
THEOREM StagedInvariance == UtxoSpec => [](UtxoTypeOK /\ StagedOverDisk)
<1>1. StagedInv /\ [UtxoNext]_utxoVars => StagedInv'
  BY UtxoNextFacts
<1>2. UtxoInit => StagedInv
  BY UtxoInitFacts
<1> QED
  BY <1>1, <1>2, PTL DEF UtxoSpec, StagedInv

(* add_block and apply_rev_block only ever stage a removal of a coin that  *)
(* is on disk or an addition of one, and finalize leaves both sets empty:  *)
(* the staged sets and the disk are sets of coins of the ledger.           *)
THEOREM UtxoTypeCorrect == UtxoSpec => []UtxoTypeOK
BY StagedInvariance, PTL

(* The utxo index behaves as one set of coins with a tentative copy: a     *)
(* block goes through only if each of its inputs is there in its turn, and *)
(* finalize and rollback take all of the staged changes or none.           *)
THEOREM UtxoIndexImplementsUtxoSet == UtxoSpec => ImplementsUtxoSet
<1>1. StagedInv /\ [UtxoNext]_utxoVars
          => StagedInv' /\ [UtxoSetSpec!Next]_<<utxo_db, StagedView>>
  BY UtxoNextFacts
<1>2. UtxoInit => StagedInv /\ UtxoSetSpec!Init
  BY UtxoInitFacts
<1> QED
  BY <1>1, <1>2, PTL DEF UtxoSpec, ImplementsUtxoSet, UtxoSetSpec!Spec
-----------------------------------------------------------------------------
(* What holds whatever is read from the block database.                    *)

Busy == pc \in {"update", "record", "stopped"}

(* How many blocks are reverted or connected in the staged coins. *)
Applied == IF pc = "record" THEN done + 1 ELSE done

(* Each record is of a known block, and one that is read as another is of  *)
(* a kind that a kill has cut.                                             *)
RecordsOK ==
    /\ stored \in [Store!Stored -> flushed \cup {Garbled}]
    /\ Store!Stored \subseteq flushed
    /\ flushed \subseteq {"blk", "rev"} \X (Index!Known \ {Genesis})
    /\ cut \subseteq Store!Kinds
    /\ \A key \in Store!Stored : key[1] \notin cut => stored[key] = key
    /\ crashes \in Nat /\ (crashes = 0 => cut = {})

(* An insertion runs only while its block, or its patch, is dealt with. *)
WritingOK ==
    writing # Store!NotWriting =>
        /\ writing = [stage |-> writing.stage, key |-> writing.key]
        /\ writing.stage \in {"flushed", "sized"}
        /\ writing.key \in flushed \ Store!Stored
        /\ \/ pc = "block" /\ writing.key = <<"blk", batch[1]>>
           \/ pc = "record" /\ writing.key = PatchKey

BatchOK ==
    /\ batch \in Seq(Blocks)
    /\ pc = "block" =>
          /\ Len(batch) = 1 /\ batch[1] \in Index!Known \ {Genesis}
          /\ writing = Store!NotWriting => Has("blk", batch[1])

(* The chain begins with Genesis, and what counts has a record. *)
ChainShape ==
    /\ header_dict \in [Blocks -> {"unknown", "valid_header", "valid", "in_active_chain"}]
    /\ header_dict[Genesis] = "in_active_chain"
    /\ IsFiniteSet(Index!InActiveChain)
    /\ active_chain \in Seq(Blocks) /\ active_chain # <<>> /\ active_chain[1] = Genesis
    /\ block_candidates \in Seq(Blocks)
    /\ loading \subseteq Blocks
    /\ Genesis \in downloaded /\ downloaded \ {Genesis} \subseteq blocks
    /\ (Elems(active_chain) \cup Index!InActiveChain) \ {Genesis} \subseteq rev_patches

(* What update_chain has read and recorded of its branch. *)
UpdateShape ==
    /\ to_add \in Seq(Blocks \ {Genesis}) /\ Elems(to_add) \subseteq downloaded
    /\ to_remove \in Seq(Blocks)
    /\ done \in Nat
    /\ pc = "record" => done - Len(to_remove) \in 0 .. Len(to_add) - 1
    /\ pc \in {"update", "record"} =>
          /\ \A i \in 1 .. Len(to_remove) : i <= done => Readable("rev", to_remove[i])
          /\ \A i \in 1 .. Len(to_add) :
                /\ i <= Applied - Len(to_remove) => Readable("blk", to_add[i])
                /\ i <= done - Len(to_remove) => Has("rev", Found("blk", to_add[i]))

NothingStaged == ~ Busy => removed_utxos = {} /\ updated_utxo_set = {}

Form == RecordsOK /\ WritingOK /\ BatchOK /\ ChainShape /\ UpdateShape /\ NothingStaged

(* What is found is a block the node knows of. *)
LEMMA FoundFacts ==
    ASSUME RecordsOK, NEW kind \in {"blk", "rev"}, NEW h, Readable(kind, h)
    PROVE  Found(kind, h) \in Index!Known /\ Found(kind, h) \in Blocks
           /\ Found(kind, h) # Genesis
<1> DEFINE key == <<kind, h>>
<1>1. key \in Store!Stored /\ stored[key] # Garbled
  BY DEF Readable, Has
<1>2. stored[key] \in flushed
  BY <1>1 DEF RecordsOK
<1>3. stored[key] \in {"blk", "rev"} \X (Index!Known \ {Genesis})
  BY <1>2 DEF RecordsOK
<1>4. stored[key][2] \in Index!Known \ {Genesis}
  BY <1>3
<1> QED
  BY <1>4 DEF Found, Index!Known

(* Records are read as before if none is put. *)
LEMMA SameReads ==
    ASSUME UNCHANGED stored
    PROVE  /\ \A kind, h : /\ Has(kind, h)' = Has(kind, h)
                           /\ Readable(kind, h)' = Readable(kind, h)
                           /\ Found(kind, h)' = Found(kind, h)
           /\ blocks' = blocks /\ rev_patches' = rev_patches
           /\ Store!Stored' = Store!Stored
BY DEF Has, Readable, Found, blocks, rev_patches, Store!Stored

(* Headers are never forgotten. *)
LEMMA KnownGrows ==
    ASSUME ChainShape,
           \/ UNCHANGED header_dict
           \/ \E b \in Blocks : \E s \in {"valid_header", "valid"} :
                 header_dict' = [header_dict EXCEPT ![b] = s]
    PROVE  Index!Known \subseteq Index!Known'
BY DEF ChainShape, Index!Known

(* The candidates that are left are blocks. *)
LEMMA LiveShape ==
    ASSUME ChainShape
    PROVE  /\ Index!LiveCandidates \in Seq(Blocks)
           /\ Tip(active_chain) \in Blocks
           /\ Index!ChainWork = Work[Tip(active_chain)]
<1>1. Tip(active_chain) \in Blocks
  <2>1. active_chain \in Seq(Blocks) /\ Len(active_chain) \in 1 .. Len(active_chain)
    BY EmptySeq, LenProperties DEF ChainShape
  <2> QED
    BY <2>1, ElementOfSeq DEF Tip
<1>2. Index!ChainWork = Work[Tip(active_chain)]
  BY SameTree DEF Index!ChainWork
<1>3. block_candidates \in Seq(Blocks) /\ IndexP!ChainWork \in Nat
  BY <1>1, <1>2, WorkAssumption, SameIndexState DEF ChainShape
<1>4. IndexP!LiveCandidates \in Seq(Blocks)
  BY <1>3, IndexP!LiveFacts, PathAssumption, WorkAssumption, RankAssumption,
     ChainAssumption, Zenon DEF IndexP!Tip, Tip, IndexP!Parent, Parent
<1>5. Index!LiveCandidates \in Seq(Blocks)
  BY <1>4, SameIndexState, Zenon
<1> QED
  BY <1>1, <1>2, <1>5

(* What callbacks, the constructor and a look at the candidates do to the  *)
(* index.                                                                  *)
LEMMA IndexShape ==
    ASSUME ChainShape, UNCHANGED stored,
           \/ UNCHANGED indexVars
           \/ \E h \in Blocks : Index!AddHeader(h)
           \/ \E b \in blocks : Index!MarkDownloaded(b)
           \/ Index!PopStale
           \/ \E h \in loading : Index!LoadNext(h)
    PROVE  /\ ChainShape' /\ Index!Known \subseteq Index!Known'
           /\ downloaded \subseteq downloaded'
<1>1. blocks' = blocks /\ rev_patches' = rev_patches
  BY SameReads
<1>2. CASE UNCHANGED indexVars
  BY <1>1, <1>2 DEF ChainShape, indexVars, Index!InActiveChain, Index!Known
<1>3. CASE \E h \in Blocks : Index!AddHeader(h)
  <2>1. PICK h \in Blocks : Index!AddHeader(h)
    BY <1>3
  <2>2. /\ header_dict' = [header_dict EXCEPT ![h] = "valid_header"]
        /\ header_dict[h] = "unknown"
        /\ block_candidates' \in Seq(Blocks)
        /\ UNCHANGED <<downloaded, active_chain, loading>>
    BY <2>1 DEF Index!AddHeader, Index!Known, ChainShape
  <2>3. Index!InActiveChain' = Index!InActiveChain /\ header_dict'[Genesis] = "in_active_chain"
    BY <2>2, PathAssumption DEF ChainShape, Index!InActiveChain
  <2>4. Index!Known \subseteq Index!Known'
    BY <2>2, KnownGrows
  <2> QED
    BY <1>1, <2>2, <2>3, <2>4 DEF ChainShape
<1>4. CASE \E b \in blocks : Index!MarkDownloaded(b)
  BY <1>1, <1>4 DEF Index!MarkDownloaded, ChainShape, Index!InActiveChain, Index!Known
<1>5. CASE Index!PopStale
  <2>1. UNCHANGED <<header_dict, downloaded, active_chain, loading>>
    BY <1>5 DEF Index!PopStale
  <2>2. Index!LiveCandidates \in Seq(Blocks)
    BY LiveShape
  <2>3. block_candidates' \in Seq(Blocks)
    BY <1>5, <2>2 DEF Index!PopStale
  <2> QED
    BY <1>1, <2>1, <2>3 DEF ChainShape, Index!InActiveChain, Index!Known
<1>6. CASE \E h \in loading : Index!LoadNext(h)
  <2>1. PICK h \in loading : Index!LoadNext(h)
    BY <1>6
  <2>2. /\ block_candidates' \in Seq(Blocks) /\ loading' \subseteq Blocks
        /\ UNCHANGED <<header_dict, downloaded, active_chain>>
    BY <2>1 DEF Index!LoadNext, ChainShape
  <2> QED
    BY <1>1, <2>2 DEF ChainShape, Index!InActiveChain, Index!Known
<1> QED
  BY <1>2, <1>3, <1>4, <1>5, <1>6

(* The records stay, and what they are needed for is over or goes on. *)
LEMMA RecordsKept ==
    ASSUME RecordsOK, UNCHANGED <<blockVars, crashes>>, Index!Known \subseteq Index!Known'
    PROVE  RecordsOK'
<1>1. flushed' \subseteq {"blk", "rev"} \X (Index!Known' \ {Genesis})
  BY DEF RecordsOK, blockVars
<1> QED
  BY <1>1 DEF RecordsOK, blockVars, Store!Stored

LEMMA NothingWritten ==
    ASSUME Form, pc \notin {"block", "record"}
    PROVE  writing = Store!NotWriting
BY DEF Form, WritingOK

(* Outside update_chain. *)
LEMMA QuietForm ==
    ASSUME Form, ~ Busy, ~ Busy', UNCHANGED <<utxoVars, blockVars, updateVars, crashes>>,
           writing = Store!NotWriting,
           \/ UNCHANGED indexVars
           \/ \E h \in Blocks : Index!AddHeader(h)
           \/ \E b \in blocks : Index!MarkDownloaded(b)
           \/ Index!PopStale
           \/ \E h \in loading : Index!LoadNext(h),
           done' \in Nat, batch' \in Seq(Blocks),
           pc' = "block" => pc = "block" /\ UNCHANGED batch
    PROVE  Form'
<1>1. /\ ChainShape' /\ Index!Known \subseteq Index!Known'
      /\ downloaded \subseteq downloaded'
  BY IndexShape DEF Form, blockVars
<1>2. RecordsOK'
  BY <1>1, RecordsKept DEF Form
<1>3. WritingOK'
  BY DEF WritingOK, blockVars, Store!NotWriting
<1>4. BatchOK'
  BY <1>1, SameReads DEF Form, BatchOK, blockVars
<1>5. UpdateShape'
  BY <1>1 DEF Form, UpdateShape, updateVars, Busy
<1>6. NothingStaged'
  BY DEF Form, NothingStaged, utxoVars
<1> QED
  BY <1>1, <1>2, <1>3, <1>4, <1>5, <1>6 DEF Form

(* A message or a record is a suffix of a branch. *)
LEMMA MessageFacts ==
    ASSUME NEW msg \in HeaderMessages
    PROVE  msg \in Seq(Blocks) /\ Len(msg) \in Nat
<1>1. PICK b \in Blocks : \E i \in 2 .. Len(Path[b]) : msg = SubSeq(Path[b], i, Len(Path[b]))
  BY DEF HeaderMessages
<1> PICK i \in 2 .. Len(Path[b]) : msg = SubSeq(Path[b], i, Len(Path[b]))
  BY <1>1
<1>2. /\ Len(Path[b]) \in Int /\ i \in Int
      /\ \A j \in i .. Len(Path[b]) : Path[b][j] \in Blocks
  BY PathFacts
<1>3. msg \in Seq(Blocks)
  BY <1>2, SubSeqProperties
<1> QED
  BY <1>3, LenProperties

LEMMA HeadersForm ==
    ASSUME Form, ReceiveHeaders \/ TakeHeader \/ EndHeaders
    PROVE  Form'
<1>1. CASE ReceiveHeaders
  <2>1. batch' \in Seq(Blocks) /\ done' = 0 /\ pc = "idle" /\ pc' = "headers"
    BY <1>1, MessageFacts DEF ReceiveHeaders
  <2> QED
    BY <1>1, <2>1, NothingWritten, QuietForm DEF ReceiveHeaders, Busy
<1>2. CASE TakeHeader
  <2>1. /\ pc = "headers" /\ pc' = "headers" /\ done < Len(batch) /\ done' = done + 1
        /\ done \in Nat /\ batch \in Seq(Blocks) /\ batch' = batch
    BY <1>2 DEF TakeHeader, Form, UpdateShape, BatchOK
  <2>2. batch[done + 1] \in Blocks
    BY <2>1, ElementOfSeq, LenProperties
  <2>3. UNCHANGED indexVars \/ \E h \in Blocks : Index!AddHeader(h)
    BY <1>2, <2>2 DEF TakeHeader
  <2> QED
    BY <1>2, <2>1, <2>3, NothingWritten, QuietForm DEF TakeHeader, Busy
<1>3. CASE EndHeaders
  <2>1. pc = "headers" /\ pc' = "idle" /\ batch' = <<>> /\ done' = 0 /\ <<>> \in Seq(Blocks)
    BY <1>3 DEF EndHeaders
  <2> QED
    BY <1>3, <2>1, NothingWritten, QuietForm DEF EndHeaders, Busy
<1> QED
  BY <1>1, <1>2, <1>3

LEMMA OtherForm ==
    ASSUME Form,
           \/ \E t \in OfferedTxs : ReceiveTx(t)
           \/ FinishSync \/ WaitForBlocks \/ Recheck
           \/ LoadRecord \/ EndLoading
    PROVE  Form'
<1>1. /\ pc \in {"idle", "recheck", "loading"} /\ pc' \in {"idle", "loading"}
      /\ UNCHANGED <<utxoVars, blockVars, updateVars, messageVars, done, crashes>>
      /\ UNCHANGED indexVars \/ Index!PopStale \/ \E h \in loading : Index!LoadNext(h)
  BY DEF ReceiveTx, FinishSync, WaitForBlocks, Recheck, LoadRecord, EndLoading
<1>2. done' \in Nat /\ batch' \in Seq(Blocks)
  BY <1>1 DEF Form, UpdateShape, BatchOK, messageVars
<1> QED
  BY <1>1, <1>2, NothingWritten, QuietForm DEF Busy

LEMMA FlagForm ==
    ASSUME Form, FlagBlock
    PROVE  Form'
<1>1. /\ pc = "block" /\ pc' = "idle" /\ writing = Store!NotWriting
      /\ Index!MarkDownloaded(batch[1]) /\ batch' = <<>>
      /\ UNCHANGED <<utxoVars, blockVars, updateVars, done, crashes>>
  BY DEF FlagBlock
<1>2. batch[1] \in blocks
  BY <1>1 DEF Form, BatchOK, blocks, Index!Known
<1>3. done' \in Nat /\ batch' \in Seq(Blocks)
  BY <1>1 DEF Form, UpdateShape
<1> QED
  BY <1>1, <1>2, <1>3, QuietForm DEF Busy

(* Begun insertions. *)
LEMMA FlushRecords ==
    ASSUME RecordsOK, NEW key \in {"blk", "rev"} \X (Index!Known \ {Genesis}),
           Store!Flush(key), UNCHANGED crashes, Index!Known' = Index!Known
    PROVE  /\ RecordsOK' /\ UNCHANGED stored
           /\ writing' = [stage |-> "flushed", key |-> key]
           /\ key \in flushed' \ Store!Stored'
<1>1. /\ key \notin Store!Stored /\ writing' = [stage |-> "flushed", key |-> key]
      /\ flushed' = flushed \cup {key} /\ UNCHANGED <<stored, cut>>
  BY DEF Store!Flush
<1>2. Store!Stored' = Store!Stored
  BY <1>1 DEF Store!Stored
<1>3. stored' \in [Store!Stored' -> flushed' \cup {Garbled}]
  BY <1>1, <1>2 DEF RecordsOK
<1> QED
  BY <1>1, <1>2, <1>3 DEF RecordsOK

LEMMA ReceiveBlockForm ==
    ASSUME Form, NEW b \in Blocks, ReceiveBlock(b)
    PROVE  Form'
<1>1. /\ pc = "idle" /\ pc' = "block" /\ batch' = <<b>>
      /\ b \in Index!Known \ {Genesis}
      /\ UNCHANGED <<indexVars, utxoVars, updateVars, done, crashes>>
      /\ writing = Store!NotWriting
  BY NothingWritten DEF ReceiveBlock, Form, ChainShape
<1>2. Index!Known' = Index!Known
  BY <1>1 DEF indexVars, Index!Known
<1>3. /\ UNCHANGED stored /\ RecordsOK' /\ WritingOK'
      /\ writing' = Store!NotWriting => Has("blk", b)
  <2>1. CASE Has("blk", b)
    <3>1. UNCHANGED blockVars
      BY <2>1 DEF ReceiveBlock, BeginBlock
    <3> QED
      BY <1>1, <1>2, <2>1, <3>1, RecordsKept DEF Form, WritingOK, blockVars
  <2>2. CASE ~ Has("blk", b)
    <3>1. Store!Flush(<<"blk", b>>)
      BY <2>2 DEF ReceiveBlock, BeginBlock
    <3>2. /\ RecordsOK' /\ UNCHANGED stored
          /\ writing' = [stage |-> "flushed", key |-> <<"blk", b>>]
          /\ <<"blk", b>> \in flushed' \ Store!Stored'
      BY <1>1, <1>2, <3>1, FlushRecords DEF Form
    <3>3. writing' # Store!NotWriting
      BY <3>2 DEF Store!NotWriting
    <3>4. writing'.key = <<"blk", batch'[1]>>
      BY <1>1, <3>2
    <3> QED
      BY <1>1, <3>2, <3>3, <3>4 DEF WritingOK
  <2> QED
    BY <2>1, <2>2
<1>4. BatchOK'
  <2>1. batch' \in Seq(Blocks) /\ Len(batch') = 1 /\ batch'[1] = b
    BY <1>1
  <2> QED
    BY <1>1, <1>2, <1>3, <2>1, SameReads DEF BatchOK
<1>5. ChainShape'
  BY <1>1, <1>3, IndexShape DEF Form
<1>6. UpdateShape' /\ NothingStaged'
  BY <1>1 DEF Form, UpdateShape, NothingStaged, updateVars, utxoVars, indexVars, Busy
<1> QED
  BY <1>3, <1>4, <1>5, <1>6 DEF Form

(* What an insertion puts is read later, and nothing else is read anew. *)
LEMMA PutRecordForm ==
    ASSUME Form, PutRecord
    PROVE  Form'
<1>1. /\ UNCHANGED <<indexVars, utxoVars, updateVars, messageVars, pc, done, crashes>>
      /\ UNCHANGED <<flushed, cut>>
      /\ Index!Known' = Index!Known
  BY DEF PutRecord, Store!PutSize, Store!PutLocation, indexVars, Index!Known
<1>2. RecordsOK /\ WritingOK /\ BatchOK
  BY DEF Form
<1>3. CASE Store!PutSize
  <2>1. /\ writing.stage = "flushed" /\ UNCHANGED stored
        /\ writing' = [writing EXCEPT !.stage = "sized"]
    BY <1>3 DEF Store!PutSize
  <2>2. writing # Store!NotWriting
    BY <2>1 DEF Store!NotWriting
  <2>3. writing'.stage = "sized" /\ writing'.key = writing.key
        /\ writing' = [stage |-> writing'.stage, key |-> writing'.key]
    BY <1>2, <2>1, <2>2 DEF WritingOK
  <2>4. writing' # Store!NotWriting
    BY <2>3 DEF Store!NotWriting
  <2>5. PatchKey' = PatchKey /\ batch' = batch /\ Store!Stored' = Store!Stored
    BY <1>1, <2>1, SameReads DEF PatchKey, ToConnect, updateVars, messageVars
  <2>6. WritingOK'
    BY <1>1, <1>2, <2>2, <2>3, <2>5 DEF WritingOK
  <2>7. RecordsOK'
    BY <1>1, <1>2, <2>1, <2>5 DEF RecordsOK
  <2>8. BatchOK'
    BY <1>1, <1>2, <2>4, <2>5 DEF BatchOK
  <2>9. ChainShape'
    BY <1>1, <2>1, IndexShape DEF Form
  <2>10. UpdateShape' /\ NothingStaged'
    BY <1>1, <2>1, SameReads
       DEF Form, UpdateShape, NothingStaged, Applied, Busy, updateVars, utxoVars, indexVars
  <2> QED
    BY <2>6, <2>7, <2>8, <2>9, <2>10 DEF Form
<1>4. CASE Store!PutLocation
  <2> DEFINE new == writing.key
  <2>1. /\ writing.stage = "sized" /\ writing' = Store!NotWriting
        /\ \E found \in Store!FoundFor(new) :
              stored' = [key \in Store!Stored \cup {new} |->
                            IF key = new THEN found ELSE stored[key]]
    BY <1>4 DEF Store!PutLocation
  <2>2. new \in flushed \ Store!Stored
    BY <1>2, <2>1 DEF WritingOK, Store!NotWriting
  <2>3. PICK found \in Store!FoundFor(new) :
            stored' = [key \in Store!Stored \cup {new} |->
                          IF key = new THEN found ELSE stored[key]]
    BY <2>1
  <2>4. found \in flushed \cup {Garbled} /\ (new[1] \notin cut => found = new)
    BY <2>2 DEF Store!FoundFor
  <2> HIDE DEF new
  <2>5. Store!Stored' = Store!Stored \cup {new}
    BY <2>3 DEF Store!Stored
  <2>6. stored'[new] = found /\ \A key \in Store!Stored : stored'[key] = stored[key]
    BY <2>2, <2>3
  <2>7. RecordsOK'
    <3>1. stored' \in [Store!Stored' -> flushed' \cup {Garbled}]
      BY <1>1, <1>2, <2>3, <2>4, <2>5 DEF RecordsOK
    <3> QED
      BY <1>1, <1>2, <2>2, <2>4, <2>5, <2>6, <3>1 DEF RecordsOK
  <2>8. \A kind, h : /\ Has(kind, h) => Has(kind, h)'
                     /\ Has(kind, h) => Found(kind, h)' = Found(kind, h)
                     /\ Readable(kind, h) => Readable(kind, h)'
    BY <2>5, <2>6 DEF Has, Readable, Found
  <2>9. BatchOK'
    <3>1. pc = "block" => Has("blk", batch[1])'
      <4>1. pc = "block" => new = <<"blk", batch[1]>>
        BY <1>2, <2>1 DEF WritingOK, Store!NotWriting, new
      <4> QED
        BY <1>1, <2>5, <4>1 DEF Has, messageVars
    <3> QED
      BY <1>1, <1>2, <3>1 DEF BatchOK, messageVars
  <2>10. ChainShape'
    <3>1. blocks \subseteq blocks' /\ rev_patches \subseteq rev_patches'
      BY <2>8 DEF blocks, rev_patches
    <3> QED
      BY <1>1, <3>1 DEF Form, ChainShape, indexVars, Index!InActiveChain
  <2>11. UpdateShape'
    <3>1. /\ to_add' = to_add /\ to_remove' = to_remove /\ done' = done /\ pc' = pc
          /\ downloaded' = downloaded /\ Applied' = Applied
      BY <1>1 DEF updateVars, indexVars, Applied
    <3>2. ASSUME NEW i \in 1 .. Len(to_add), pc \in {"update", "record"},
                 i <= done - Len(to_remove)
          PROVE  Has("rev", Found("blk", to_add[i]))'
      <4>1. Readable("blk", to_add[i]) /\ Has("rev", Found("blk", to_add[i]))
        <5>1. Len(to_remove) \in Nat /\ done \in Nat
          BY LenProperties DEF Form, UpdateShape
        <5>2. i <= Applied - Len(to_remove)
          BY <3>2, <5>1 DEF Applied
        <5> QED
          BY <3>2, <5>2 DEF Form, UpdateShape
      <4>2. Has("blk", to_add[i])
        BY <4>1 DEF Readable
      <4>3. Found("blk", to_add[i])' = Found("blk", to_add[i])
        BY <2>8, <3>1, <4>2 DEF Found
      <4> QED
        BY <2>5, <4>1, <4>3 DEF Has
    <3>3. ASSUME NEW i \in 1 .. Len(to_add), pc \in {"update", "record"},
                 i <= Applied - Len(to_remove)
          PROVE  Readable("blk", to_add[i])'
      <4>1. Readable("blk", to_add[i])
        BY <3>3 DEF Form, UpdateShape
      <4> QED
        BY <2>5, <2>6, <3>1, <4>1 DEF Readable, Has
    <3>4. ASSUME NEW i \in 1 .. Len(to_remove), pc \in {"update", "record"}, i <= done
          PROVE  Readable("rev", to_remove[i])'
      <4>1. Readable("rev", to_remove[i])
        BY <3>4 DEF Form, UpdateShape
      <4> QED
        BY <2>5, <2>6, <3>1, <4>1 DEF Readable, Has
    <3> QED
      BY <3>1, <3>2, <3>3, <3>4 DEF Form, UpdateShape
  <2> QED
    BY <1>1, <2>1, <2>7, <2>9, <2>10, <2>11
       DEF Form, WritingOK, NothingStaged, utxoVars, Busy
<1> QED
  BY <1>3, <1>4 DEF PutRecord

-----------------------------------------------------------------------------
(* update_chain, whatever it reads.                                        *)

(* What get_fork_details finds, even of a chain that is no branch. *)
LEMMA AnyForkFacts ==
    ASSUME NEW h \in Blocks, NEW c \in Seq(Blocks), c # <<>>, c[1] = Genesis,
           Work[h] > Work[Tip(c)]
    PROVE  /\ ForkAdd(h, c) \in Seq(Blocks \ {Genesis})
           /\ ForkRemove(h, c) \in Seq(Blocks)
<1> DEFINE P == CommonPositions(h, c)
           k == CommonLen(h, c)
           n == Len(Path[h])
<1>1. Len(c) \in Nat \ {0} /\ Tip(c) \in Blocks /\ \A i \in 1 .. Len(c) : c[i] \in Blocks
  BY EmptySeq, LenProperties, ElementOfSeq DEF Tip
<1>2. h # Genesis
  <2> SUFFICES ASSUME h = Genesis PROVE FALSE
    OBVIOUS
  <2>1. Work[Tip(c)] < Work[Genesis]
    BY <1>1, WorkAssumption
  <2>2. Tip(c) # Genesis
    BY <1>1, <2>1, WorkAssumption
  <2>3. /\ Len(Path[Tip(c)]) \in Nat \ {0, 1} /\ Path[Tip(c)][1] = Genesis
        /\ Path[Tip(c)][Len(Path[Tip(c)])] = Tip(c)
    BY <1>1, <2>2, PathFacts, ParentFacts
  <2>4. Work[Genesis] < Work[Tip(c)]
    BY <1>1, <2>3, WorkGrows
  <2>5. Work[Genesis] \in Nat /\ Work[Tip(c)] \in Nat
    BY <1>1, WorkAssumption
  <2> QED
    BY <2>1, <2>4, <2>5
<1>3. /\ n \in Nat \ {0, 1} /\ Path[h] \in Seq(Blocks) /\ Path[h][1] = Genesis
      /\ \A i \in 1 .. n : Path[h][i] \in Blocks
  BY <1>2, PathFacts, ParentFacts
<1>4. k \in 1 .. n - 1 /\ k <= Len(c)
  <2>1. Height(h) = n - 1
    BY DEF Height
  <2>2. 1 \in P
    <3>1. 1 \in 1 .. Height(h) /\ 1 <= Len(c)
      <4> HIDE DEF n
      <4>1. 1 \in 1 .. n - 1
        BY <1>3
      <4> QED
        BY <1>1, <2>1, <4>1
    <3>2. Path[h][1] = c[1]
      BY <1>3
    <3> QED
      BY <3>1, <3>2, Zenon DEF CommonPositions
  <2>3. P \in SUBSET (0 .. n - 1)
    BY <1>3, <2>1 DEF CommonPositions
  <2>4. \E m \in P : \A i \in P : i <= m
    <3>1. n - 1 \in Nat /\ P # {}
      BY <1>3, <2>2
    <3> HIDE DEF P, n
    <3> QED
      BY <2>3, <3>1, MaxExists
  <2>5. k \in P
    BY <2>4 DEF CommonLen
  <2> QED
    BY <2>1, <2>5 DEF CommonPositions
<1> HIDE DEF P, k, n
<1>5. \A i \in k + 1 .. n : Path[h][i] \in Blocks \ {Genesis}
  <2> SUFFICES ASSUME NEW i \in k + 1 .. n, Path[h][i] = Genesis PROVE FALSE
    BY <1>3, <1>4
  <2>1. 1 \in 1 .. Len(Path[h]) /\ i \in 1 .. Len(Path[h]) /\ i # 1
    BY <1>3, <1>4 DEF n
  <2> QED
    BY <1>3, <2>1, NoRepetition
<1>6. SubSeq(Path[h], k + 1, n) \in Seq(Blocks \ {Genesis})
  BY <1>3, <1>4, <1>5, SubSeqProperties
<1>7. SubSeq(c, k + 1, Len(c)) \in Seq(Blocks)
  <2>1. \A i \in k + 1 .. Len(c) : c[i] \in Blocks
    BY <1>1, <1>4
  <2> QED
    BY <1>1, <1>4, <2>1, SubSeqProperties
<1> QED
  BY <1>6, <1>7 DEF ForkAdd, ForkRemove, k, n

LEMMA StartForm ==
    ASSUME Form, StartUpdate
    PROVE  Form'
<1> DEFINE h == Index!FirstCandidate
           c == active_chain
<1>1. /\ pc = "idle" /\ pc' = "update" /\ done' = 0
      /\ Index!HasCandidate /\ Index!PopStale
      /\ Elems(Fork) \subseteq downloaded
      /\ to_add' = Fork /\ to_remove' = ForkRemove(h, c)
      /\ UNCHANGED <<utxoVars, blockVars, messageVars, crashes>>
      /\ writing = Store!NotWriting
  BY NothingWritten DEF StartUpdate
<1>2. h \in Blocks /\ Work[h] > Work[Tip(c)]
  BY <1>1, LiveShape, CandidateOf DEF Form
<1>3. to_add' \in Seq(Blocks \ {Genesis}) /\ to_remove' \in Seq(Blocks)
  BY <1>1, <1>2, AnyForkFacts DEF Form, ChainShape, Fork
<1>4. /\ ChainShape' /\ Index!Known \subseteq Index!Known'
      /\ downloaded \subseteq downloaded'
  BY <1>1, IndexShape DEF Form, blockVars
<1>5. RecordsOK'
  BY <1>1, <1>4, RecordsKept DEF Form
<1>6. WritingOK' /\ BatchOK' /\ NothingStaged'
  BY <1>1 DEF Form, WritingOK, BatchOK, NothingStaged, Busy, blockVars, messageVars,
             Store!NotWriting
<1>7. UpdateShape'
  <2>1. Applied' = 0 /\ Len(to_remove') \in Nat
    BY <1>1, <1>3, LenProperties DEF Applied
  <2>2. Elems(to_add') \subseteq downloaded'
    BY <1>1, <1>4
  <2>3. \A i \in 1 .. Len(to_remove') : ~ (i <= 0)
    OBVIOUS
  <2>4. \A i \in 1 .. Len(to_add') : ~ (i <= 0 - Len(to_remove'))
    BY <2>1
  <2> QED
    BY <1>1, <1>3, <2>1, <2>2, <2>3, <2>4 DEF UpdateShape
<1> QED
  BY <1>4, <1>5, <1>6, <1>7 DEF Form

(* The main loop ends in an exception. *)
LEMMA RaisesForm ==
    ASSUME Form, ReadRaises \/ FinalizeRaises
    PROVE  Form'
<1>1. /\ pc \in {"idle", "update"} /\ pc' = "stopped"
      /\ UNCHANGED <<utxoVars, blockVars, updateVars, messageVars, done, crashes>>
      /\ UNCHANGED indexVars \/ Index!PopStale
  BY DEF ReadRaises, FinalizeRaises, AllApplied
<1>2. /\ ChainShape' /\ Index!Known \subseteq Index!Known'
      /\ downloaded \subseteq downloaded'
  BY <1>1, IndexShape DEF Form, blockVars
<1>3. RecordsOK'
  BY <1>1, <1>2, RecordsKept DEF Form
<1>4. WritingOK' /\ BatchOK' /\ NothingStaged'
  BY <1>1, NothingWritten
     DEF Form, WritingOK, BatchOK, NothingStaged, Busy, blockVars, messageVars,
         Store!NotWriting
<1>5. UpdateShape'
  BY <1>1, <1>2 DEF Form, UpdateShape, updateVars
<1> QED
  BY <1>2, <1>3, <1>4, <1>5 DEF Form

(* The index and the records stay as they are. *)
LEMMA SameRecords ==
    ASSUME Form, UNCHANGED <<indexVars, blockVars, crashes>>
    PROVE  RecordsOK' /\ ChainShape' /\ Index!Known' = Index!Known
<1>1. Index!Known' = Index!Known
  BY DEF indexVars, Index!Known
<1>2. RecordsOK'
  BY <1>1, RecordsKept DEF Form
<1>3. ChainShape'
  BY IndexShape DEF Form, blockVars
<1> QED
  BY <1>1, <1>2, <1>3

LEMMA RevertForm ==
    ASSUME Form, RevertBlock
    PROVE  Form'
<1>1. /\ pc = "update" /\ pc' = "update" /\ done < Len(to_remove) /\ done' = done + 1
      /\ Readable("rev", to_remove[done + 1])
      /\ UNCHANGED <<indexVars, blockVars, updateVars, messageVars, crashes>>
      /\ writing = Store!NotWriting
  BY NothingWritten DEF RevertBlock, Reverting, CanRevert, ToRevert
<1>2. RecordsOK' /\ ChainShape'
  BY <1>1, SameRecords
<1>3. WritingOK' /\ BatchOK' /\ NothingStaged'
  BY <1>1 DEF Form, WritingOK, BatchOK, NothingStaged, Busy, blockVars, messageVars,
             Store!NotWriting
<1>4. UpdateShape'
  <2>1. /\ to_add' = to_add /\ to_remove' = to_remove /\ downloaded' = downloaded
        /\ done \in Nat /\ Len(to_remove) \in Nat /\ Applied' = done + 1 /\ done' = done + 1
        /\ UNCHANGED stored
    BY <1>1, LenProperties DEF Form, UpdateShape, updateVars, indexVars, Applied, blockVars
  <2>2. ASSUME NEW i \in 1 .. Len(to_remove), i <= done + 1
        PROVE  Readable("rev", to_remove[i])
    <3>1. CASE i = done + 1
      BY <1>1, <3>1
    <3>2. CASE i # done + 1
      <4>1. i <= done
        BY <2>1, <2>2, <3>2
      <4> QED
        BY <1>1, <4>1 DEF Form, UpdateShape
    <3> QED
      BY <3>1, <3>2
  <2>3. \A i \in 1 .. Len(to_add) : ~ (i <= done + 1 - Len(to_remove))
    BY <1>1, <2>1
  <2> QED
    BY <1>1, <2>1, <2>2, <2>3, SameReads DEF Form, UpdateShape
<1> QED
  BY <1>2, <1>3, <1>4 DEF Form

(* The block connected next, or just connected. *)
LEMMA ConnectShape ==
    ASSUME Form, pc = "record" \/ Connecting
    PROVE  /\ done \in Nat /\ Len(to_remove) \in Nat /\ Len(to_add) \in Nat
           /\ done - Len(to_remove) + 1 \in 1 .. Len(to_add)
           /\ ToConnect = to_add[done - Len(to_remove) + 1]
           /\ ToConnect \in Blocks \ {Genesis} /\ ToConnect \in downloaded
           /\ pc = "record" => Readable("blk", ToConnect)
<1>1. /\ done \in Nat /\ Len(to_remove) \in Nat /\ Len(to_add) \in Nat
      /\ to_add \in Seq(Blocks \ {Genesis})
  BY LenProperties DEF Form, UpdateShape
<1>2. done - Len(to_remove) \in 0 .. Len(to_add) - 1
  BY <1>1 DEF Form, UpdateShape, Connecting
<1>3. done - Len(to_remove) + 1 \in 1 .. Len(to_add)
  BY <1>1, <1>2
<1>4. ToConnect = to_add[done - Len(to_remove) + 1]
  BY DEF ToConnect
<1>5. ToConnect \in Elems(to_add) /\ ToConnect \in Blocks \ {Genesis}
  BY <1>1, <1>3, <1>4, ElementOfSeq DEF Elems
<1>6. ASSUME pc = "record" PROVE Readable("blk", ToConnect)
  <2>1. done - Len(to_remove) + 1 <= Applied - Len(to_remove)
    BY <1>1, <1>6 DEF Applied
  <2> QED
    BY <1>3, <1>4, <1>6, <2>1 DEF Form, UpdateShape
<1> QED
  BY <1>1, <1>3, <1>4, <1>5, <1>6 DEF Form, UpdateShape

LEMMA ConnectForm ==
    ASSUME Form, ConnectBlock
    PROVE  Form'
<1>1. /\ Connecting /\ pc = "update" /\ pc' = "record"
      /\ Readable("blk", ToConnect)
      /\ Index!MarkValid(ToConnect)
      /\ UNCHANGED <<blockVars, updateVars, messageVars, done, crashes>>
      /\ writing = Store!NotWriting
  BY NothingWritten DEF ConnectBlock, Connecting, CanConnect
<1>2. /\ done \in Nat /\ Len(to_remove) \in Nat /\ Len(to_add) \in Nat
      /\ done - Len(to_remove) + 1 \in 1 .. Len(to_add)
      /\ ToConnect = to_add[done - Len(to_remove) + 1]
      /\ ToConnect \in Blocks \ {Genesis}
  BY <1>1, ConnectShape
<1>3. /\ header_dict' = [header_dict EXCEPT ![ToConnect] = "valid"]
      /\ UNCHANGED <<downloaded, active_chain, block_candidates, loading>>
  BY <1>1 DEF Index!MarkValid
<1>4. Index!Known \subseteq Index!Known'
  BY <1>2, <1>3, KnownGrows DEF Form
<1>5. RecordsOK'
  BY <1>1, <1>4, RecordsKept DEF Form
<1>6. ChainShape'
  <2>1. Index!InActiveChain' \subseteq Index!InActiveChain
    BY <1>2, <1>3 DEF Form, ChainShape, Index!InActiveChain
  <2>2. /\ header_dict' \in [Blocks -> {"unknown", "valid_header", "valid", "in_active_chain"}]
        /\ header_dict'[Genesis] = "in_active_chain"
    BY <1>2, <1>3, PathAssumption DEF Form, ChainShape
  <2>3. IsFiniteSet(Index!InActiveChain')
    BY <2>1, FS_Subset DEF Form, ChainShape
  <2>4. blocks' = blocks /\ rev_patches' = rev_patches
    BY <1>1, SameReads DEF blockVars
  <2> QED
    BY <1>3, <2>1, <2>2, <2>3, <2>4 DEF Form, ChainShape
<1>7. WritingOK' /\ BatchOK' /\ NothingStaged'
  BY <1>1 DEF Form, WritingOK, BatchOK, NothingStaged, Busy, blockVars, messageVars,
             Store!NotWriting
<1>8. UpdateShape'
  <2>1. /\ to_add' = to_add /\ to_remove' = to_remove /\ downloaded' = downloaded
        /\ done' = done /\ UNCHANGED stored /\ Applied' = done + 1 /\ Applied = done
    BY <1>1, <1>3 DEF updateVars, blockVars, Applied
  <2>2. ASSUME NEW i \in 1 .. Len(to_add), i <= done + 1 - Len(to_remove)
        PROVE  Readable("blk", to_add[i])
    <3>1. CASE i = done - Len(to_remove) + 1
      BY <1>1, <1>2, <3>1
    <3>2. CASE i # done - Len(to_remove) + 1
      <4>1. i <= Applied - Len(to_remove)
        BY <1>2, <2>1, <2>2, <3>2
      <4> QED
        BY <1>1, <4>1 DEF Form, UpdateShape
    <3> QED
      BY <3>1, <3>2
  <2>3. done - Len(to_remove) \in 0 .. Len(to_add) - 1
    BY <1>2
  <2> QED
    BY <1>1, <2>1, <2>2, <2>3, SameReads DEF Form, UpdateShape
<1> QED
  BY <1>5, <1>6, <1>7, <1>8 DEF Form

LEMMA RecordRevForm ==
    ASSUME Form, RecordRevBlock
    PROVE  Form'
<1>1. /\ pc = "record" /\ pc' = "record" /\ Store!Flush(PatchKey)
      /\ UNCHANGED <<indexVars, utxoVars, updateVars, messageVars, done, crashes>>
  BY DEF RecordRevBlock
<1>2. Index!Known' = Index!Known
  BY <1>1 DEF indexVars, Index!Known
<1>3. PatchKey \in {"blk", "rev"} \X (Index!Known \ {Genesis})
  <2>1. Readable("blk", ToConnect)
    BY <1>1, ConnectShape
  <2>2. Found("blk", ToConnect) \in Index!Known \ {Genesis}
    BY <2>1, FoundFacts DEF Form
  <2> QED
    BY <2>2 DEF PatchKey
<1>4. /\ RecordsOK' /\ UNCHANGED stored
      /\ writing' = [stage |-> "flushed", key |-> PatchKey]
      /\ PatchKey \in flushed' \ Store!Stored'
  BY <1>1, <1>2, <1>3, FlushRecords DEF Form
<1>5. /\ PatchKey' = PatchKey /\ Applied' = Applied
      /\ to_add' = to_add /\ to_remove' = to_remove /\ done' = done /\ downloaded' = downloaded
  BY <1>1, <1>4, SameReads DEF PatchKey, ToConnect, Applied, updateVars, indexVars
<1>6. WritingOK'
  <2>1. writing'.stage = "flushed" /\ writing'.key = PatchKey
    BY <1>4
  <2> QED
    BY <1>1, <1>4, <1>5, <2>1 DEF WritingOK
<1>7. BatchOK' /\ NothingStaged'
  BY <1>1, <1>2 DEF Form, BatchOK, NothingStaged, Busy, messageVars
<1>8. ChainShape'
  BY <1>1, <1>4, IndexShape DEF Form
<1>9. UpdateShape'
  BY <1>1, <1>4, <1>5, SameReads DEF Form, UpdateShape
<1> QED
  BY <1>4, <1>6, <1>7, <1>8, <1>9 DEF Form

LEMMA EndForm ==
    ASSUME Form, EndBlock
    PROVE  Form'
<1>1. /\ pc = "record" /\ pc' = "update" /\ done' = done + 1
      /\ PatchKey \in Store!Stored
      /\ UNCHANGED <<indexVars, utxoVars, blockVars, updateVars, messageVars, crashes>>
  BY DEF EndBlock
<1>2. writing = Store!NotWriting
  BY <1>1 DEF Form, WritingOK
<1>3. RecordsOK' /\ ChainShape'
  BY <1>1, SameRecords
<1>4. WritingOK' /\ BatchOK' /\ NothingStaged'
  BY <1>1, <1>2 DEF Form, WritingOK, BatchOK, NothingStaged, Busy, blockVars, messageVars,
                    Store!NotWriting
<1>5. UpdateShape'
  <2>1. /\ to_add' = to_add /\ to_remove' = to_remove /\ downloaded' = downloaded
        /\ done \in Nat /\ Len(to_remove) \in Nat
        /\ Applied' = done + 1 /\ Applied = done + 1 /\ done' = done + 1
        /\ UNCHANGED stored
        /\ done - Len(to_remove) + 1 \in 1 .. Len(to_add)
        /\ ToConnect = to_add[done - Len(to_remove) + 1]
        /\ to_remove \in Seq(Blocks)
    BY <1>1, ConnectShape DEF Form, UpdateShape, updateVars, indexVars, Applied, blockVars
  <2>2. ASSUME NEW i \in 1 .. Len(to_remove), i <= done + 1
        PROVE  Readable("rev", to_remove[i])
    <3>1. i <= done
      <4>1. Len(to_remove) <= done
        BY <1>1, <2>1
      <4> QED
        BY <2>1, <4>1
    <3> QED
      BY <1>1, <3>1 DEF Form, UpdateShape
  <2>3. ASSUME NEW i \in 1 .. Len(to_add), i <= done + 1 - Len(to_remove)
        PROVE  Readable("blk", to_add[i]) /\ Has("rev", Found("blk", to_add[i]))
    <3>1. Readable("blk", to_add[i])
      BY <1>1, <2>1, <2>3 DEF Form, UpdateShape
    <3>2. CASE i = done - Len(to_remove) + 1
      BY <1>1, <2>1, <3>1, <3>2 DEF Has, PatchKey
    <3>3. CASE i # done - Len(to_remove) + 1
      <4>1. i <= done - Len(to_remove)
        BY <2>1, <2>3, <3>3
      <4> QED
        BY <1>1, <3>1, <4>1 DEF Form, UpdateShape
    <3> QED
      BY <3>2, <3>3
  <2>4. done' \in Nat
    BY <2>1
  <2>5. /\ to_add \in Seq(Blocks \ {Genesis}) /\ Elems(to_add) \subseteq downloaded
    BY DEF Form, UpdateShape
  <2>6. ASSUME NEW i \in 1 .. Len(to_remove), i <= done'
        PROVE  Readable("rev", to_remove[i])'
    <3>1. Readable("rev", to_remove[i])
      BY <2>1, <2>2, <2>6
    <3> QED
      BY <2>1, <3>1 DEF Readable, Has, Store!Stored
  <2>7. ASSUME NEW i \in 1 .. Len(to_add), i <= done' - Len(to_remove)
        PROVE  (Readable("blk", to_add[i]) /\ Has("rev", Found("blk", to_add[i])))'
    <3>1. Readable("blk", to_add[i]) /\ Has("rev", Found("blk", to_add[i]))
      BY <2>1, <2>3, <2>7
    <3> QED
      BY <2>1, <3>1 DEF Readable, Has, Found, Store!Stored
  <2>8. /\ pc' # "record" /\ Applied' = done'
        /\ Len(to_remove') = Len(to_remove) /\ Len(to_add') = Len(to_add)
    BY <1>1, <2>1
  <2>9. (pc \in {"update", "record"} =>
          /\ \A i \in 1 .. Len(to_remove) : i <= done => Readable("rev", to_remove[i])
          /\ \A i \in 1 .. Len(to_add) :
                /\ i <= Applied - Len(to_remove) => Readable("blk", to_add[i])
                /\ i <= done - Len(to_remove) => Has("rev", Found("blk", to_add[i])))'
    <3>1. (\A i \in 1 .. Len(to_remove) : i <= done => Readable("rev", to_remove[i]))'
      BY <2>6, <2>8
    <3>2. ASSUME NEW i \in 1 .. Len(to_add')
          PROVE  (/\ i <= Applied - Len(to_remove) => Readable("blk", to_add[i])
                  /\ i <= done - Len(to_remove) => Has("rev", Found("blk", to_add[i])))'
      BY <2>7, <2>8
    <3> QED
      BY <3>1, <3>2
  <2> QED
    BY <2>1, <2>4, <2>5, <2>8, <2>9 DEF UpdateShape
<1> QED
  BY <1>3, <1>4, <1>5 DEF Form

LEMMA RollbackForm ==
    ASSUME Form, RollbackUpdate
    PROVE  Form'
<1>1. /\ pc = "update" /\ pc' = "recheck" /\ done' = 0
      /\ removed_utxos' = {} /\ updated_utxo_set' = {}
      /\ to_add' = <<>> /\ to_remove' = <<>>
      /\ UNCHANGED <<indexVars, blockVars, messageVars, crashes>>
      /\ writing = Store!NotWriting
  BY NothingWritten DEF RollbackUpdate, Reverting, Connecting, Rollback
<1>2. RecordsOK' /\ ChainShape'
  BY <1>1, SameRecords
<1>3. WritingOK' /\ BatchOK' /\ NothingStaged'
  BY <1>1 DEF Form, WritingOK, BatchOK, NothingStaged, blockVars, messageVars,
             Store!NotWriting
<1>4. UpdateShape'
  BY <1>1 DEF UpdateShape, Elems
<1> QED
  BY <1>2, <1>3, <1>4 DEF Form

(* What the write batch puts, whatever was found. *)
LEMMA CommitShape ==
    ASSUME Form, Commit, UNCHANGED blockVars
    PROVE  ChainShape' /\ Index!Known \subseteq Index!Known'
<1> DEFINE c == active_chain
           n == Len(Removed)
           s == SubSeq(c, 1, Len(c) - n)
<1>1. /\ pc = "update" /\ done = Len(to_remove) + Len(to_add)
      /\ Index!CanMove(Removed)
      /\ active_chain' = s \o Added
      /\ header_dict' = [b \in Blocks |->
                            CASE b \in Index!Elems(Added) -> "in_active_chain"
                              [] b \in Index!Elems(Removed) \ Index!Elems(Added) -> "valid"
                              [] OTHER -> header_dict[b]]
      /\ UNCHANGED <<downloaded, block_candidates, loading>>
  BY DEF Commit, AllApplied, Index!Move
<1>2. /\ Len(to_remove) \in Nat /\ Len(to_add) \in Nat
      /\ Applied = done
      /\ \A i \in 1 .. Len(to_remove) : Readable("rev", to_remove[i])
      /\ \A i \in 1 .. Len(to_add) :
            Readable("blk", to_add[i]) /\ Has("rev", Found("blk", to_add[i]))
  <2>1. /\ Len(to_remove) \in Nat /\ Len(to_add) \in Nat /\ Applied = done
    BY <1>1, LenProperties DEF Form, UpdateShape, Applied
  <2>2. /\ \A i \in 1 .. Len(to_remove) : i <= done
        /\ \A i \in 1 .. Len(to_add) : i <= done - Len(to_remove)
    BY <1>1, <2>1
  <2> QED
    BY <1>1, <2>1, <2>2 DEF Form, UpdateShape
<1>3. /\ \A i \in 1 .. Len(to_remove) : Found("rev", to_remove[i]) \in Blocks \ {Genesis}
      /\ \A i \in 1 .. Len(to_add) : Found("blk", to_add[i]) \in Blocks \ {Genesis}
  BY <1>2, FoundFacts DEF Form
<1>4. /\ Removed \in Seq(Blocks \ {Genesis}) /\ n = Len(to_remove)
      /\ Added \in Seq(Blocks \ {Genesis}) /\ Len(Added) = Len(to_add)
  BY <1>2, <1>3 DEF Removed, Added
<1>5. Elems(Added) \subseteq rev_patches /\ Elems(Added) \subseteq Blocks \ {Genesis}
      /\ Elems(Removed) \subseteq Blocks \ {Genesis}
  <2>1. ASSUME NEW i \in 1 .. Len(Added) PROVE Added[i] \in rev_patches
    <3>1. Added[i] = Found("blk", to_add[i]) /\ i \in 1 .. Len(to_add)
      BY <1>4 DEF Added
    <3> QED
      BY <1>2, <1>3, <3>1 DEF rev_patches
  <2>2. /\ \A i \in 1 .. Len(Added) : Added[i] \in Blocks \ {Genesis}
        /\ \A i \in 1 .. Len(Removed) : Removed[i] \in Blocks \ {Genesis}
    BY <1>4, ElementOfSeq
  <2> QED
    BY <2>1, <2>2 DEF Elems
<1>6. /\ c \in Seq(Blocks) /\ Len(c) \in Nat \ {0} /\ c[1] = Genesis
      /\ \A i \in 1 .. Len(c) : c[i] \in Blocks
  BY EmptySeq, LenProperties, ElementOfSeq DEF Form, ChainShape
<1>7. n \in Nat /\ n < Len(c)
  <2>1. n <= Len(c) /\ \A i \in 1 .. n : Removed[i] = c[Len(c) + 1 - i]
    BY <1>1 DEF Index!CanMove
  <2>2. n \in Nat
    BY <1>2, <1>4
  <2>3. ASSUME n = Len(c) PROVE FALSE
    <3>1. n \in 1 .. n /\ Len(c) + 1 - n = 1
      BY <1>6, <2>2, <2>3
    <3>2. Removed[n] = Genesis
      BY <1>6, <2>1, <3>1
    <3>3. Removed[n] # Genesis
      BY <1>4, <3>1, ElementOfSeq
    <3> QED
      BY <3>2, <3>3
  <2> QED
    BY <1>6, <2>1, <2>2, <2>3
<1>8. /\ s \in Seq(Blocks) /\ Len(s) = Len(c) - n /\ Len(c) - n \in Nat \ {0}
      /\ \A i \in 1 .. Len(s) : s[i] = c[i]
  <2>1. Len(c) - n \in Nat \ {0}
    BY <1>6, <1>7
  <2>2. \A i \in 1 .. Len(c) - n : c[i] \in Blocks
    BY <1>6, <1>7
  <2> HIDE DEF n
  <2> QED
    BY <1>6, <2>1, <2>2, SubSeqProperties
<1> HIDE DEF s, n
<1>9. /\ active_chain' \in Seq(Blocks) /\ active_chain' # <<>> /\ active_chain'[1] = Genesis
      /\ \A i \in 1 .. Len(active_chain') :
            active_chain'[i] \in Elems(c) \cup Elems(Added)
  <2>1. Added \in Seq(Blocks)
    BY <1>4
  <2>2. /\ s \o Added \in Seq(Blocks) /\ Len(s \o Added) = Len(s) + Len(Added)
        /\ \A i \in 1 .. Len(s) + Len(Added) :
              (s \o Added)[i] = IF i <= Len(s) THEN s[i] ELSE Added[i - Len(s)]
    BY <1>8, <2>1, ConcatProperties
  <2>3. Len(s) \in Nat \ {0} /\ Len(Added) \in Nat
    BY <1>8, <2>1, LenProperties
  <2>4. 1 \in 1 .. Len(s) + Len(Added) /\ 1 <= Len(s)
    BY <2>3
  <2>5. (s \o Added)[1] = Genesis
    BY <1>6, <1>8, <2>2, <2>3, <2>4
  <2>6. ASSUME NEW i \in 1 .. Len(s) + Len(Added)
        PROVE  (s \o Added)[i] \in Elems(c) \cup Elems(Added)
    <3>1. CASE i <= Len(s)
      <4>1. i \in 1 .. Len(s) /\ i \in 1 .. Len(c)
        BY <1>6, <1>7, <1>8, <2>3, <3>1
      <4> QED
        BY <1>8, <2>2, <3>1, <4>1 DEF Elems
    <3>2. CASE ~ (i <= Len(s))
      <4>1. i - Len(s) \in 1 .. Len(Added)
        BY <2>3, <3>2
      <4> QED
        BY <2>2, <3>2, <4>1 DEF Elems
    <3> QED
      BY <3>1, <3>2
  <2>7. s \o Added # <<>>
    BY <2>2, <2>3, EmptySeq
  <2> QED
    BY <1>1, <2>2, <2>5, <2>6, <2>7
<1>10. /\ header_dict' \in [Blocks -> {"unknown", "valid_header", "valid", "in_active_chain"}]
       /\ header_dict'[Genesis] = "in_active_chain"
       /\ Index!InActiveChain' \subseteq Index!InActiveChain \cup Elems(Added)
       /\ Index!Known \subseteq Index!Known'
  <2>1. Index!Elems(Added) = Elems(Added) /\ Index!Elems(Removed) = Elems(Removed)
    BY SameTree, Zenon
  <2>2. /\ header_dict \in [Blocks -> {"unknown", "valid_header", "valid", "in_active_chain"}]
        /\ header_dict[Genesis] = "in_active_chain"
    BY DEF Form, ChainShape
  <2>3. header_dict' = [b \in Blocks |->
                            CASE b \in Elems(Added) -> "in_active_chain"
                              [] b \in Elems(Removed) \ Elems(Added) -> "valid"
                              [] OTHER -> header_dict[b]]
    BY <1>1, <2>1
  <2>4. \A b \in Blocks : /\ b \in Elems(Added) => header_dict'[b] = "in_active_chain"
                          /\ b \in Elems(Removed) \ Elems(Added) => header_dict'[b] = "valid"
                          /\ b \notin Elems(Added) \cup Elems(Removed) =>
                                header_dict'[b] = header_dict[b]
    BY <2>3
  <2>5. header_dict'[Genesis] = "in_active_chain"
    BY <1>5, <2>2, <2>4, PathAssumption
  <2>6. header_dict' \in [Blocks -> {"unknown", "valid_header", "valid", "in_active_chain"}]
    BY <2>2, <2>3
  <2> QED
    BY <2>4, <2>5, <2>6 DEF Index!InActiveChain, Index!Known
<1>11. IsFiniteSet(Index!InActiveChain')
  <2>1. IsFiniteSet(Elems(Added))
    <3>1. Len(Added) \in Nat
      BY <1>2, <1>4
    <3>2. IsFiniteSet(1 .. Len(Added))
      BY <3>1, FS_Interval
    <3> DEFINE f == [i \in 1 .. Len(Added) |-> Added[i]]
    <3>3. f \in Surjection(1 .. Len(Added), Elems(Added))
      BY DEF Surjection, Elems
    <3> HIDE DEF f
    <3> QED
      BY <3>2, <3>3, FS_Surjection
  <2>2. IsFiniteSet(Index!InActiveChain \cup Elems(Added))
    BY <2>1, FS_Union DEF Form, ChainShape
  <2> QED
    BY <1>10, <2>2, FS_Subset
<1>12. (Elems(active_chain') \cup Index!InActiveChain') \ {Genesis} \subseteq rev_patches'
  <2>1. rev_patches' = rev_patches
    BY SameReads DEF blockVars
  <2>2. Elems(active_chain') \subseteq Elems(c) \cup Elems(Added)
    BY <1>9 DEF Elems
  <2>3. (Elems(c) \cup Index!InActiveChain) \ {Genesis} \subseteq rev_patches
    BY DEF Form, ChainShape
  <2> QED
    BY <1>5, <1>10, <2>1, <2>2, <2>3
<1>13. blocks' = blocks
  BY SameReads DEF blockVars
<1> QED
  BY <1>1, <1>9, <1>10, <1>11, <1>12, <1>13 DEF Form, ChainShape

LEMMA CommitForm ==
    ASSUME Form, FinalizeUpdate \/ TakeBackRaises
    PROVE  Form'
<1>1. /\ Commit /\ pc = "update" /\ pc' \in {"recheck", "stopped"}
      /\ removed_utxos' = {} /\ updated_utxo_set' = {}
      /\ UNCHANGED <<blockVars, messageVars, crashes>>
      /\ downloaded' = downloaded
      /\ writing = Store!NotWriting
  BY NothingWritten DEF FinalizeUpdate, TakeBackRaises, Commit, AllApplied, Finalize
<1>2. \/ to_add' = <<>> /\ to_remove' = <<>> /\ done' = 0
      \/ UNCHANGED <<to_add, to_remove, done>>
  BY DEF FinalizeUpdate, TakeBackRaises, updateVars
<1>3. ChainShape' /\ Index!Known \subseteq Index!Known'
  BY <1>1, CommitShape
<1>4. RecordsOK'
  BY <1>1, <1>3, RecordsKept DEF Form
<1>5. WritingOK' /\ BatchOK' /\ NothingStaged'
  BY <1>1, <1>3 DEF Form, WritingOK, BatchOK, NothingStaged, blockVars, messageVars,
             Store!NotWriting
<1>6. UpdateShape'
  <2>1. CASE to_add' = <<>> /\ to_remove' = <<>> /\ done' = 0
    BY <1>1, <2>1 DEF UpdateShape, Elems
  <2>2. CASE UNCHANGED <<to_add, to_remove, done>>
    BY <1>1, <2>2 DEF Form, UpdateShape
  <2> QED
    BY <1>2, <2>1, <2>2
<1> QED
  BY <1>3, <1>4, <1>5, <1>6 DEF Form

LEMMA RestartForm ==
    ASSUME Form, Restart
    PROVE  Form'
<1>1. /\ Index!Restart /\ Store!Kill /\ crashes' = crashes + 1
      /\ removed_utxos' = {} /\ updated_utxo_set' = {}
      /\ pc' = "loading" /\ batch' = <<>>
      /\ to_add' = <<>> /\ to_remove' = <<>> /\ done' = 0
      /\ UNCHANGED <<stored, flushed, header_dict, downloaded>>
      /\ active_chain' = Index!GeneratedChain
      /\ block_candidates' = <<>> /\ loading' = Index!Known
  BY DEF Restart, Store!Kill, Index!Restart
<1>2. Index!Known' = Index!Known /\ Index!InActiveChain' = Index!InActiveChain
  BY <1>1 DEF Index!Known, Index!InActiveChain
<1>3. /\ writing' = Store!NotWriting
      /\ cut' \in {cut, cut \cup {writing.key[1]}}
      /\ writing # Store!NotWriting \/ cut' = cut
  BY <1>1 DEF Store!Kill, Store!NotWriting
<1>4. RecordsOK'
  <2>1. cut \subseteq cut' /\ cut' \subseteq Store!Kinds
    <3>1. CASE writing = Store!NotWriting
      BY <1>3, <3>1 DEF Form, RecordsOK
    <3>2. CASE writing # Store!NotWriting
      <4>1. writing.key \in flushed
        BY <3>2 DEF Form, WritingOK
      <4>2. writing.key \in {"blk", "rev"} \X (Index!Known \ {Genesis})
        BY <4>1 DEF Form, RecordsOK
      <4>3. writing.key[1] \in Store!Kinds
        BY <4>2 DEF Store!Kinds
      <4> QED
        BY <1>3, <4>3 DEF Form, RecordsOK
    <3> QED
      BY <3>1, <3>2
  <2>2. Store!Stored' = Store!Stored
    BY <1>1 DEF Store!Stored
  <2>3. crashes' \in Nat /\ crashes' # 0
    BY <1>1 DEF Form, RecordsOK
  <2> QED
    BY <1>1, <1>2, <2>1, <2>2, <2>3 DEF Form, RecordsOK
<1>5. WritingOK' /\ BatchOK' /\ NothingStaged'
  BY <1>1, <1>3 DEF WritingOK, BatchOK, NothingStaged, Store!NotWriting
<1>6. ChainShape'
  <2>1. IsFiniteSet(Index!InActiveChain) /\ Genesis \in Index!InActiveChain
    BY PathAssumption DEF Form, ChainShape, Index!InActiveChain
  <2>2. IndexP!IsFiniteSet(IndexP!InActiveChain) /\ Genesis \in IndexP!InActiveChain
    BY <2>1, SameIndexState, Zenon DEF IndexP!IsFiniteSet, IsFiniteSet
  <2>3. /\ IndexP!GeneratedChain \in Seq(Blocks) /\ IndexP!GeneratedChain # <<>>
        /\ IndexP!GeneratedChain[1] = Genesis
        /\ IndexP!Elems(IndexP!GeneratedChain) \subseteq IndexP!InActiveChain
    BY <2>2, IndexP!AnyGeneratedChain, PathAssumption, WorkAssumption, RankAssumption,
       ChainAssumption, Zenon DEF IndexP!Tip, Tip, IndexP!Parent, Parent
  <2>4. /\ active_chain' \in Seq(Blocks) /\ active_chain' # <<>>
        /\ active_chain'[1] = Genesis
        /\ Elems(active_chain') \subseteq Index!InActiveChain
    BY <1>1, <2>3, SameGeneratedChain, SameIndexState, SameTree, SameTreeProofs, Zenon
  <2>5. blocks' = blocks /\ rev_patches' = rev_patches
    BY <1>1, SameReads
  <2>6. block_candidates' \in Seq(Blocks) /\ loading' \subseteq Blocks
    BY <1>1 DEF Index!Known
  <2> QED
    BY <1>1, <1>2, <2>4, <2>5, <2>6 DEF Form, ChainShape
<1>7. UpdateShape'
  BY <1>1 DEF UpdateShape, Elems
<1> QED
  BY <1>4, <1>5, <1>6, <1>7 DEF Form

LEMMA StutterForm ==
    ASSUME Form, UNCHANGED vars
    PROVE  Form'
<1>1. UNCHANGED <<indexVars, utxoVars, blockVars, updateVars, messageVars, pc, done, crashes>>
  BY DEF vars
<1>2. RecordsOK' /\ ChainShape'
  BY <1>1, SameRecords
<1>3. PatchKey' = PatchKey /\ Applied' = Applied /\ Store!Stored' = Store!Stored
  BY <1>1, SameReads DEF PatchKey, ToConnect, updateVars, blockVars, Applied
<1>4. Index!Known' = Index!Known
  BY <1>1, SameRecords
<1>5. WritingOK' /\ BatchOK' /\ NothingStaged'
  BY <1>1, <1>3, <1>4, SameReads DEF Form, WritingOK, BatchOK, NothingStaged, Busy, blockVars, messageVars,
             utxoVars
<1>6. UpdateShape'
  BY <1>1, <1>3, SameReads DEF Form, UpdateShape, updateVars, indexVars, blockVars
<1> QED
  BY <1>2, <1>5, <1>6 DEF Form

LEMMA InitForm == Init => Form
<1> SUFFICES ASSUME Init PROVE Form
  OBVIOUS
<1>1. /\ stored = <<>> /\ writing = Store!NotWriting /\ flushed = {} /\ cut = {}
      /\ header_dict = [b \in Blocks |-> IF b = Genesis THEN "in_active_chain" ELSE "unknown"]
      /\ downloaded = {Genesis} /\ active_chain = <<Genesis>>
      /\ block_candidates = <<>> /\ loading = {}
      /\ removed_utxos = {} /\ updated_utxo_set = {}
      /\ pc = "idle" /\ batch = <<>> /\ to_add = <<>> /\ to_remove = <<>> /\ done = 0
      /\ crashes = 0
  BY DEF Init, Index!Init, Store!Init, UtxoInit
<1>2. RecordsOK
  <2>1. Store!Stored = {}
    BY <1>1 DEF Store!Stored
  <2>2. stored \in [{} -> {Garbled}]
    BY <1>1
  <2> QED
    BY <1>1, <2>1, <2>2 DEF RecordsOK
<1>3. ChainShape
  <2>1. Index!InActiveChain = {Genesis} /\ Elems(active_chain) = {Genesis}
    <3>1. Genesis \in Blocks
      BY PathAssumption
    <3>2. Index!InActiveChain = {Genesis}
      BY <1>1, <3>1 DEF Index!InActiveChain
    <3>3. Len(<<Genesis>>) = 1 /\ <<Genesis>>[1] = Genesis
      OBVIOUS
    <3> QED
      BY <1>1, <3>2, <3>3 DEF Elems
  <2>2. IsFiniteSet({Genesis})
    BY FS_Singleton
  <2>3. header_dict[Genesis] = "in_active_chain" /\ <<Genesis>> \in Seq(Blocks)
    BY <1>1, PathAssumption
  <2>4. header_dict \in [Blocks -> {"unknown", "valid_header", "valid", "in_active_chain"}]
    BY <1>1
  <2> QED
    BY <1>1, <2>1, <2>2, <2>3, <2>4 DEF ChainShape
<1>4. WritingOK /\ BatchOK /\ NothingStaged /\ UpdateShape
  BY <1>1 DEF WritingOK, BatchOK, NothingStaged, UpdateShape, Elems
<1> QED
  BY <1>2, <1>3, <1>4 DEF Form

LEMMA NextForm == Form /\ [Next]_vars => Form'
<1> SUFFICES ASSUME Form, [Next]_vars PROVE Form'
  OBVIOUS
<1>1. CASE HandleMessage
  BY <1>1, HeadersForm, FlagForm DEF HandleMessage
<1>2. CASE UpdateChain
  BY <1>2, OtherForm, StartForm, RaisesForm, RevertForm, ConnectForm, RecordRevForm,
     EndForm, RollbackForm, CommitForm DEF UpdateChain
<1>3. CASE UNCHANGED vars
  BY <1>3, StutterForm
<1> QED
  BY <1>1, <1>2, <1>3, HeadersForm, ReceiveBlockForm, OtherForm, PutRecordForm, RestartForm
     DEF Next

(* Whatever is read, and wherever the process is killed. *)
LEMMA FormInvariance == Spec => []Form
BY InitForm, NextForm, PTL DEF Spec
-----------------------------------------------------------------------------
(* What holds as long as every record is read back as it was written.      *)

(* The coins on disk are those the active chain leaves, and nothing on it  *)
(* spends what is not there.                                               *)
CoinsOK == utxo_db = UtxoOf(Tip(active_chain)) /\ ValidBranch(Tip(active_chain))

(* The blocks of the active chain can be taken back to the mempool. *)
StoreOK == Elems(active_chain) \ {Genesis} \subseteq blocks

(* The main thread outside update_chain: the constructor is through.       *)
ControlOK ==
    /\ mempool \subseteq [ins : SUBSET Coins, outs : SUBSET Coins]
    /\ status \in NodeStatus
    /\ pc \in {"idle", "headers", "block", "update", "record", "recheck",
               "stopped", "loading"}
    /\ added \in BOOLEAN
    /\ crashes \in 0 .. MaxCrashes
    /\ pc # "loading" => loading = {}

(* No branch is chosen unless an update runs. *)
IdleOK == ~ Busy => to_add = <<>> /\ to_remove = <<>>

(* The branch an update tries, and where it leaves the active chain. *)
Target == Tip(to_add)

ForkPoint == CommonLen(Target, active_chain)

TargetOK ==
    Busy => /\ Target \in Blocks
            /\ Work[Target] > Work[Tip(active_chain)]
            /\ to_add = ForkAdd(Target, active_chain)
            /\ to_remove = ForkRemove(Target, active_chain)

(* The blocks that are connected were put as valid. *)
ProgressOK ==
    Busy => /\ Applied <= Len(to_remove) + Len(to_add)
            /\ \A i \in 1 .. Len(to_add) :
                  i <= Applied - Len(to_remove) => header_dict[to_add[i]] = "valid"

(* The staged coins while blocks are reverted, and after that. *)
RevertingOK ==
    Busy /\ Applied <= Len(to_remove) =>
        /\ StagedView = RevertedView(Tip(active_chain), ForkPoint, Applied)
        /\ NothingSpent(Tip(active_chain), ForkPoint, Applied)

AppliedBlock == Path[Target][ForkPoint + (Applied - Len(to_remove))]

ConnectingOK ==
    Busy /\ Applied >= Len(to_remove) =>
        StagedView = UtxoOf(AppliedBlock) /\ ValidBranch(AppliedBlock)

UpdateInv == TargetOK /\ ProgressOK /\ RevertingOK /\ ConnectingOK

Core ==
    /\ IndexInv /\ StagedInv
    /\ CoinsOK /\ StoreOK /\ ControlOK
    /\ IdleOK /\ UpdateInv

Inv == Form /\ Intact /\ Core

(* What each step is for the components and for whoever reads the chain. *)
Allowed ==
    /\ [Index!Next]_indexVars
    /\ [UtxoNext]_utxoVars
    /\ [Best!Next]_<<active_chain, utxo_db>>

(* What is asked for is what is read. *)
LEMMA ReadsRight ==
    ASSUME Inv, NEW kind \in {"blk", "rev"}, NEW h, Has(kind, h)
    PROVE  Readable(kind, h) /\ Found(kind, h) = h /\ h \in Blocks \ {Genesis}
<1> DEFINE key == <<kind, h>>
<1>1. key \in Store!Stored /\ stored[key] = key
  BY DEF Inv, Has, Intact, Store!Intact
<1>2. key \in {"blk", "rev"} \X (Index!Known \ {Genesis})
  BY <1>1 DEF Inv, Form, RecordsOK
<1>3. h \in Blocks \ {Genesis}
  BY <1>2 DEF Index!Known
<1>4. key # Garbled
  BY <1>3, ChainAssumption
<1> QED
  BY <1>1, <1>3, <1>4 DEF Readable, Has, Found

(* What all lemmas take from the states that are fit. *)
LEMMA FormFacts ==
    ASSUME Inv
    PROVE  /\ done \in Nat /\ batch \in Seq(Blocks)
           /\ Elems(to_add) \subseteq downloaded
           /\ downloaded \ {Genesis} \subseteq blocks
           /\ Elems(active_chain) \ {Genesis} \subseteq rev_patches
           /\ pc = "record" => done - Len(to_remove) \in 0 .. Len(to_add) - 1
           /\ ~ Busy => removed_utxos = {} /\ updated_utxo_set = {}
           /\ pc = "block" => batch[1] \in Blocks
BY DEF Inv, Form, BatchOK, ChainShape, UpdateShape, NothingStaged, Index!Known

(* The tip of the active chain. *)
LEMMA ChainFacts ==
    ASSUME IndexInv
    PROVE  /\ active_chain \in Seq(Blocks) /\ IsBranch(active_chain)
           /\ Tip(active_chain) \in Blocks
           /\ active_chain = Path[Tip(active_chain)]
           /\ Len(active_chain) \in Nat \ {0}
           /\ Elems(active_chain) \subseteq Blocks
           /\ Genesis \in Elems(active_chain)
BY IndexFacts, TipFacts

(* The branch of a running update. *)
LEMMA TargetFacts ==
    ASSUME Inv, Busy
    PROVE  /\ Target \in Blocks
           /\ ForkPoint \in 1 .. Len(Path[Target]) - 1
           /\ ForkPoint \in 1 .. Len(active_chain)
           /\ Path[Target][ForkPoint] = active_chain[ForkPoint]
           /\ Len(Path[Target]) \in Nat
           /\ to_add \in Seq(Blocks) /\ to_remove \in Seq(Blocks)
           /\ Len(to_add) = Len(Path[Target]) - ForkPoint
           /\ Len(to_remove) = Len(active_chain) - ForkPoint
           /\ \A i \in 1 .. Len(to_add) : to_add[i] = Path[Target][ForkPoint + i]
           /\ \A i \in 1 .. Len(to_remove) : to_remove[i] = active_chain[ForkPoint + i]
           /\ Elems(Path[Target]) = (Elems(active_chain) \ Elems(to_remove)) \cup Elems(to_add)
           /\ Elems(active_chain) \cap Elems(to_add) = {}
           /\ Elems(to_add) \subseteq downloaded
<1> DEFINE h == Target
           c == active_chain
<1>1. /\ h \in Blocks /\ Work[h] > Work[Tip(c)]
      /\ to_add = ForkAdd(h, c) /\ to_remove = ForkRemove(h, c)
      /\ Elems(to_add) \subseteq downloaded
  BY FormFacts DEF Inv, Core, UpdateInv, TargetOK
<1>2. c \in Seq(Blocks) /\ IsBranch(c)
  BY ChainFacts DEF Inv, Core
<1>3. Len(Path[h]) \in Nat
  BY <1>1, PathFacts
<1> HIDE DEF h, c
<1>4. /\ CommonLen(h, c) \in 1 .. Len(Path[h]) - 1 /\ CommonLen(h, c) \in 1 .. Len(c)
      /\ \A i \in 1 .. CommonLen(h, c) : Path[h][i] = c[i]
      /\ to_add \in Seq(Blocks) /\ to_remove \in Seq(Blocks)
      /\ Len(to_add) = Len(Path[h]) - CommonLen(h, c)
      /\ Len(to_remove) = Len(c) - CommonLen(h, c)
      /\ \A i \in 1 .. Len(to_add) : to_add[i] = Path[h][CommonLen(h, c) + i]
      /\ \A i \in 1 .. Len(to_remove) : to_remove[i] = c[CommonLen(h, c) + i]
      /\ Elems(Path[h]) = (Elems(c) \ Elems(to_remove)) \cup Elems(to_add)
      /\ Elems(c) \cap Elems(to_add) = {}
  BY <1>1, <1>2, HeavierForkFacts
<1>5. Path[h][CommonLen(h, c)] = c[CommonLen(h, c)]
  <2>1. CommonLen(h, c) \in 1 .. CommonLen(h, c)
    BY <1>3, <1>4
  <2> QED
    BY <1>4, <2>1
<1>6. CommonLen(h, c) = ForkPoint
  BY DEF ForkPoint, h, c
<1> QED
  BY <1>1, <1>3, <1>4, <1>5, <1>6, Zenon DEF h, c

(* The chain that readers see is about the same ledger. *)
LEMMA SameBest ==
    /\ \A b : Best!UtxoOf(b) = UtxoOf(b) /\ (Best!ValidBranch(b) <=> ValidBranch(b))
    /\ \A c : Best!Tip(c) = Tip(c)
BY Zenon DEF Best!UtxoOf, Best!ValidBranch, Best!SpendsAvailable, Best!Created, Best!Spent,
             Best!CreatedBefore, Best!SpentBefore, Best!Parent, Best!Tip,
             UtxoOf, ValidBranch, SpendsAvailable, Created, Spent, CreatedBefore,
             SpentBefore, Parent, Tip

(* What leaves the chain and the coins alone. *)
LEMMA QuietStep ==
    ASSUME Inv, ~ Busy, ~ Busy',
           [Index!Next]_indexVars, active_chain' = active_chain,
           UNCHANGED <<utxoVars, updateVars>>,
           blocks \subseteq blocks',
           ControlOK'
    PROVE  Core' /\ Allowed
<1>1. IndexInv'
  BY IndexStep DEF Inv, Core
<1>2. StagedInv' /\ CoinsOK'
  BY DEF Inv, Core, StagedInv, utxoVars, UtxoTypeOK, StagedOverDisk, CoinsOK
<1>3. StoreOK'
  BY DEF Inv, Core, StoreOK
<1>4. IdleOK' /\ UpdateInv'
  BY DEF Inv, Core, IdleOK, updateVars, UpdateInv, TargetOK, ProgressOK, RevertingOK,
         ConnectingOK
<1>5. Allowed
  BY DEF Allowed, utxoVars
<1> QED
  BY <1>1, <1>2, <1>3, <1>4, <1>5 DEF Core

(* What goes on with an update, or without one, but touches neither the    *)
(* index nor the coins.                                                    *)
LEMMA SameStep ==
    ASSUME Inv,
           UNCHANGED <<indexVars, utxoVars, updateVars, added, mempool, status, crashes>>,
           Applied' = Applied, Busy' <=> Busy,
           pc' \in {"idle", "headers", "block", "update", "record", "recheck",
                    "stopped", "loading"},
           pc = "loading" => pc' = "loading",
           blocks \subseteq blocks'
    PROVE  Core' /\ Allowed
<1>1. /\ Target' = Target /\ ForkPoint' = ForkPoint /\ AppliedBlock' = AppliedBlock
      /\ StagedView' = StagedView
  BY DEF Target, ForkPoint, AppliedBlock, indexVars, updateVars, utxoVars, StagedView
<1>2. IndexInv'
  BY IndexStep DEF Inv, Core
<1>3. StagedInv' /\ CoinsOK' /\ StoreOK' /\ IdleOK'
  BY DEF Inv, Core, StagedInv, UtxoTypeOK, StagedOverDisk, CoinsOK, StoreOK, IdleOK,
         indexVars, utxoVars, updateVars
<1>4. ControlOK'
  BY DEF Inv, Core, ControlOK, indexVars
<1>5. TargetOK' /\ RevertingOK' /\ ConnectingOK'
  BY <1>1 DEF Inv, Core, UpdateInv, TargetOK, RevertingOK, ConnectingOK, indexVars, updateVars
<1>6. ProgressOK'
  BY DEF Inv, Core, UpdateInv, ProgressOK, indexVars, updateVars
<1>7. Allowed
  BY DEF Allowed, indexVars, utxoVars
<1> QED
  BY <1>2, <1>3, <1>4, <1>5, <1>6, <1>7 DEF Core, UpdateInv

(* The invariant gives the types, and the staged coins as a reader of      *)
(* update_chain would describe them.                                       *)
LEMMA InvTypes == Inv => TypeOK
<1> SUFFICES ASSUME Inv PROVE TypeOK
  OBVIOUS
<1>1. Index!TypeOK /\ UtxoTypeOK
  BY IndexFacts DEF Inv, Core, StagedInv
<1>2. to_add \in Seq(Blocks) /\ to_remove \in Seq(Blocks)
  <2>1. CASE Busy
    BY <2>1, TargetFacts
  <2>2. CASE ~ Busy
    BY <2>2 DEF Inv, Core, IdleOK
  <2> QED
    BY <2>1, <2>2
<1>3. \A key \in {"blk", "rev"} \X (Index!Known \ {Genesis}) :
         key \in Store!Keys /\ key[2] \in Index!Known
  BY DEF Store!Keys, Store!Kinds, Index!Known
<1>4. /\ stored \in [Store!Stored -> Store!Keys \cup {Garbled}]
      /\ \A key \in Store!Stored \cup flushed : key \in Store!Keys /\ key[2] \in Index!Known
      /\ cut \subseteq Store!Kinds
  <2>1. /\ stored \in [Store!Stored -> flushed \cup {Garbled}]
        /\ Store!Stored \subseteq flushed
        /\ flushed \subseteq {"blk", "rev"} \X (Index!Known \ {Genesis})
        /\ cut \subseteq Store!Kinds
    BY DEF Inv, Form, RecordsOK
  <2> HIDE DEF Inv
  <2> QED
    BY <1>3, <2>1
<1>5. writing # Store!NotWriting =>
          /\ writing.stage \in {"flushed", "sized"}
          /\ writing.key \in flushed \ Store!Stored
          /\ pc = IF writing.key[1] = "blk" THEN "block" ELSE "record"
  BY DEF Inv, Form, WritingOK, PatchKey
<1> QED
  BY <1>1, <1>2, <1>4, <1>5, FormFacts DEF Inv, Core, ControlOK, TypeOK

LEMMA InvStaged == Inv => StagedTracksBranch
<1> SUFFICES ASSUME Inv PROVE StagedTracksBranch
  OBVIOUS
<1>1. ASSUME pc = "update", Len(to_remove) <= 1
      PROVE  StagedView = UtxoOf(AppliedTip)
  <2>1. Busy /\ Applied = done /\ done \in Nat
    BY <1>1, FormFacts DEF Busy, Applied
  <2>2. ForkPoint \in Nat /\ Len(to_remove) \in Nat /\ Len(to_add) \in Nat
    BY <2>1, TargetFacts, LenProperties
  <2>3. CASE done > Len(to_remove)
    <3>1. done - Len(to_remove) \in 1 .. Len(to_add)
      BY <2>1, <2>2, <2>3 DEF Inv, Core, UpdateInv, ProgressOK
    <3>2. AppliedTip = AppliedBlock
      BY <2>1, <2>3, <3>1, TargetFacts DEF AppliedTip, AppliedBlock
    <3> QED
      BY <2>1, <2>2, <2>3, <3>2 DEF Inv, Core, UpdateInv, ConnectingOK
  <2>4. CASE done = 0
    <3>1. AppliedTip = Tip(active_chain)
      BY <2>2, <2>4 DEF AppliedTip
    <3>2. StagedView = RevertedView(Tip(active_chain), ForkPoint, 0)
      BY <2>1, <2>2, <2>4 DEF Inv, Core, UpdateInv, RevertingOK
    <3>3. ForkPoint \in 1 .. Len(Path[Tip(active_chain)]) /\ Tip(active_chain) \in Blocks
      BY <2>1, TargetFacts, ChainFacts DEF Inv, Core
    <3> QED
      BY <3>1, <3>2, <3>3, RevertNone
  <2>5. CASE done # 0 /\ done <= Len(to_remove)
    <3>1. done = 1 /\ Len(to_remove) = 1
      BY <1>1, <2>1, <2>2, <2>5
    <3>2. AppliedTip = Parent(active_chain[ForkPoint + 1])
      BY <2>1, <3>1, TargetFacts DEF AppliedTip
    <3>3. /\ active_chain = Path[Tip(active_chain)] /\ Tip(active_chain) \in Blocks
          /\ ForkPoint + 1 \in 2 .. Len(active_chain)
      <4>1. /\ active_chain = Path[Tip(active_chain)] /\ Tip(active_chain) \in Blocks
            /\ Len(active_chain) \in Nat
        BY ChainFacts DEF Inv, Core
      <4>2. 1 = Len(active_chain) - ForkPoint /\ ForkPoint \in 1 .. Len(active_chain)
        BY <2>1, <3>1, TargetFacts
      <4>3. ForkPoint + 1 \in 2 .. Len(active_chain)
        BY <4>1, <4>2
      <4> QED
        BY <4>1, <4>3
    <3>4. Parent(active_chain[ForkPoint + 1]) = active_chain[ForkPoint]
      <4>1. (ForkPoint + 1) - 1 = ForkPoint
        BY <2>2
      <4> QED
        BY <3>3, <4>1, NextUtxo
    <3>5. AppliedTip = AppliedBlock
      BY <2>1, <2>2, <3>1, <3>2, <3>4, TargetFacts DEF AppliedBlock
    <3> QED
      BY <2>1, <2>2, <3>1, <3>5 DEF Inv, Core, UpdateInv, ConnectingOK
  <2> QED
    BY <2>1, <2>2, <2>3, <2>4, <2>5
<1> QED
  BY <1>1, FormFacts DEF StagedTracksBranch, Busy
-----------------------------------------------------------------------------
(* Messages, the early returns of update_chain, and the constructor.       *)

(* While no update runs. *)
LEMMA QuietFacts ==
    ASSUME Inv
    PROVE  IndexInv /\ ControlOK /\ (pc # "loading" => loading = {})
BY DEF Inv, Core, ControlOK

LEMMA ReceiveHeadersInv ==
    ASSUME Inv, ReceiveHeaders
    PROVE  Core' /\ Allowed
<1>1. /\ pc = "idle" /\ pc' = "headers" /\ added' = FALSE
      /\ UNCHANGED <<indexVars, utxoVars, blockVars, updateVars, mempool, status, crashes>>
  BY DEF ReceiveHeaders
<1>2. ControlOK'
  BY <1>1, QuietFacts DEF ControlOK, indexVars
<1>3. blocks' = blocks
  BY <1>1, SameReads DEF blockVars
<1> QED
  BY <1>1, <1>2, <1>3, QuietStep DEF Busy, indexVars

LEMMA TakeHeaderInv ==
    ASSUME Inv, TakeHeader
    PROVE  Core' /\ Allowed
<1> DEFINE h == batch[done + 1]
<1>1. /\ batch \in Seq(Blocks) /\ Len(batch) \in Nat /\ done \in Nat
      /\ pc = "headers" /\ done < Len(batch) /\ pc' = pc
      /\ loading = {}
      /\ UNCHANGED <<utxoVars, blockVars, updateVars, mempool, status, crashes>>
  BY FormFacts, QuietFacts, LenProperties DEF TakeHeader
<1>2. h \in Blocks
  BY <1>1, ElementOfSeq
<1>3. /\ Index!Next \/ UNCHANGED indexVars
      /\ UNCHANGED <<active_chain, loading>>
      /\ added' \in BOOLEAN
  <2>1. CASE h \notin Index!Known /\ Parent(h) \in Index!Known
    <3>1. Index!AddHeader(h) /\ added' = TRUE
      BY <2>1 DEF TakeHeader
    <3> QED
      BY <1>1, <1>2, <3>1, QuietFacts, HeaderStep
  <2>2. CASE ~ (h \notin Index!Known /\ Parent(h) \in Index!Known)
    <3>1. UNCHANGED <<indexVars, added>>
      BY <2>2 DEF TakeHeader
    <3> QED
      BY <3>1, QuietFacts DEF indexVars, ControlOK
  <2> QED
    BY <2>1, <2>2
<1>4. ControlOK'
  BY <1>1, <1>3, QuietFacts DEF ControlOK
<1>5. blocks' = blocks
  BY <1>1, SameReads DEF blockVars
<1> QED
  BY <1>1, <1>3, <1>4, <1>5, QuietStep DEF Busy

LEMMA EndHeadersInv ==
    ASSUME Inv, EndHeaders
    PROVE  Core' /\ Allowed
<1>1. /\ pc = "headers" /\ pc' = "idle" /\ added' = FALSE
      /\ status' \in {status, "HeaderSynced"}
      /\ UNCHANGED <<indexVars, utxoVars, blockVars, updateVars, mempool, crashes>>
  BY DEF EndHeaders
<1>2. ControlOK'
  BY <1>1, QuietFacts DEF ControlOK, NodeStatus, indexVars
<1>3. blocks' = blocks
  BY <1>1, SameReads DEF blockVars
<1> QED
  BY <1>1, <1>2, <1>3, QuietStep DEF Busy, indexVars

LEMMA ReceiveBlockInv ==
    ASSUME Inv, NEW b \in Blocks, ReceiveBlock(b)
    PROVE  Core' /\ Allowed
<1>1. /\ pc = "idle" /\ pc' = "block"
      /\ UNCHANGED <<indexVars, utxoVars, updateVars, added, mempool, status, done, crashes>>
      /\ UNCHANGED stored
  BY DEF ReceiveBlock, BeginBlock, Store!Flush, blockVars
<1>2. blocks' = blocks
  BY <1>1, SameReads
<1> QED
  BY <1>1, <1>2, SameStep DEF Busy, Applied

LEMMA FlagBlockInv ==
    ASSUME Inv, FlagBlock
    PROVE  Core' /\ Allowed
<1>1. /\ batch[1] \in Blocks /\ loading = {} /\ pc = "block" /\ pc' = "idle"
      /\ Index!MarkDownloaded(batch[1])
      /\ UNCHANGED <<utxoVars, blockVars, updateVars, added, mempool, status, crashes>>
  BY FormFacts, QuietFacts DEF FlagBlock
<1>2. Index!Next /\ UNCHANGED <<active_chain, loading>>
  BY <1>1, QuietFacts, DownloadStep
<1>3. ControlOK'
  BY <1>1, <1>2, QuietFacts DEF ControlOK
<1>4. blocks' = blocks
  BY <1>1, SameReads DEF blockVars
<1> QED
  BY <1>1, <1>2, <1>3, <1>4, QuietStep DEF Busy

LEMMA ReceiveTxInv ==
    ASSUME Inv, NEW t \in OfferedTxs, ReceiveTx(t)
    PROVE  Core' /\ Allowed
<1>1. /\ pc = "idle" /\ pc' = pc /\ mempool' \subseteq mempool \cup {t}
      /\ UNCHANGED <<indexVars, utxoVars, blockVars, updateVars, messageVars, status, crashes>>
  BY DEF ReceiveTx, AddTx
<1>2. ControlOK'
  <2>1. t \in [ins : SUBSET Coins, outs : SUBSET Coins]
    BY ChainAssumption
  <2> QED
    BY <1>1, <2>1, QuietFacts DEF ControlOK, indexVars, messageVars
<1>3. blocks' = blocks
  BY <1>1, SameReads DEF blockVars
<1> QED
  BY <1>1, <1>2, <1>3, QuietStep DEF Busy, indexVars

(* Whatever does no more than look at the candidates. *)
LEMMA LookInv ==
    ASSUME Inv, FinishSync \/ WaitForBlocks \/ Recheck
    PROVE  Core' /\ Allowed
<1>1. /\ pc \in {"idle", "recheck"} /\ pc' = "idle"
      /\ Index!PopStale
      /\ UNCHANGED <<utxoVars, blockVars, updateVars, messageVars, mempool, crashes>>
      /\ status' \in {status, "BlockSynced"}
  BY DEF FinishSync, WaitForBlocks, Recheck
<1>2. loading = {}
  BY <1>1, QuietFacts
<1>3. Index!Next /\ UNCHANGED <<active_chain, loading>>
  BY <1>1, <1>2, QuietFacts, PopStep
<1>4. ControlOK'
  BY <1>1, <1>3, QuietFacts DEF ControlOK, NodeStatus, messageVars
<1>5. blocks' = blocks
  BY <1>1, SameReads DEF blockVars
<1> QED
  BY <1>1, <1>3, <1>4, <1>5, QuietStep DEF Busy

LEMMA LoadInv ==
    ASSUME Inv, LoadRecord \/ EndLoading
    PROVE  Core' /\ Allowed
<1>1. /\ [Index!Next]_indexVars
      /\ active_chain' = active_chain
      /\ pc = "loading" /\ pc' \in {"loading", "idle"}
      /\ pc' = "idle" => loading' = {}
      /\ UNCHANGED <<utxoVars, blockVars, updateVars, messageVars, mempool, status, crashes>>
  <2>1. CASE LoadRecord
    <3>1. PICK h \in loading : Index!LoadNext(h)
      BY <2>1 DEF LoadRecord
    <3> QED
      BY <2>1, <3>1, QuietFacts, LoadStep DEF LoadRecord
  <2>2. CASE EndLoading
    BY <2>2 DEF EndLoading, indexVars
  <2> QED
    BY <2>1, <2>2
<1>2. ControlOK'
  BY <1>1, QuietFacts DEF ControlOK, messageVars
<1>3. blocks' = blocks
  BY <1>1, SameReads DEF blockVars
<1> QED
  BY <1>1, <1>2, <1>3, QuietStep DEF Busy

(* After a kill the staged coins are gone. *)
LEMMA RestartInv ==
    ASSUME Inv, Restart
    PROVE  Core' /\ Allowed
<1>1. /\ Index!Next /\ IndexInv'
      /\ UNCHANGED <<active_chain, utxo_db, stored>>
      /\ pc' = "loading"
  BY QuietFacts, RestartStep DEF Restart, Store!Kill
<1>2. /\ removed_utxos' = {} /\ updated_utxo_set' = {}
      /\ to_add' = <<>> /\ to_remove' = <<>>
      /\ ~ Busy'
  BY <1>1 DEF Restart, Busy
<1>3. StagedInv' /\ UtxoNext
  BY <1>1, <1>2, DiscardStep DEF Inv, Core, Rollback
<1>4. CoinsOK' /\ StoreOK'
  <2>1. blocks' = blocks
    BY <1>1, SameReads
  <2> QED
    BY <1>1, <2>1 DEF Inv, Core, CoinsOK, StoreOK
<1>5. ControlOK'
  <2>1. mempool' = {} /\ status' = "SyncingHeaders" /\ pc' = "loading" /\ added' = FALSE
    BY DEF Restart
  <2>2. crashes' \in 0 .. MaxCrashes
    BY QuietFacts, ChainAssumption DEF Restart, ControlOK
  <2> QED
    BY <2>1, <2>2 DEF ControlOK, NodeStatus
<1>6. IdleOK' /\ UpdateInv'
  BY <1>2 DEF IdleOK, UpdateInv, TargetOK, ProgressOK, RevertingOK, ConnectingOK
<1>7. Allowed
  BY <1>1, <1>3 DEF Allowed
<1> QED
  BY <1>1, <1>3, <1>4, <1>5, <1>6, <1>7 DEF Core

(* A record is put. *)
LEMMA PutRecordInv ==
    ASSUME Inv, PutRecord
    PROVE  Core' /\ Allowed
<1>1. UNCHANGED <<indexVars, utxoVars, updateVars, messageVars, mempool, status, pc, done, crashes>>
  BY DEF PutRecord
<1>2. blocks \subseteq blocks'
  <2>1. Store!Stored \subseteq Store!Stored'
    BY DEF PutRecord, Store!PutSize, Store!PutLocation, Store!Stored
  <2> QED
    BY <2>1 DEF blocks, Has
<1>3. Applied' = Applied /\ (Busy' <=> Busy)
  BY <1>1 DEF Applied, Busy
<1> QED
  BY <1>1, <1>2, <1>3, SameStep, QuietFacts DEF ControlOK, messageVars
-----------------------------------------------------------------------------
(* update_chain.                                                           *)

LEMMA StartUpdateInv ==
    ASSUME Inv, StartUpdate
    PROVE  Core' /\ Allowed
<1> DEFINE h == Index!FirstCandidate
           c == active_chain
           k == CommonLen(h, c)
<1>1. /\ pc = "idle" /\ pc' = "update" /\ done' = 0
      /\ Index!HasCandidate /\ Index!PopStale
      /\ Elems(Fork) \subseteq downloaded
      /\ to_add' = Fork /\ to_remove' = ForkRemove(h, c)
      /\ UNCHANGED <<utxoVars, blockVars, messageVars, mempool, status, crashes>>
  BY DEF StartUpdate
<1>2. loading = {} /\ IndexInv
  BY <1>1, QuietFacts
<1>3. /\ Index!Next /\ IndexInv'
      /\ Index!Known' = Index!Known
      /\ UNCHANGED <<header_dict, downloaded, active_chain, loading>>
  BY <1>1, <1>2, PopStep
<1>4. /\ h \in Blocks /\ Work[h] > Work[Tip(c)]
      /\ c \in Seq(Blocks) /\ IsBranch(c)
      /\ Tip(c) \in Blocks /\ c = Path[Tip(c)] /\ Len(c) \in Nat \ {0}
  BY <1>1, <1>2, CandidateFacts, ChainFacts
<1>5. /\ to_add' = ForkAdd(h, c)
      /\ Tip(ForkAdd(h, c)) = h
      /\ k \in 1 .. Len(c) /\ Path[h][k] = c[k]
      /\ Len(ForkRemove(h, c)) = Len(c) - k
      /\ ForkAdd(h, c) \in Seq(Blocks)
  <2>1. /\ k \in 1 .. Len(c)
        /\ \A i \in 1 .. k : Path[h][i] = c[i]
        /\ Tip(ForkAdd(h, c)) = h
        /\ Len(ForkRemove(h, c)) = Len(c) - k
        /\ ForkAdd(h, c) \in Seq(Blocks)
    BY <1>4, HeavierForkFacts
  <2>2. k \in 1 .. k
    BY <1>4, <2>1
  <2> QED
    BY <1>1, <2>1, <2>2 DEF Fork
<1>6. Target' = h /\ ForkPoint' = k /\ Applied' = 0 /\ Busy'
  BY <1>1, <1>3, <1>5 DEF Target, ForkPoint, Applied, Busy
<1>7. StagedInv' /\ CoinsOK' /\ StoreOK'
  <2>1. blocks' = blocks
    BY <1>1, SameReads DEF blockVars
  <2> QED
    BY <1>1, <1>3, <2>1 DEF Inv, Core, StagedInv, utxoVars, UtxoTypeOK, StagedOverDisk,
                            CoinsOK, StoreOK
<1>8. ControlOK'
  BY <1>1, <1>2, <1>3, QuietFacts DEF ControlOK, messageVars
<1>9. StagedView' = UtxoOf(Tip(c)) /\ ValidBranch(Tip(c))
  BY <1>1, FormFacts DEF Inv, Core, Busy, utxoVars, StagedView, CoinsOK
<1>10. TargetOK'
  BY <1>1, <1>3, <1>4, <1>5, <1>6 DEF TargetOK, Fork
<1>11. ProgressOK'
  <2>1. Len(to_remove') \in Nat /\ Len(to_add') \in Nat
    BY <1>1, <1>4, <1>5, LenProperties
  <2>2. \A i \in 1 .. Len(to_add') : ~ (i <= 0 - Len(to_remove'))
    BY <2>1
  <2> QED
    BY <1>1, <1>6, <2>1, <2>2 DEF ProgressOK
<1>12. RevertingOK'
  <2>1. RevertedView(Tip(c), k, 0) = UtxoOf(Tip(c)) /\ NothingSpent(Tip(c), k, 0)
    BY <1>4, <1>5, RevertNone
  <2> QED
    BY <1>3, <1>6, <1>9, <2>1 DEF RevertingOK
<1>13. ConnectingOK'
  <2>1. ASSUME 0 >= Len(to_remove') PROVE AppliedBlock' = Tip(c)
    <3>1. Len(to_remove') = 0 /\ k = Len(c)
      BY <1>1, <1>4, <1>5, <2>1
    <3>2. AppliedBlock' = Path[h][k + (0 - 0)]
      BY <1>6, <3>1 DEF AppliedBlock
    <3>3. k + (0 - 0) = k
      BY <1>4, <1>5
    <3> QED
      BY <1>5, <3>1, <3>2, <3>3 DEF Tip
  <2> QED
    BY <1>6, <1>9, <2>1 DEF ConnectingOK
<1>14. IdleOK' /\ Allowed
  BY <1>1, <1>3, <1>6 DEF IdleOK, Allowed, utxoVars
<1> QED
  BY <1>3, <1>7, <1>8, <1>10, <1>11, <1>12, <1>13, <1>14 DEF Core, UpdateInv

LEMMA RevertBlockInv ==
    ASSUME Inv, RevertBlock
    PROVE  Core' /\ Allowed
<1> DEFINE t == Tip(active_chain)
           k == ForkPoint
           r == Path[t][k + done + 1]
<1>1. /\ pc = "update" /\ done < Len(to_remove) /\ done' = done + 1
      /\ ApplyRevBlock(ToRevert)
      /\ UNCHANGED <<indexVars, blockVars, updateVars, messageVars, mempool, status, pc, crashes>>
      /\ done \in Nat
  <2>1. /\ Reverting /\ Has("rev", ToRevert) /\ ApplyRevBlock(Found("rev", ToRevert))
        /\ done' = done + 1
        /\ UNCHANGED <<indexVars, blockVars, updateVars, messageVars, mempool, status, pc, crashes>>
    BY DEF RevertBlock, CanRevert, Readable
  <2>2. Found("rev", ToRevert) = ToRevert
    BY <2>1, ReadsRight
  <2> QED
    BY <2>1, <2>2, FormFacts DEF Reverting
<1>2. Busy /\ Busy' /\ Applied = done /\ Applied' = done + 1
  BY <1>1 DEF Busy, Applied
<1>3. /\ active_chain = Path[t] /\ t \in Blocks /\ Len(active_chain) \in Nat
      /\ k \in 1 .. Len(active_chain) /\ Len(to_remove) = Len(active_chain) - k
      /\ Path[Target][k] = active_chain[k]
      /\ Len(to_add) \in Nat
  BY <1>2, TargetFacts, ChainFacts, LenProperties DEF Inv, Core
<1>4. ToRevert = r /\ r \in Blocks /\ k + done + 1 \in 1 .. Len(Path[t])
  <2>1. done + 1 \in 1 .. Len(to_remove) /\ k + (done + 1) = k + done + 1
    BY <1>1, <1>3
  <2>2. ToRevert = active_chain[k + (done + 1)]
    BY <1>2, <2>1, TargetFacts DEF ToRevert
  <2>3. k + done + 1 \in 1 .. Len(Path[t])
    BY <1>1, <1>3
  <2> QED
    BY <1>3, <2>1, <2>2, <2>3, PathFacts
<1>5. /\ StagedView = RevertedView(t, k, done) /\ NothingSpent(t, k, done)
      /\ ValidBranch(t) /\ StagedInv
  BY <1>1, <1>2, <1>3 DEF Inv, Core, UpdateInv, RevertingOK, CoinsOK
<1>6. Created(r) \subseteq StagedView
  BY <1>1, <1>4, RevertedIsThere DEF ApplyRevBlock
<1>7. /\ (Spent(r) \ Created(r)) \cap StagedView = {}
      /\ RevertedView(t, k, done + 1) = (StagedView \ Created(r)) \cup Spent(r)
      /\ NothingSpent(t, k, done + 1)
  <2>1. k \in 1 .. Len(Path[t]) /\ k + done + 1 <= Len(Path[t])
    BY <1>3, <1>4
  <2>2. Created(Path[t][k + done + 1]) \subseteq RevertedView(t, k, done)
    BY <1>5, <1>6
  <2> QED
    BY <1>1, <1>3, <1>5, <2>1, <2>2, RevertNext
<1>8. /\ UtxoNext /\ StagedInv'
      /\ StagedView' = RevertedView(t, k, done + 1)
      /\ utxo_db' = utxo_db
  BY <1>1, <1>4, <1>5, <1>7, RevertStep
<1>9. IndexInv' /\ StoreOK'
  <2>1. blocks' = blocks
    BY <1>1, SameReads DEF blockVars
  <2> QED
    BY <1>1, <2>1, IndexStep DEF Inv, Core, StoreOK, indexVars
<1>10. active_chain' = active_chain /\ Target' = Target /\ ForkPoint' = k
  BY <1>1 DEF indexVars, updateVars, Target, ForkPoint
<1>11. CoinsOK' /\ IdleOK'
  BY <1>2, <1>8, <1>10 DEF Inv, Core, CoinsOK, IdleOK
<1>12. ControlOK'
  BY <1>1, QuietFacts DEF ControlOK, messageVars, indexVars
<1>13. TargetOK'
  BY <1>1, <1>2, <1>10 DEF Inv, Core, UpdateInv, TargetOK, indexVars, updateVars
<1>14. ProgressOK'
  <2>1. \A i \in 1 .. Len(to_add) : ~ (i <= done + 1 - Len(to_remove))
    BY <1>1, <1>3
  <2> QED
    BY <1>1, <1>2, <1>3, <2>1 DEF ProgressOK, updateVars
<1>15. RevertingOK'
  BY <1>2, <1>7, <1>8, <1>10 DEF RevertingOK
<1>16. ConnectingOK'
  <2>1. SUFFICES ASSUME done + 1 >= Len(to_remove)
                 PROVE  StagedView' = UtxoOf(AppliedBlock') /\ ValidBranch(AppliedBlock')
    BY <1>1, <1>2 DEF ConnectingOK, updateVars
  <2>2. /\ done + 1 = Len(to_remove) /\ k + (done + 1) = Len(Path[t]) /\ k \in 1 .. Len(Path[t])
        /\ done + 1 \in Nat /\ k + ((done + 1) - Len(to_remove)) = k
    BY <1>1, <1>3, <2>1
  <2>3. AppliedBlock' = Path[t][k]
    BY <1>1, <1>2, <1>3, <1>10, <2>2 DEF AppliedBlock, updateVars
  <2>4. RevertedView(t, k, done + 1) = UtxoOf(Path[t][k])
    BY <1>3, <1>5, <1>7, <2>2, RevertAll
  <2>5. ValidBranch(Path[t][k])
    BY <1>3, <1>5, <2>2, PrefixValid
  <2> QED
    BY <1>8, <2>3, <2>4, <2>5
<1>17. Allowed
  BY <1>1, <1>8, <1>10 DEF Allowed
<1> QED
  BY <1>8, <1>9, <1>11, <1>12, <1>13, <1>14, <1>15, <1>16, <1>17 DEF Core, UpdateInv

(* The block connected next, or just connected. *)
LEMMA ConnectFacts ==
    ASSUME Inv, Busy, done >= Len(to_remove), done < Len(to_remove) + Len(to_add)
    PROVE  LET j == done - Len(to_remove)
               m == ForkPoint + j + 1
           IN  /\ done \in Nat /\ j \in Nat /\ Len(to_remove) \in Nat
               /\ j + 1 \in 1 .. Len(to_add)
               /\ m \in 2 .. Len(Path[Target]) /\ m \in Nat
               /\ ForkPoint + (j + 1) = m /\ ForkPoint + j = m - 1
               /\ ToConnect = to_add[j + 1]
               /\ ToConnect = Path[Target][m]
               /\ ToConnect \in downloaded
               /\ ToConnect \in Blocks
               /\ ToConnect \notin Elems(active_chain)
               /\ ToConnect \in blocks
<1> DEFINE j == done - Len(to_remove)
           m == ForkPoint + j + 1
<1>1. /\ done \in Nat /\ Len(to_add) \in Nat /\ Len(to_remove) \in Nat
      /\ Len(Path[Target]) \in Nat
      /\ ForkPoint \in 1 .. Len(Path[Target]) - 1
      /\ Len(to_add) = Len(Path[Target]) - ForkPoint
      /\ Target \in Blocks
  BY TargetFacts, FormFacts, LenProperties
<1>2. /\ j \in Nat /\ j + 1 \in 1 .. Len(to_add)
      /\ m \in 2 .. Len(Path[Target]) /\ m \in 1 .. Len(Path[Target]) /\ m \in Nat
      /\ ForkPoint + (j + 1) = m /\ ForkPoint + j = m - 1
  BY <1>1
<1>3. ToConnect = to_add[j + 1]
  BY <1>1 DEF ToConnect
<1>4. ToConnect = Path[Target][m]
  <2>1. to_add[j + 1] = Path[Target][ForkPoint + (j + 1)]
    BY <1>2, TargetFacts, Zenon
  <2> QED
    BY <1>2, <1>3, <2>1, Zenon
<1>5. ToConnect \in Elems(to_add)
  BY <1>2, <1>3 DEF Elems
<1>6. /\ ToConnect \in downloaded /\ ToConnect \notin Elems(active_chain)
      /\ ToConnect # Genesis
  BY <1>5, TargetFacts, ChainFacts DEF Inv, Core
<1>7. ToConnect \in blocks /\ ToConnect \in Blocks
  BY <1>1, <1>2, <1>4, <1>6, FormFacts, PathFacts
<1> QED
  BY <1>1, <1>2, <1>3, <1>4, <1>6, <1>7

LEMMA ConnectBlockInv ==
    ASSUME Inv, ConnectBlock
    PROVE  Core' /\ Allowed
<1> DEFINE h == Target
           k == ForkPoint
           n == Len(to_remove)
           j == done - n
           m == k + j + 1
           b == ToConnect
           a == Path[h][m - 1]
<1>1. /\ pc = "update" /\ pc' = "record"
      /\ done \in Len(to_remove) .. Len(to_remove) + Len(to_add) - 1
      /\ AddBlock(b) /\ Index!MarkValid(b)
      /\ UNCHANGED <<blockVars, updateVars, messageVars, mempool, status, done, crashes>>
  <2>1. /\ Connecting /\ pc' = "record" /\ Has("blk", ToConnect)
        /\ AddBlock(Found("blk", ToConnect)) /\ Index!MarkValid(ToConnect)
        /\ UNCHANGED <<blockVars, updateVars, messageVars, mempool, status, done, crashes>>
    BY DEF ConnectBlock, CanConnect, Readable
  <2>2. Found("blk", ToConnect) = ToConnect
    BY <2>1, ReadsRight
  <2> QED
    BY <2>1, <2>2 DEF Connecting
<1>2. Busy /\ Busy' /\ Applied = done /\ Applied' = done + 1
  BY <1>1 DEF Busy, Applied
<1>3. /\ Len(to_add) \in Nat /\ n \in Nat /\ h \in Blocks /\ done \in Nat
      /\ done >= n /\ done < n + Len(to_add)
  <2>1. Len(to_add) \in Nat /\ n \in Nat /\ h \in Blocks /\ done \in Nat
    BY <1>2, TargetFacts, FormFacts, LenProperties
  <2> QED
    BY <1>1, <2>1
<1>4. /\ j \in Nat /\ j + 1 \in 1 .. Len(to_add)
      /\ m \in 2 .. Len(Path[h]) /\ k + (j + 1) = m /\ k + j = m - 1
      /\ b = to_add[j + 1] /\ b = Path[h][m]
      /\ b \in downloaded /\ b \in Blocks
      /\ b \notin Elems(active_chain)
  BY <1>2, <1>3, ConnectFacts
<1>5. StagedView = UtxoOf(a) /\ ValidBranch(a) /\ StagedInv
  <2>1. AppliedBlock = a
    BY <1>2, <1>4, Zenon DEF AppliedBlock
  <2> QED
    BY <1>2, <1>3, <2>1 DEF Inv, Core, UpdateInv, ConnectingOK
<1>6. /\ Parent(b) = a
      /\ Created(b) \cap UtxoOf(a) = {}
      /\ UtxoOf(b) = (UtxoOf(a) \cup Created(b)) \ Spent(b)
      /\ ValidBranch(b) <=> ValidBranch(a) /\ SpendsAvailable(b)
  <2>1. h \in Blocks /\ m \in 2 .. Len(Path[h]) /\ b = Path[h][m]
    BY <1>3, <1>4
  <2> HIDE DEF h, m, b
  <2>2. /\ Parent(Path[h][m]) = Path[h][m - 1]
        /\ Created(Path[h][m]) \cap UtxoOf(Path[h][m - 1]) = {}
        /\ UtxoOf(Path[h][m]) =
               (UtxoOf(Path[h][m - 1]) \cup Created(Path[h][m])) \ Spent(Path[h][m])
    BY <2>1, NextUtxo, Zenon
  <2>3. ValidBranch(Path[h][m]) <=> ValidBranch(Path[h][m - 1]) /\ SpendsAvailable(Path[h][m])
    BY <2>1, NextValid, Zenon
  <2> QED
    BY <2>1, <2>2, <2>3, Zenon
<1>7. /\ UtxoNext /\ StagedInv'
      /\ \A i \in 1 .. Len(Txs[b]) :
            Txs[b][i].ins \subseteq
                (StagedView \cup CreatedBefore(b, i)) \ SpentBefore(b, i)
      /\ StagedView' = (StagedView \cup Created(b)) \ Spent(b)
      /\ utxo_db' = utxo_db
  BY <1>1, <1>4, <1>5, <1>6, ConnectStep
<1>8. StagedView' = UtxoOf(b) /\ ValidBranch(b)
  BY <1>5, <1>6, <1>7 DEF SpendsAvailable
<1>9. loading = {} /\ IndexInv
  BY <1>1, QuietFacts
<1>10. /\ Index!Next /\ IndexInv'
       /\ Index!Known' = Index!Known
       /\ header_dict'[b] = "valid"
       /\ \A e \in Blocks : header_dict[e] = "valid" => header_dict'[e] = "valid"
       /\ UNCHANGED <<downloaded, active_chain, loading>>
  BY <1>1, <1>4, <1>9, ValidStep
<1>11. Target' = h /\ ForkPoint' = k /\ AppliedBlock' = b
  <2>1. Target' = h /\ ForkPoint' = k
    BY <1>1, <1>10 DEF updateVars, Target, ForkPoint
  <2>2. (done + 1) - n = j + 1
    BY <1>3
  <2>3. AppliedBlock' = Path[h][k + ((done + 1) - n)]
    BY <1>1, <1>2, <2>1 DEF AppliedBlock, updateVars
  <2> QED
    BY <1>4, <2>1, <2>2, <2>3, Zenon
<1>12. CoinsOK' /\ StoreOK' /\ IdleOK'
  <2>1. blocks' = blocks
    BY <1>1, SameReads DEF blockVars
  <2> QED
    BY <1>1, <1>2, <1>7, <1>10, <2>1 DEF Inv, Core, CoinsOK, StoreOK, IdleOK
<1>13. ControlOK'
  BY <1>1, <1>9, <1>10, QuietFacts DEF ControlOK, messageVars
<1>14. TargetOK'
  BY <1>1, <1>2, <1>10, <1>11 DEF Inv, Core, UpdateInv, TargetOK, updateVars
<1>15. ProgressOK'
  <2>1. to_add' = to_add /\ to_remove' = to_remove /\ done' = done
    BY <1>1 DEF updateVars
  <2>2. done + 1 <= n + Len(to_add)
    BY <1>3
  <2>3. ASSUME NEW i \in 1 .. Len(to_add), i <= done + 1 - n
        PROVE  header_dict'[to_add[i]] = "valid"
    <3>1. CASE i = j + 1
      BY <1>4, <1>10, <3>1
    <3>2. CASE i # j + 1
      <4>1. i <= Applied - n
        BY <1>2, <1>3, <2>3, <3>2
      <4>2. header_dict[to_add[i]] = "valid"
        BY <1>2, <4>1 DEF Inv, Core, UpdateInv, ProgressOK
      <4>3. to_add[i] \in Blocks
        BY <1>2, TargetFacts, ElementOfSeq
      <4> QED
        BY <1>10, <4>2, <4>3
    <3> QED
      BY <3>1, <3>2
  <2>4. \A i \in 1 .. Len(to_add') :
           i <= Applied' - Len(to_remove') => header_dict'[to_add'[i]] = "valid"
    <3>1. Applied' - Len(to_remove') = done + 1 - n
      <4>1. Applied' = done + 1 /\ Len(to_remove') = n
        BY <1>2, <2>1, Zenon
      <4> QED
        BY <1>3, <4>1
    <3>2. ASSUME NEW i \in 1 .. Len(to_add), i <= Applied' - Len(to_remove')
          PROVE  header_dict'[to_add[i]] = "valid"
      BY <2>3, <3>1, <3>2
    <3> QED
      BY <2>1, <3>2
  <2>5. Applied' <= Len(to_remove') + Len(to_add')
    BY <1>2, <2>1, <2>2
  <2> QED
    BY <2>4, <2>5 DEF ProgressOK
<1>16. RevertingOK'
  <2>1. ~ (done + 1 <= n)
    BY <1>3
  <2> QED
    BY <1>1, <1>2, <2>1 DEF RevertingOK, updateVars
<1>17. ConnectingOK'
  BY <1>8, <1>11 DEF ConnectingOK
<1>18. Allowed
  BY <1>7, <1>10 DEF Allowed
<1> QED
  BY <1>7, <1>10, <1>12, <1>13, <1>14, <1>15, <1>16, <1>17, <1>18 DEF Core, UpdateInv

(* The record of the revert patch is put, and the update goes on. *)
LEMMA RecordRevBlockInv ==
    ASSUME Inv, RecordRevBlock \/ EndBlock
    PROVE  Core' /\ Allowed
<1>1. /\ UNCHANGED <<indexVars, utxoVars, updateVars, messageVars, mempool, status, crashes>>
      /\ pc = "record" /\ stored' = stored
      /\ \/ pc' = "record" /\ done' = done
         \/ pc' = "update" /\ done' = done + 1
  BY DEF RecordRevBlock, EndBlock, Store!Flush, blockVars
<1>2. blocks' = blocks
  BY <1>1, SameReads
<1>3. Applied' = Applied /\ Busy /\ Busy'
  BY <1>1 DEF Applied, Busy
<1> QED
  BY <1>1, <1>2, <1>3, SameStep DEF messageVars

(* What was staged is given up, and with it the branch. *)
LEMMA RollbackUpdateInv ==
    ASSUME Inv, RollbackUpdate
    PROVE  Core' /\ Allowed
<1>1. /\ pc = "update" /\ pc' = "recheck" /\ done' = 0
      /\ Rollback /\ to_add' = <<>> /\ to_remove' = <<>>
      /\ UNCHANGED <<indexVars, blockVars, messageVars, mempool, status, crashes>>
  BY DEF RollbackUpdate, Reverting, Connecting
<1>2. IndexInv' /\ StoreOK'
  <2>1. blocks' = blocks
    BY <1>1, SameReads DEF blockVars
  <2> QED
    BY <1>1, <2>1, IndexStep DEF Inv, Core, StoreOK, indexVars
<1>3. UtxoNext /\ StagedInv'
  BY <1>1, DiscardStep DEF Inv, Core
<1>4. /\ removed_utxos' = {} /\ updated_utxo_set' = {} /\ utxo_db' = utxo_db
      /\ active_chain' = active_chain /\ ~ Busy'
  BY <1>1 DEF Rollback, indexVars, Busy
<1>5. CoinsOK' /\ IdleOK' /\ UpdateInv'
  BY <1>1, <1>4 DEF Inv, Core, CoinsOK, IdleOK, UpdateInv, TargetOK,
                    ProgressOK, RevertingOK, ConnectingOK
<1>6. ControlOK'
  BY <1>1, QuietFacts DEF ControlOK, messageVars, indexVars
<1>7. Allowed
  BY <1>1, <1>3, <1>4 DEF Allowed
<1> QED
  BY <1>2, <1>3, <1>5, <1>6, <1>7 DEF Core

(* The exception in the finally clause leaves all as it was. *)
LEMMA FinalizeRaisesInv ==
    ASSUME Inv, FinalizeRaises
    PROVE  Core' /\ Allowed
<1>1. /\ pc = "update" /\ pc' = "stopped"
      /\ UNCHANGED <<indexVars, utxoVars, blockVars, updateVars, messageVars, mempool,
                     status, done, crashes>>
  BY DEF FinalizeRaises, AllApplied
<1>2. blocks' = blocks
  BY <1>1, SameReads DEF blockVars
<1>3. Applied' = Applied /\ Busy /\ Busy'
  BY <1>1 DEF Applied, Busy
<1> QED
  BY <1>1, <1>2, <1>3, SameStep DEF messageVars

(* Everything that is read makes sense. *)
LEMMA ReadsAll ==
    ASSUME Inv
    PROVE  ~ ReadRaises
BY ReadsRight DEF ReadRaises

(* What is taken back into the mempool are the block's transactions but    *)
(* its coinbase.                                                           *)
LEMMA TakeBackFacts ==
    ASSUME NEW b \in Blocks, NEW pool
    PROVE  TakeBack(pool, b) \subseteq pool \cup {Txs[b][j] : j \in 2 .. Len(Txs[b])}
<1> DEFINE T == Txs[b]
           n == Len(T)
           R == pool \cup {T[j] : j \in 2 .. n}
           Value(f, j) == IF j = 1 THEN pool ELSE AddTx(f[j - 1], T[j])
           Upto(f, l) == \A j \in 1 .. l : f[j] = Value(f, j)
           Partial(l) == \E f \in [1 .. n -> SUBSET R] : Upto(f, l)
           take == CHOOSE f : f = [j \in 1 .. n |-> Value(f, j)]
<1>1. n \in Nat /\ n > 0 /\ \A j \in 1 .. n : j # 1 => T[j] \in R
  <2>1. n \in Nat /\ n > 0
    BY TxAssumption, LenProperties
  <2> QED
    BY <2>1
<1> HIDE DEF T, n, R
<1>2. ASSUME NEW f, NEW j \in 1 .. n, j > 1 => f[j - 1] \in SUBSET R
      PROVE  Value(f, j) \in SUBSET R
  <2>1. pool \in SUBSET R
    BY DEF R
  <2>2. j # 1 => j > 1
    BY <1>1
  <2> QED
    BY <1>1, <1>2, <2>1, <2>2 DEF AddTx
<1>3. \A l \in 0 .. n : Partial(l)
  <2> DEFINE Without == {l \in 0 .. n : ~ Partial(l)}
  <2> SUFFICES ASSUME Without # {} PROVE FALSE
    OBVIOUS
  <2> HIDE DEF Partial
  <2>1. PICK l \in Without : \A i \in Without : l <= i
    <3>1. Without \in SUBSET Nat
      BY <1>1
    <3> QED
      BY <3>1, MinExists
  <2>2. l \in 0 .. n /\ ~ Partial(l)
    OBVIOUS
  <2>3. Partial(0)
    <3>1. [j \in 1 .. n |-> {}] \in [1 .. n -> SUBSET R] /\ \A j \in 1 .. 0 : FALSE
      OBVIOUS
    <3> QED
      BY <3>1 DEF Partial
  <2>4. l - 1 \in 0 .. n /\ l - 1 \notin Without /\ l \in 1 .. n
    <3>1. l # 0
      BY <2>2, <2>3
    <3>2. l - 1 \in 0 .. n /\ l \in 1 .. n /\ ~ (l <= l - 1)
      BY <1>1, <2>2, <3>1
    <3> QED
      BY <2>1, <3>2
  <2>5. PICK f \in [1 .. n -> SUBSET R] : Upto(f, l - 1)
    BY <2>4 DEF Partial
  <2> DEFINE g == [f EXCEPT ![l] = Value(f, l)]
  <2>6. Value(f, l) \in SUBSET R
    <3>1. l > 1 => l - 1 \in 1 .. n
      BY <1>1, <2>4
    <3> QED
      BY <1>2, <2>4, <2>5, <3>1
  <2>7. g \in [1 .. n -> SUBSET R]
    BY <2>6
  <2>8. ASSUME NEW j \in 1 .. l PROVE g[j] = Value(g, j)
    <3>1. j \in 1 .. n /\ l \in Nat /\ j \in Nat
      BY <1>1, <2>4
    <3>2. Value(g, j) = Value(f, j)
      <4>1. j - 1 # l /\ (j # 1 => j - 1 \in 1 .. n)
        BY <1>1, <3>1, <2>4
      <4> QED
        BY <4>1
    <3>3. CASE j = l
      BY <2>4, <3>2, <3>3
    <3>4. CASE j # l
      <4>1. j \in 1 .. l - 1
        BY <3>1, <3>4
      <4>2. g[j] = f[j]
        BY <3>1, <3>4
      <4> QED
        BY <2>5, <3>2, <4>1, <4>2
    <3> QED
      BY <3>3, <3>4
  <2> HIDE DEF g
  <2> QED
    BY <2>2, <2>7, <2>8 DEF Partial
<1>4. \E f : f = [j \in 1 .. n |-> Value(f, j)]
  <2>1. n \in 0 .. n
    BY <1>1
  <2>2. PICK f \in [1 .. n -> SUBSET R] : Upto(f, n)
    BY <1>3, <2>1, Zenon
  <2>3. f = [j \in 1 .. n |-> f[j]]
    OBVIOUS
  <2> HIDE DEF Value
  <2>4. f = [j \in 1 .. n |-> Value(f, j)]
    BY <2>2, <2>3
  <2> QED
    BY <2>4
<1>5. take = [j \in 1 .. n |-> Value(take, j)]
  <2> HIDE DEF Value
  <2> QED
    BY <1>4, Zenon
<1>6. \A j \in 1 .. n : take[j] = Value(take, j)
  <2> HIDE DEF take, Value
  <2> QED
    BY <1>5
<1>7. \A j \in 1 .. n : take[j] \in SUBSET R
  <2> HIDE DEF take
  <2> DEFINE Outside == {j \in 1 .. n : take[j] \notin SUBSET R}
  <2> SUFFICES ASSUME Outside # {} PROVE FALSE
    OBVIOUS
  <2>1. PICK j \in Outside : \A i \in Outside : j <= i
    <3>1. Outside \in SUBSET Nat
      BY <1>1
    <3> QED
      BY <3>1, MinExists
  <2>2. j \in 1 .. n /\ take[j] \notin SUBSET R
    OBVIOUS
  <2>3. j > 1 => take[j - 1] \in SUBSET R
    <3> SUFFICES ASSUME j > 1 PROVE take[j - 1] \in SUBSET R
      OBVIOUS
    <3>1. j - 1 \in 1 .. n /\ ~ (j <= j - 1)
      BY <1>1, <2>2
    <3>2. j - 1 \notin Outside
      BY <2>1, <3>1
    <3> QED
      BY <3>1, <3>2
  <2>4. Value(take, j) \in SUBSET R
    BY <1>2, <2>2, <2>3
  <2> HIDE DEF Value
  <2> QED
    BY <1>6, <2>2, <2>4
<1>8. TakeBack(pool, b) = take[n]
  BY Zenon DEF TakeBack, n, T
<1>9. n \in 1 .. n
  BY <1>1
<1>10. TakeBack(pool, b) \in SUBSET R
  <2> HIDE DEF take
  <2> QED
    BY <1>7, <1>8, <1>9
<1> QED
  BY <1>10 DEF R, T, n

(* Everything is applied: the staged coins are those of the new branch,    *)
(* which spends nothing that is not there.                                 *)
LEMMA AllAppliedFacts ==
    ASSUME Inv, AllApplied
    PROVE  /\ Target \in Blocks /\ Work[Target] > Work[Tip(active_chain)]
           /\ Len(to_remove) \in Nat /\ Len(to_add) \in Nat \ {0}
           /\ to_add = ForkAdd(Target, active_chain)
           /\ to_remove = ForkRemove(Target, active_chain)
           /\ StagedView = UtxoOf(Target) /\ ValidBranch(Target)
<1> DEFINE h == Target
           n == Len(to_remove)
           N == Len(to_add)
<1>1. Busy /\ Applied = done /\ done = n + N
  BY DEF AllApplied, Busy, Applied
<1>2. /\ h \in Blocks /\ Work[h] > Work[Tip(active_chain)]
      /\ to_add = ForkAdd(h, active_chain) /\ to_remove = ForkRemove(h, active_chain)
  BY <1>1 DEF Inv, Core, UpdateInv, TargetOK
<1>3. /\ n \in Nat /\ N \in Nat /\ N > 0
      /\ ForkPoint \in Nat /\ Len(Path[h]) \in Nat
      /\ ForkPoint + N = Len(Path[h])
  <2>1. /\ ForkPoint \in 1 .. Len(Path[h]) - 1 /\ Len(Path[h]) \in Nat
        /\ n \in Nat /\ N \in Nat /\ N = Len(Path[h]) - ForkPoint
    BY <1>1, TargetFacts, LenProperties
  <2> QED
    BY <2>1
<1>4. AppliedBlock = h
  <2>1. ForkPoint + (Applied - n) = Len(Path[h])
    BY <1>1, <1>3
  <2>2. AppliedBlock = Path[h][Len(Path[h])]
    BY <2>1, Zenon DEF AppliedBlock
  <2> QED
    BY <1>2, <2>2, PathFacts
<1>5. StagedView = UtxoOf(h) /\ ValidBranch(h)
  <2>1. Applied >= n
    BY <1>1, <1>3
  <2> QED
    BY <1>1, <1>4, <2>1 DEF Inv, Core, UpdateInv, ConnectingOK
<1> QED
  BY <1>2, <1>3, <1>5

(* Everything is applied, and was read as it was asked for. *)
LEMMA WhatWasRead ==
    ASSUME Inv, AllApplied
    PROVE  /\ Added = to_add /\ Removed = to_remove
           /\ \A i \in 1 .. Len(to_remove) :
                 /\ to_remove[i] \in Elems(active_chain) /\ to_remove[i] \in Blocks
                 /\ Has("blk", to_remove[i])
<1>1. Busy /\ pc = "update" /\ done = Len(to_remove) + Len(to_add) /\ Applied = done
  BY DEF AllApplied, Busy, Applied
<1>2. /\ to_add \in Seq(Blocks) /\ to_remove \in Seq(Blocks)
      /\ Len(to_add) \in Nat /\ Len(to_remove) \in Nat
  BY <1>1, TargetFacts, LenProperties
<1>3. /\ \A i \in 1 .. Len(to_remove) : Readable("rev", to_remove[i])
      /\ \A i \in 1 .. Len(to_add) : Readable("blk", to_add[i])
  <2>1. /\ \A i \in 1 .. Len(to_remove) : i <= done
        /\ \A i \in 1 .. Len(to_add) : i <= Applied - Len(to_remove)
    BY <1>1, <1>2
  <2> QED
    BY <1>1, <2>1 DEF Inv, Form, UpdateShape
<1>4. /\ \A i \in 1 .. Len(to_remove) :
            Found("rev", to_remove[i]) = to_remove[i] /\ to_remove[i] \in Blocks \ {Genesis}
      /\ \A i \in 1 .. Len(to_add) : Found("blk", to_add[i]) = to_add[i]
  BY <1>3, ReadsRight DEF Readable
<1>5. Added = to_add /\ Removed = to_remove
  <2>1. /\ to_add = [i \in 1 .. Len(to_add) |-> to_add[i]]
        /\ to_remove = [i \in 1 .. Len(to_remove) |-> to_remove[i]]
    BY <1>2
  <2> QED
    BY <1>4, <2>1 DEF Added, Removed
<1>6. ASSUME NEW i \in 1 .. Len(to_remove)
      PROVE  to_remove[i] \in Elems(active_chain)
  <2>1. /\ to_remove[i] = active_chain[ForkPoint + i]
        /\ Len(to_remove) = Len(active_chain) - ForkPoint
        /\ ForkPoint \in 1 .. Len(active_chain)
    BY <1>1, TargetFacts
  <2>2. Len(active_chain) \in Nat
    BY ChainFacts DEF Inv, Core
  <2>3. ForkPoint + i \in 1 .. Len(active_chain)
    BY <1>2, <2>1, <2>2
  <2> QED
    BY <2>1, <2>3 DEF Elems
<1>7. ASSUME NEW i \in 1 .. Len(to_remove)
      PROVE  Has("blk", to_remove[i])
  <2>1. to_remove[i] \in blocks
    BY <1>4, <1>6 DEF Inv, Core, StoreOK
  <2> QED
    BY <2>1 DEF blocks
<1> QED
  BY <1>4, <1>5, <1>6, <1>7

(* When remove_from_active_chain raises. *)
LEMMA SwitchAllowed ==
    ASSUME Inv, AllApplied
    PROVE  /\ Index!CanMove(Removed) <=> Len(to_remove) <= 1
           /\ Index!CanSwitch(Target) => Len(to_remove) <= 1
<1>1. /\ Added = to_add /\ Removed = to_remove
      /\ to_remove = ForkRemove(Target, active_chain)
      /\ Target \in Blocks /\ Work[Target] > Work[Tip(active_chain)]
  BY WhatWasRead, AllAppliedFacts
<1>2. Target \in Index!Known
  <2>1. Busy
    BY DEF AllApplied, Busy
  <2>2. Len(to_add) \in 1 .. Len(to_add)
    BY AllAppliedFacts
  <2>3. Target \in Elems(to_add)
    BY <2>2 DEF Target, Tip, Elems
  <2> QED
    BY <2>3, FormFacts, IndexFacts DEF Inv, Core
<1>3. Index!CanSwitch(Target) <=> Len(Index!ForkRemove(Target, active_chain)) <= 1
  <2>1. IndexP!Inv /\ Target \in IndexP!Known /\ Work[Target] > IndexP!ChainWork
    BY <1>1, <1>2, SameIndexState, IndexFacts DEF Inv, Core, IndexInv
  <2>2. IndexP!CanSwitch(Target) <=> Len(IndexP!ForkRemove(Target, active_chain)) <= 1
    BY <2>1, IndexP!CanSwitchFacts, PathAssumption, WorkAssumption, RankAssumption,
       ChainAssumption, Zenon DEF IndexP!Tip, Tip, IndexP!Parent, Parent
  <2>3. IndexP!CanSwitch(Target) <=> Index!CanSwitch(Target)
    BY SameTreeProofs, Zenon DEF IndexP!CanSwitch, Index!CanSwitch, IndexP!CanMove, Index!CanMove
  <2> QED
    BY <2>2, <2>3, SameTreeProofs, Zenon
<1>4. Index!ForkRemove(Target, active_chain) = to_remove
  BY <1>1, SameTree, Zenon
<1>5. Index!CanSwitch(Target) <=> Index!CanMove(to_remove)
  BY <1>4, Zenon DEF Index!CanSwitch
<1> QED
  BY <1>1, <1>3, <1>4, <1>5, Zenon

(* The batch goes through only if at most one block is removed. *)
LEMMA CommitFacts ==
    ASSUME Inv, Commit
    PROVE  /\ AllApplied /\ Index!SwitchTo(Target) /\ Finalize
           /\ Len(to_remove) <= 1
<1>1. AllApplied
  BY DEF Commit
<1>2. /\ Added = to_add /\ Removed = to_remove
      /\ to_add = ForkAdd(Target, active_chain)
      /\ to_remove = ForkRemove(Target, active_chain)
  BY <1>1, WhatWasRead, AllAppliedFacts
<1>3. Index!SwitchTo(Target)
  <2>1. /\ Index!Move(to_add, to_remove)
        /\ UNCHANGED <<downloaded, block_candidates, header_index, loading>>
    BY <1>2 DEF Commit
  <2>2. Index!Move(Index!ForkAdd(Target, active_chain), Index!ForkRemove(Target, active_chain))
    BY <1>2, <2>1, SameTree, Zenon
  <2> QED
    BY <2>1, <2>2 DEF Index!SwitchTo, Index!MoveChain
<1>4. Index!CanSwitch(Target)
  BY <1>3 DEF Index!SwitchTo, Index!MoveChain, Index!Move, Index!CanSwitch
<1> QED
  BY <1>1, <1>3, <1>4, SwitchAllowed DEF Commit

(* At most one block is taken back. *)
LEMMA TakenBackFacts ==
    ASSUME Inv, AllApplied, Len(to_remove) <= 1
    PROVE  \A t \in TakenBack(Len(Removed)) :
              \/ t \in mempool
              \/ \E r \in Elems(to_remove) \cap Elems(active_chain) :
                    r \in Blocks /\ \E j \in 2 .. Len(Txs[r]) : t = Txs[r][j]
<1> DEFINE n == Len(Removed)
           Value(f, i) == IF i = 0 THEN mempool
                          ELSE IF Readable("blk", Removed[i])
                               THEN TakeBack(f[i - 1], Found("blk", Removed[i]))
                               ELSE f[i - 1]
           pool == CHOOSE f : f = [i \in 0 .. n |-> Value(f, i)]
           first == TakeBack(mempool, to_remove[1])
<1>1. Removed = to_remove /\ Len(to_remove) \in Nat /\ n = Len(to_remove)
  BY WhatWasRead, AllAppliedFacts
<1>2. n \in {0, 1}
  <2>1. \A m \in Nat : m <= 1 => m \in {0, 1}
    OBVIOUS
  <2>2. Len(to_remove) \in {0, 1}
    BY <1>1, <2>1, Zenon
  <2> HIDE DEF n
  <2> QED
    BY <1>1, <2>2
<1>3. TakenBack(n) = pool[n]
  BY Zenon DEF TakenBack
<1>4. CASE n = 0
  <2>1. \E f : f = [i \in 0 .. n |-> Value(f, i)]
    <3> DEFINE g == [i \in 0 .. 0 |-> mempool]
    <3>1. g = [i \in 0 .. n |-> Value(g, i)]
      BY <1>4
    <3> HIDE DEF g
    <3> QED
      BY <3>1
  <2>2. pool = [i \in 0 .. n |-> Value(pool, i)]
    <3> HIDE DEF Value
    <3> QED
      BY <2>1, Zenon
  <2>3. pool[0] = mempool
    <3> HIDE DEF pool
    <3>1. 0 \in 0 .. n
      BY <1>4
    <3>2. pool[0] = Value(pool, 0)
      <4> HIDE DEF Value
      <4> QED
        BY <2>2, <3>1
    <3> QED
      BY <3>2
  <2> HIDE DEF pool
  <2> QED
    BY <1>3, <1>4, <2>3
<1>5. CASE n = 1
  <2>1. /\ to_remove[1] \in Elems(active_chain) /\ to_remove[1] \in Blocks
        /\ to_remove[1] \in Elems(to_remove)
        /\ Readable("blk", Removed[1]) /\ Found("blk", Removed[1]) = to_remove[1]
    <3>1. 1 \in 1 .. Len(to_remove)
      BY <1>1, <1>5
    <3>2. /\ to_remove[1] \in Elems(active_chain) /\ to_remove[1] \in Blocks
          /\ Has("blk", to_remove[1])
      BY <3>1, WhatWasRead
    <3> QED
      BY <1>1, <3>1, <3>2, ReadsRight DEF Elems
  <2>2. \A f : Value(f, 0) = mempool /\ (f[0] = mempool => Value(f, 1) = first)
    BY <2>1
  <2> HIDE DEF first
  <2>3. \E f : f = [i \in 0 .. n |-> Value(f, i)]
    <3> DEFINE g == [i \in 0 .. 1 |-> IF i = 0 THEN mempool ELSE first]
    <3>1. g[0] = mempool /\ Value(g, 0) = mempool /\ Value(g, 1) = first
      <4>1. g[0] = mempool
        OBVIOUS
      <4> HIDE DEF Value, g
      <4> QED
        BY <2>2, <4>1
    <3>2. g = [i \in 0 .. n |-> Value(g, i)]
      <4> HIDE DEF Value
      <4>1. \A i \in 0 .. 1 : g[i] = Value(g, i)
        BY <3>1
      <4>2. g = [i \in 0 .. 1 |-> g[i]]
        OBVIOUS
      <4> HIDE DEF g
      <4> QED
        BY <1>5, <4>1, <4>2
    <3> HIDE DEF g, Value
    <3> QED
      BY <3>2
  <2>4. pool = [i \in 0 .. n |-> Value(pool, i)]
    <3> HIDE DEF Value
    <3> QED
      BY <2>3, Zenon
  <2>5. pool[1] = first
    <3> HIDE DEF pool, Value
    <3>1. 0 \in 0 .. n /\ 1 \in 0 .. n
      BY <1>5
    <3>2. pool[0] = Value(pool, 0) /\ pool[1] = Value(pool, 1)
      BY <2>4, <3>1
    <3> QED
      BY <2>2, <3>2
  <2>6. first \subseteq mempool \cup {Txs[to_remove[1]][j] : j \in 2 .. Len(Txs[to_remove[1]])}
    BY <2>1, TakeBackFacts, Zenon DEF first
  <2>7. TakenBack(n) = first
    <3> HIDE DEF pool
    <3> QED
      BY <1>3, <1>5, <2>5
  <2> HIDE DEF n, pool, Value
  <2>8. ASSUME NEW t \in TakenBack(n), t \notin mempool
        PROVE  \E r \in Elems(to_remove) \cap Elems(active_chain) :
                  r \in Blocks /\ \E j \in 2 .. Len(Txs[r]) : t = Txs[r][j]
    BY <2>1, <2>6, <2>7, <2>8
  <2> QED
    BY <2>8 DEF n
<1> QED
  BY <1>2, <1>4, <1>5

LEMMA MempoolFacts ==
    ASSUME Inv, AllApplied, Len(to_remove) <= 1
    PROVE  MempoolAfterSwitch \subseteq [ins : SUBSET Coins, outs : SUBSET Coins]
<1> DEFINE R == [ins : SUBSET Coins, outs : SUBSET Coins]
<1>1. mempool \subseteq R
  BY DEF Inv, Core, ControlOK
<1>2. ASSUME NEW r \in Blocks, NEW j \in 2 .. Len(Txs[r]) PROVE Txs[r][j] \in R
  <2>1. Txs[r] \in Seq(R) /\ Len(Txs[r]) \in Nat
    BY TxAssumption, LenProperties
  <2>2. j \in 1 .. Len(Txs[r])
    BY <2>1
  <2> QED
    BY <2>1, <2>2, ElementOfSeq
<1> HIDE DEF R
<1>3. TakenBack(Len(Removed)) \subseteq R
  BY <1>1, <1>2, TakenBackFacts
<1> QED
  BY <1>3 DEF MempoolAfterSwitch, R

(* The chain moves, and the coins follow. *)
LEMMA FinalizeUpdateInv ==
    ASSUME Inv, FinalizeUpdate
    PROVE  Core' /\ Allowed
<1> DEFINE h == Target
           c == active_chain
           n == Len(to_remove)
           N == Len(to_add)
<1>1. /\ AllApplied
      /\ pc = "update" /\ pc' = "recheck" /\ done = n + N
      /\ Index!SwitchTo(h) /\ Finalize
      /\ mempool' \in {mempool, MempoolAfterSwitch}
      /\ to_add' = <<>> /\ to_remove' = <<>> /\ done' = 0
      /\ UNCHANGED <<blockVars, messageVars, status, crashes>>
  BY CommitFacts DEF FinalizeUpdate, AllApplied
<1>2. Busy /\ Applied = done /\ ~ Busy'
  BY <1>1 DEF Busy, Applied
<1>3. /\ h \in Blocks /\ Work[h] > Work[Tip(c)]
      /\ n \in Nat /\ N \in Nat /\ N > 0
      /\ to_add = ForkAdd(h, c)
  BY <1>1, AllAppliedFacts
<1>5. StagedView = UtxoOf(h) /\ ValidBranch(h)
  BY <1>1, AllAppliedFacts
<1>6. ASSUME NEW i \in 1 .. N
      PROVE  to_add[i] \in downloaded /\ header_dict[to_add[i]] = "valid"
  <2>1. i <= Applied - n
    BY <1>1, <1>2, <1>3
  <2>2. to_add[i] \in downloaded
    BY <1>2, TargetFacts DEF Elems
  <2> QED
    BY <1>2, <2>1, <2>2 DEF Inv, Core, UpdateInv, ProgressOK
<1>7. \A a \in Elems(to_add) : a \in downloaded /\ header_dict[a] = "valid"
  BY <1>6 DEF Elems
<1>8. loading = {} /\ IndexInv
  BY <1>1, QuietFacts
<1>9. h \in downloaded
  <2>1. h = to_add[N] /\ N \in 1 .. N
    BY <1>3 DEF Target, Tip
  <2> QED
    BY <1>6, <2>1
<1>10. /\ Index!Next /\ IndexInv'
       /\ Index!Known' = Index!Known
       /\ active_chain' = Path[h]
       /\ UNCHANGED <<downloaded, loading>>
  <2>1. \A a \in Elems(ForkAdd(h, c)) : a \in downloaded /\ header_dict[a] = "valid"
    BY <1>3, <1>7
  <2> QED
    BY <1>1, <1>3, <1>8, <1>9, <2>1, SwitchStep
<1>11. Tip(Path[h]) = h
  BY <1>3, PathFacts DEF Tip
<1>12. /\ UtxoNext /\ StagedInv'
       /\ utxo_db' = UtxoOf(h)
       /\ removed_utxos' = {} /\ updated_utxo_set' = {}
  BY <1>1, <1>5, CommitStep DEF Inv, Core
<1>13. CoinsOK'
  BY <1>5, <1>10, <1>11, <1>12 DEF CoinsOK
<1>14. StoreOK'
  <2>1. Elems(Path[h]) = (Elems(c) \ Elems(to_remove)) \cup Elems(to_add)
    BY <1>2, TargetFacts
  <2>2. blocks' = blocks /\ Elems(active_chain') = Elems(Path[h])
    BY <1>1, <1>10, SameReads DEF blockVars
  <2>3. Elems(c) \ {Genesis} \subseteq blocks /\ Elems(to_add) \ {Genesis} \subseteq blocks
    BY <1>7, FormFacts DEF Inv, Core, StoreOK
  <2> QED
    BY <2>1, <2>2, <2>3 DEF StoreOK
<1>15. ControlOK'
  <2>1. mempool' \subseteq [ins : SUBSET Coins, outs : SUBSET Coins]
    BY <1>1, MempoolFacts, CommitFacts, QuietFacts DEF ControlOK, FinalizeUpdate
  <2>2. loading' = {}
    BY <1>8, <1>10
  <2> QED
    BY <1>1, <2>1, <2>2, QuietFacts DEF ControlOK, messageVars
<1>16. IdleOK' /\ UpdateInv'
  BY <1>1, <1>2, <1>12
     DEF IdleOK, UpdateInv, TargetOK, ProgressOK, RevertingOK, ConnectingOK
<1>17. Best!Next
  <2>1. Best!Adopt(h)
    <3>1. Work[h] > Work[Best!Tip(c)] /\ Best!ValidBranch(h) /\ Best!UtxoOf(h) = UtxoOf(h)
      BY <1>3, <1>5, SameBest, Zenon
    <3> QED
      BY <1>10, <1>12, <3>1 DEF Best!Adopt
  <2> QED
    BY <1>3, <2>1 DEF Best!Next
<1>18. Allowed
  BY <1>10, <1>12, <1>17 DEF Allowed
<1> QED
  BY <1>10, <1>12, <1>13, <1>14, <1>15, <1>16, <1>18 DEF Core
(* A removed block is read again, being one of the chain. *)
LEMMA TakesBackAll ==
    ASSUME Inv
    PROVE  ~ TakeBackRaises
<1> SUFFICES ASSUME TakeBackRaises PROVE FALSE
  OBVIOUS
<1>1. PICK i \in 1 .. Len(Removed) : ~ Readable("blk", Removed[i])
  BY DEF TakeBackRaises
<1>2. AllApplied
  BY DEF TakeBackRaises, Commit
<1>3. Has("blk", Removed[i])
  BY <1>2, WhatWasRead
<1> QED
  BY <1>1, <1>3, ReadsRight
-----------------------------------------------------------------------------
(* The whole of it.                                                        *)

LEMMA InitInv == Init => Inv
<1> SUFFICES ASSUME Init PROVE Inv
  OBVIOUS
<1>1. IndexInv /\ Form
  BY IndexStart, InitForm DEF Init
<1>2. /\ downloaded = {Genesis} /\ active_chain = <<Genesis>> /\ loading = {}
      /\ utxo_db = {} /\ removed_utxos = {} /\ updated_utxo_set = {}
      /\ pc = "idle" /\ stored = <<>>
  BY DEF Init, Index!Init, UtxoInit, Store!Init
<1>3. Intact /\ ~ Busy
  BY <1>2 DEF Intact, Store!Intact, Store!Stored, Busy
<1>4. Tip(active_chain) = Genesis /\ Elems(active_chain) = {Genesis}
  BY <1>2 DEF Tip, Elems
<1>5. StagedInv /\ StoreOK
  BY <1>2, <1>4 DEF StagedInv, UtxoTypeOK, StagedOverDisk, StoreOK
<1>6. CoinsOK
  BY <1>2, <1>4, GenesisUtxo DEF CoinsOK
<1>7. ControlOK
  <2>1. mempool = {} /\ status = "SyncingHeaders" /\ added = FALSE /\ crashes = 0
    BY DEF Init
  <2>2. 0 \in 0 .. MaxCrashes
    BY ChainAssumption
  <2> QED
    BY <1>2, <2>1, <2>2 DEF ControlOK, NodeStatus
<1>8. IdleOK /\ UpdateInv
  BY <1>2, <1>3 DEF Init, IdleOK, UpdateInv, TargetOK, ProgressOK, RevertingOK, ConnectingOK
<1> QED
  BY <1>1, <1>3, <1>5, <1>6, <1>7, <1>8 DEF Inv, Core

LEMMA CoreStep == Inv /\ [Next]_vars => Core' /\ Allowed
<1> SUFFICES ASSUME Inv, [Next]_vars PROVE Core' /\ Allowed
  OBVIOUS
<1>1. CASE ReceiveHeaders
  BY <1>1, ReceiveHeadersInv
<1>2. CASE \E b \in Blocks : ReceiveBlock(b)
  BY <1>2, ReceiveBlockInv
<1>3. CASE \E t \in OfferedTxs : ReceiveTx(t)
  BY <1>3, ReceiveTxInv
<1>4. CASE HandleMessage
  BY <1>4, TakeHeaderInv, EndHeadersInv, FlagBlockInv DEF HandleMessage
<1>5. CASE UpdateChain
  BY <1>5, LookInv, StartUpdateInv, ReadsAll, RevertBlockInv, ConnectBlockInv,
     RecordRevBlockInv, RollbackUpdateInv, FinalizeUpdateInv, TakesBackAll, FinalizeRaisesInv
     DEF UpdateChain
<1>6. CASE Restart
  BY <1>6, RestartInv
<1>7. CASE LoadRecord \/ EndLoading
  BY <1>7, LoadInv
<1>8. CASE PutRecord
  BY <1>8, PutRecordInv
<1>9. CASE UNCHANGED vars
  <2>1. blocks' = blocks
    BY <1>9, SameReads DEF vars, blockVars
  <2>2. Applied' = Applied /\ (Busy' <=> Busy)
    BY <1>9 DEF vars, Applied, Busy
  <2> QED
    BY <1>9, <2>1, <2>2, SameStep, QuietFacts DEF vars, messageVars, ControlOK
<1> QED
  BY <1>1, <1>2, <1>3, <1>4, <1>5, <1>6, <1>7, <1>8, <1>9 DEF Next

(* No record is put a second time, so one that is read as another stays.   *)
LEMMA RecordsStay ==
    ASSUME Form, [Next]_vars
    PROVE  \A key \in Store!Stored : key \in Store!Stored' /\ stored'[key] = stored[key]
<1>1. CASE UNCHANGED stored
  BY <1>1 DEF Store!Stored
<1>2. CASE Store!PutLocation
  <2>1. writing # Store!NotWriting
    BY <1>2 DEF Store!PutLocation, Store!NotWriting
  <2>2. writing.key \notin Store!Stored
    BY <2>1 DEF Form, WritingOK
  <2>3. PICK found : stored' = [key \in Store!Stored \cup {writing.key} |->
                                   IF key = writing.key THEN found ELSE stored[key]]
    BY <1>2 DEF Store!PutLocation
  <2> QED
    BY <2>2, <2>3 DEF Store!Stored
<1>3. UNCHANGED stored \/ Store!PutLocation
  <2>1. CASE ReceiveHeaders \/ HandleMessage \/ \E t \in OfferedTxs : ReceiveTx(t)
    BY <2>1 DEF ReceiveHeaders, HandleMessage, TakeHeader, EndHeaders, FlagBlock, ReceiveTx,
                blockVars
  <2>2. CASE \E b \in Blocks : ReceiveBlock(b)
    BY <2>2 DEF ReceiveBlock, BeginBlock, Store!Flush, blockVars
  <2>3. CASE \/ FinishSync \/ WaitForBlocks \/ StartUpdate \/ ReadRaises \/ Recheck
             \/ LoadRecord \/ EndLoading
    BY <2>3 DEF FinishSync, WaitForBlocks, StartUpdate, ReadRaises, Recheck, LoadRecord,
                EndLoading, blockVars
  <2>4. CASE RevertBlock \/ ConnectBlock \/ RecordRevBlock \/ EndBlock \/ RollbackUpdate
    BY <2>4 DEF RevertBlock, ConnectBlock, RecordRevBlock, EndBlock, RollbackUpdate,
                Store!Flush, blockVars
  <2>5. CASE FinalizeUpdate \/ TakeBackRaises \/ FinalizeRaises
    BY <2>5 DEF FinalizeUpdate, TakeBackRaises, FinalizeRaises, blockVars
  <2>6. CASE PutRecord
    BY <2>6 DEF PutRecord, Store!PutSize
  <2>7. CASE Restart
    BY <2>7 DEF Restart, Store!Kill
  <2>8. CASE UNCHANGED vars
    BY <2>8 DEF vars, blockVars
  <2> QED
    BY <2>1, <2>2, <2>3, <2>4, <2>5, <2>6, <2>7, <2>8 DEF Next, UpdateChain
<1> QED
  BY <1>1, <1>2, <1>3

LEMMA IntactBack ==
    ASSUME Form, [Next]_vars, Intact'
    PROVE  Intact
<1>1. \A key \in Store!Stored' : stored'[key] = key
  BY DEF Intact, Store!Intact, Store!Stored
<1> QED
  BY <1>1, RecordsStay DEF Intact, Store!Intact

(* A node without a kill reads what it stored. *)
LEMMA IntactAtFirst ==
    ASSUME Form, crashes = 0
    PROVE  Intact
BY DEF Form, RecordsOK, Intact, Store!Intact

(* What holds in every state. *)
NodeInv == Form /\ (Intact => Inv)

LEMMA NextInv ==
    ASSUME NodeInv, [Next]_vars
    PROVE  NodeInv' /\ (Intact => Allowed)
<1>1. Form'
  BY NextForm DEF NodeInv
<1>2. ASSUME Intact'
      PROVE  Inv'
  <2>1. Inv
    BY <1>2, IntactBack DEF NodeInv
  <2> QED
    BY <1>1, <1>2, <2>1, CoreStep DEF Inv
<1>3. Intact => Allowed
  BY CoreStep DEF NodeInv
<1> QED
  BY <1>1, <1>2, <1>3 DEF NodeInv

(* An update is in one of the states Form describes whatever arrives and   *)
(* wherever the process is killed, and in one of those Inv describes while *)
(* every record is read back as it was written.                            *)
THEOREM Invariance == Spec => []NodeInv
<1>1. Init => NodeInv
  BY InitInv DEF NodeInv, Inv
<1>2. NodeInv /\ [Next]_vars => NodeInv'
  BY NextInv
<1> QED
  BY <1>1, <1>2, PTL DEF Spec

(* A record is read as another, or as none, only if the process was killed *)
(* between the data and the size of a record of its kind.                  *)
THEOREM OnlySuchAKillDamages ==
    Spec => []((crashes = 0 => Intact)
               /\ \A key \in Store!Stored : key[1] \notin cut => stored[key] = key)
<1>1. NodeInv => /\ crashes = 0 => Intact
                 /\ \A key \in Store!Stored : key[1] \notin cut => stored[key] = key
  BY IntactAtFirst DEF NodeInv, Form, RecordsOK
<1> QED
  BY Invariance, <1>1, PTL

(* The states of index, coins, records and messages are well formed, as    *)
(* long as every record is read back as it was written.                    *)
THEOREM TypeCorrect == Spec => [](Intact => TypeOK)
<1>1. NodeInv => (Intact => TypeOK)
  BY InvTypes DEF NodeInv
<1> QED
  BY Invariance, <1>1, PTL

(* Through failures and any kill that leaves the records as they were      *)
(* written, the coins on disk are those of the active chain on disk:       *)
(* finalize writes both or neither.                                        *)
THEOREM UtxoFollowsTheChain == Spec => []UtxoMatchesChain
<1>1. NodeInv => UtxoMatchesChain
  BY DEF NodeInv, Inv, Core, CoinsOK, UtxoMatchesChain
<1> QED
  BY Invariance, <1>1, PTL

(* After any kill there is a record for each block that is flagged         *)
(* downloaded, and a patch for each on the active chain.                   *)
THEOREM WhatCountsIsStored == Spec => []StoredFirst
<1>1. NodeInv => StoredFirst
  BY DEF NodeInv, Form, ChainShape, Inv, Core, StoreOK, StoredFirst
<1> QED
  BY Invariance, <1>1, PTL

(* The coins update_chain stages are those of the last block it applied,   *)
(* as long as the records are read back as they were written; whatever is  *)
(* read, nothing stays staged for a later update to commit.                *)
THEOREM StagedTracksTheBranch == Spec => []StagedTracksBranch
<1>1. NodeInv => StagedTracksBranch
  BY InvStaged DEF NodeInv, StagedTracksBranch, Form, NothingStaged, Busy
<1> QED
  BY Invariance, <1>1, PTL

(* update_chain and the callbacks use the block index as it is specified   *)
(* as long as the records are read back as they were written,              *)
THEOREM UsesTheIndex == Spec => UsesIndex
<1>1. Init => Index!Init
  BY DEF Init
<1>2. NodeInv /\ [Next]_vars => [Intact => Index!Next]_indexVars
  BY NextInv DEF Allowed
<1> QED
  BY Invariance, <1>1, <1>2, PTL DEF Spec, UsesIndex

(* and so the utxo index. *)
THEOREM UsesTheUtxoIndex == Spec => UsesUtxoIndex
<1>1. Init => UtxoInit
  BY DEF Init
<1>2. NodeInv /\ [Next]_vars => [Intact => UtxoNext]_utxoVars
  BY NextInv DEF Allowed
<1> QED
  BY Invariance, <1>1, <1>2, PTL DEF Spec, UsesUtxoIndex

(* So what BlockIndexProofs proves of the index holds in the node, with    *)
(* all that update_chain, the callbacks and kills do to it.                *)
THEOREM TheIndexIsSoundInTheNode ==
    Spec => [](Intact => /\ Index!ActiveChainRecorded
                         /\ Index!HeaderIndexBest
                         /\ Index!CandidatesComplete)
<1>1. NodeInv => (Intact => /\ Index!ActiveChainRecorded
                            /\ Index!HeaderIndexBest
                            /\ Index!CandidatesComplete)
  <2>1. SUFFICES ASSUME IndexP!Inv
                 PROVE  /\ Index!ActiveChainRecorded /\ Index!HeaderIndexBest
                        /\ Index!CandidatesComplete
    BY Zenon DEF NodeInv, Inv, Core, IndexInv
  <2>2. Index!ActiveChainRecorded
    BY <2>1, SameTreeProofs, SameIndexState, Zenon
       DEF IndexP!Inv, IndexP!ActiveChainRecorded, Index!ActiveChainRecorded
  <2>3. Index!HeaderIndexBest
    BY <2>1, SameTreeProofs, SameIndexState, Zenon
       DEF IndexP!Inv, IndexP!HeaderIndexBest, Index!HeaderIndexBest
  <2>4. Index!CandidatesComplete
    BY <2>1, SameTreeProofs, SameIndexState, Zenon
       DEF IndexP!Inv, IndexP!CandidatesComplete, Index!CandidatesComplete
  <2> QED
    BY <2>2, <2>3, <2>4
<1> QED
  BY <1>1, Invariance, PTL

(* A kill that leaves the records as they were written keeps the chain,    *)
THEOREM RestartsKeepTheChainInTheNode ==
    Spec => [][Intact /\ Index!Restart => active_chain' = active_chain]_vars
<1>1. NodeInv /\ [Next]_vars => [Intact /\ Index!Restart => active_chain' = active_chain]_vars
  <2>1. Inv /\ Index!Restart => active_chain' = active_chain
    BY RestartStep DEF Inv, Core
  <2> QED
    BY <2>1 DEF NodeInv
<1> QED
  BY Invariance, <1>1, PTL DEF Spec

(* and in a run without any other the coins behave as one set with a       *)
(* tentative copy.                                                         *)
THEOREM CoinsAreOneSetInTheNode == Spec /\ []Intact => ImplementsUtxoSet
<1>1. UsesUtxoIndex /\ []Intact => UtxoSpec
  <2>1. Intact /\ [Intact => UtxoNext]_utxoVars => [UtxoNext]_utxoVars
    OBVIOUS
  <2> QED
    BY <2>1, PTL DEF UsesUtxoIndex, UtxoSpec
<1> QED
  BY <1>1, UsesTheUtxoIndex, UtxoIndexImplementsUtxoSet, PTL

(* For a reader, chain and coins change together, only for a branch with   *)
(* more work, and only to one on which every input is available, as long   *)
(* as the records are read back as they were written.                      *)
THEOREM ImplementsTheBestChain == Spec => ImplementsBestChain
<1>1. Init => Best!Init
  BY DEF Init, Index!Init, UtxoInit, Best!Init
<1>2. NodeInv /\ [Next]_vars => [Intact => Best!Next]_<<active_chain, utxo_db>>
  BY NextInv DEF Allowed
<1> QED
  BY Invariance, <1>1, <1>2, PTL DEF Spec, ImplementsBestChain
-----------------------------------------------------------------------------
(* Which branches are given up.  Two flaws of the code reject a good one:  *)
(* blocks are reverted oldest first, and a coin staged as removed cannot be *)
(* spent once it is created again.  There is no other reason as long as    *)
(* what was stored is read.                                                *)

(* Branch b replaces at most one block of c, which spends none of its own  *)
(* coins and creates none that b creates.                                  *)
Replaceable(b, c) ==
    /\ Len(ForkRemove(b, c)) <= 1
    /\ \A r \in Elems(ForkRemove(b, c)) :
          /\ Created(r) \cap Spent(r) = {}
          /\ \A a \in Elems(ForkAdd(b, c)) : Created(r) \cap Created(a) = {}

EasyUpdate == Busy /\ Replaceable(Target, active_chain)

(* No coin on disk is staged as added. *)
FreshOK == EasyUpdate => updated_utxo_set \cap utxo_db = {}

(* The only block of a branch to revert is its tip. *)
LEMMA EasyFacts ==
    ASSUME Inv, EasyUpdate
    PROVE  /\ utxo_db = UtxoOf(Tip(active_chain)) /\ ValidBranch(Tip(active_chain))
           /\ Tip(active_chain) \in Blocks /\ active_chain = Path[Tip(active_chain)]
           /\ Len(to_remove) \in {0, 1}
           /\ \A r \in Elems(to_remove) :
                 /\ Created(r) \cap Spent(r) = {}
                 /\ \A a \in Elems(to_add) : Created(r) \cap Created(a) = {}
           /\ Reverting => /\ done = 0 /\ Len(to_remove) = 1
                           /\ ToRevert = Tip(active_chain)
                           /\ ToRevert \in Elems(to_remove)
                           /\ ToRevert # Genesis
<1>1. to_add = ForkAdd(Target, active_chain) /\ to_remove = ForkRemove(Target, active_chain)
  BY DEF Inv, Core, UpdateInv, TargetOK, EasyUpdate
<1>2. /\ utxo_db = UtxoOf(Tip(active_chain)) /\ ValidBranch(Tip(active_chain))
      /\ Tip(active_chain) \in Blocks /\ active_chain = Path[Tip(active_chain)]
      /\ Len(active_chain) \in Nat
  BY ChainFacts DEF Inv, Core, CoinsOK
<1>3. /\ to_remove \in Seq(Blocks) /\ Len(to_remove) \in Nat
      /\ Len(to_remove) = Len(active_chain) - ForkPoint
      /\ ForkPoint \in 1 .. Len(active_chain)
      /\ \A i \in 1 .. Len(to_remove) : to_remove[i] = active_chain[ForkPoint + i]
  BY TargetFacts, LenProperties DEF EasyUpdate
<1>4. Len(to_remove) \in {0, 1}
  BY <1>1, <1>3 DEF EasyUpdate, Replaceable
<1>5. ASSUME Reverting
      PROVE  /\ done = 0 /\ Len(to_remove) = 1
             /\ ToRevert = Tip(active_chain)
             /\ ToRevert \in Elems(to_remove)
             /\ ToRevert # Genesis
  <2>1. done = 0 /\ Len(to_remove) = 1
    <3>1. done < Len(to_remove)
      BY <1>5 DEF Reverting
    <3>2. done \in Nat
      BY FormFacts
    <3> QED
      BY <1>4, <3>1, <3>2
  <2>2. ForkPoint + 1 = Len(active_chain) /\ 1 \in 1 .. Len(to_remove) /\ Len(active_chain) > 1
    <3>1. 1 = Len(active_chain) - ForkPoint /\ ForkPoint \in 1 .. Len(active_chain)
      BY <1>3, <2>1
    <3>2. Len(active_chain) \in Nat
      BY <1>2
    <3>3. ForkPoint + 1 = Len(active_chain) /\ Len(active_chain) > 1
      BY <3>1, <3>2
    <3> QED
      BY <2>1, <3>3
  <2>3. ToRevert = to_remove[1] /\ to_remove[1] = active_chain[ForkPoint + 1]
    BY <1>3, <2>1, <2>2 DEF ToRevert
  <2>4. ToRevert = Tip(active_chain)
    BY <2>2, <2>3, Zenon DEF Tip
  <2>5. ToRevert # Genesis
    <3>1. Len(Path[Tip(active_chain)]) > 1
      BY <1>2, <2>2
    <3>2. Path[Genesis] = <<Genesis>>
      BY PathAssumption
    <3>3. ~ (Len(Path[Genesis]) > 1)
      BY <3>2
    <3> QED
      BY <2>4, <3>1, <3>3, Zenon
  <2> QED
    BY <2>1, <2>2, <2>3, <2>4, <2>5 DEF Elems
<1> QED
  BY <1>1, <1>2, <1>4, <1>5 DEF EasyUpdate, Replaceable

(* The coins of the blocks to add are new on disk. *)
LEMMA NewCoins ==
    ASSUME Inv, EasyUpdate, NEW b \in Elems(to_add)
    PROVE  Created(b) \cap utxo_db = {}
<1> DEFINE h == Target
           k == ForkPoint
           c == active_chain
           t == Tip(active_chain)
<1>1. /\ h \in Blocks /\ k \in 1 .. Len(Path[h]) - 1 /\ k \in 1 .. Len(c)
      /\ Len(Path[h]) \in Nat
      /\ Path[h][k] = c[k]
      /\ Len(to_add) = Len(Path[h]) - k /\ Len(to_remove) = Len(c) - k
      /\ \A i \in 1 .. Len(to_add) : to_add[i] = Path[h][k + i]
      /\ \A i \in 1 .. Len(to_remove) : to_remove[i] = c[k + i]
  BY TargetFacts DEF EasyUpdate
<1>2. t \in Blocks /\ c = Path[t] /\ Len(c) \in Nat /\ utxo_db = UtxoOf(t)
  BY ChainFacts, EasyFacts DEF Inv, Core
<1>3. PICK j \in 1 .. Len(to_add) : b = to_add[j]
  BY DEF Elems
<1>4. b = Path[h][k + j] /\ k + j \in 1 .. Len(Path[h]) /\ k + j \in Nat /\ k + j > k
  <2>1. b = Path[h][k + j]
    BY <1>1, <1>3
  <2>2. Len(to_add) = Len(Path[h]) - k /\ k \in 1 .. Len(Path[h]) - 1 /\ Len(Path[h]) \in Nat
    BY <1>1
  <2> QED
    BY <1>3, <2>1, <2>2
<1>5. ASSUME NEW x \in Created(b), x \in utxo_db PROVE FALSE
  <2>1. PICK i \in 1 .. Len(Path[t]) : x \in Created(Path[t][i])
    BY <1>2, <1>5 DEF UtxoOf
  <2>2. CASE i <= k
    <3>1. i \in 1 .. k /\ i \in 1 .. Len(Path[h]) /\ k \in 1 .. Len(Path[t]) /\ i # k + j
          /\ k \in 1 .. Len(Path[h])
      BY <1>1, <1>2, <1>4, <2>1, <2>2
    <3>2. Path[t][i] = Path[h][i]
      <4>1. Path[Path[t][k]][i] = Path[t][i]
        BY <1>2, <3>1, PrefixFacts
      <4>2. Path[Path[h][k]][i] = Path[h][i]
        BY <1>1, <3>1, PrefixFacts
      <4> QED
        BY <1>1, <1>2, <4>1, <4>2
    <3>3. x \in Created(Path[h][i]) /\ x \in Created(Path[h][k + j])
      BY <1>4, <1>5, <2>1, <3>2
    <3> QED
      BY <1>1, <1>4, <3>1, <3>3, CreatedOnce
  <2>3. CASE i > k
    <3>1. i - k \in 1 .. Len(to_remove) /\ k + (i - k) = i
      BY <1>1, <1>2, <2>1, <2>3
    <3>2. to_remove[i - k] = Path[t][i]
      BY <1>1, <1>2, <3>1
    <3>3. Path[t][i] \in Elems(to_remove)
      BY <3>1, <3>2 DEF Elems
    <3> QED
      BY <1>5, <2>1, <3>3, EasyFacts
  <2> QED
    BY <1>1, <1>2, <2>1, <2>2, <2>3
<1> QED
  BY <1>5

(* Where no coin is both on disk and staged as added, a block all of whose *)
(* inputs are in the staged coins is taken.                                *)
LEMMA ConnectPossible ==
    ASSUME StagedInv, NEW b \in Blocks,
           updated_utxo_set \cap utxo_db = {}, Created(b) \cap utxo_db = {},
           \A j \in 1 .. Len(Txs[b]) :
               Txs[b][j].ins \subseteq
                   (StagedView \cup CreatedBefore(b, j)) \ SpentBefore(b, j)
    PROVE  CanAddBlock(b)
<1> SUFFICES ASSUME NEW j \in 1 .. Len(Txs[b]), NEW x \in Txs[b][j].ins
             PROVE  InputOK(b, j, x)
  BY DEF CanAddBlock
<1>1. x \in (StagedView \cup CreatedBefore(b, j)) \ SpentBefore(b, j)
  OBVIOUS
<1>2. CreatedBefore(b, j) \subseteq Created(b)
  BY LedgerFacts
<1>3. removed_utxos \subseteq utxo_db
  BY DEF StagedInv, UtxoTypeOK
<1>4. x \notin removed_utxos
  BY <1>1, <1>2, <1>3 DEF StagedView
<1> QED
  BY <1>1, <1>4 DEF InputOK, RemovedAt, UpdatedAt, StagedView

(* A branch that is given up spends what is not there. *)
LEMMA RejectedIsInvalid ==
    ASSUME Inv, FreshOK, EasyUpdate, RollbackUpdate
    PROVE  ~ ValidBranch(Target)
<1>1. CASE Reverting /\ ~ CanRevert
  <2> DEFINE r == ToRevert
             t == Tip(active_chain)
  <2>1. /\ r = t /\ t \in Blocks /\ r # Genesis /\ Created(r) \cap Spent(r) = {}
        /\ utxo_db = UtxoOf(t) /\ done = 0 /\ active_chain = Path[t]
    BY <1>1, EasyFacts
  <2>2. Readable("rev", r) /\ Found("rev", r) = r
    <3>1. r \in Elems(active_chain)
      BY <2>1, PathFacts DEF Elems, Tip
    <3> QED
      BY <2>1, <3>1, FormFacts, ReadsRight DEF rev_patches
  <2>3. Created(r) \subseteq UtxoOf(t)
    <3>1. /\ Len(Path[t]) \in 1 .. Len(Path[t]) /\ Path[t][Len(Path[t])] = t
          /\ \A m \in Len(Path[t]) .. Len(Path[t]) : m = Len(Path[t])
      BY <2>1, PathFacts
    <3>2. Created(r) \subseteq Coins
      BY <2>1, LedgerFacts
    <3> QED
      BY <2>1, <3>1, <3>2 DEF UtxoOf
  <2>4. StagedView = UtxoOf(t)
    <3>1. Busy /\ Applied = 0 /\ 0 <= Len(to_remove)
      BY <1>1, <2>1, EasyFacts DEF Reverting, Busy, Applied
    <3>2. StagedView = RevertedView(t, ForkPoint, 0)
      BY <3>1 DEF Inv, Core, UpdateInv, RevertingOK
    <3>3. ForkPoint \in 1 .. Len(Path[t])
      BY <2>1, <3>1, TargetFacts
    <3> QED
      BY <2>1, <3>2, <3>3, RevertNone
  <2>5. updated_utxo_set \cap utxo_db = {}
    BY DEF FreshOK
  <2>6. \A x \in Created(r) : x \in utxo_db /\ x \notin removed_utxos
    BY <2>1, <2>3, <2>4, <2>5 DEF StagedView
  <2>7. CanApplyRevBlock(r)
    BY <2>6 DEF CanApplyRevBlock
  <2> QED
    BY <1>1, <2>2, <2>7 DEF CanRevert
<1>2. CASE Connecting /\ ~ CanConnect
  <2> DEFINE b == ToConnect
             h == Target
             j == done - Len(to_remove)
             m == ForkPoint + j + 1
  <2> SUFFICES ASSUME ValidBranch(h) PROVE FALSE
    OBVIOUS
  <2>1. /\ Busy /\ Applied = done
        /\ done >= Len(to_remove) /\ done < Len(to_remove) + Len(to_add)
        /\ Len(to_remove) \in Nat
    <3>1. pc = "update" /\ Busy /\ Applied = done
      BY <1>2 DEF Connecting, Busy, Applied
    <3>2. Len(to_remove) \in Nat /\ Len(to_add) \in Nat
      BY <3>1, TargetFacts, LenProperties
    <3> QED
      BY <1>2, <3>1, <3>2 DEF Connecting
  <2>2. /\ m \in 2 .. Len(Path[h]) /\ ForkPoint + j = m - 1
        /\ b = Path[h][m] /\ b = to_add[j + 1] /\ j + 1 \in 1 .. Len(to_add)
        /\ b \in Blocks /\ h \in Blocks
        /\ Readable("blk", b) /\ Found("blk", b) = b
    BY <2>1, ConnectFacts, TargetFacts, ReadsRight DEF blocks
  <2>3. AppliedBlock = Path[h][m - 1]
    BY <2>1, <2>2, Zenon DEF AppliedBlock
  <2>4. StagedView = UtxoOf(Path[h][m - 1])
    BY <2>1, <2>3 DEF Inv, Core, UpdateInv, ConnectingOK
  <2> HIDE DEF m, b, h, j
  <2>5. m \in 1 .. Len(Path[h]) /\ Parent(Path[h][m]) = Path[h][m - 1]
    BY <2>2, NextUtxo
  <2>6. SpendsAvailable(Path[h][m])
    <3>1. ValidBranch(Path[h][m])
      BY <2>2, <2>5, PrefixValid
    <3> QED
      BY <2>2, <3>1, NextValid
  <2>7. SpendsAvailable(b) /\ StagedView = UtxoOf(Parent(b))
    BY <2>2, <2>4, <2>5, <2>6, Zenon
  <2>8. \A i \in 1 .. Len(Txs[b]) :
            Txs[b][i].ins \subseteq
                (StagedView \cup CreatedBefore(b, i)) \ SpentBefore(b, i)
    BY <2>7, Zenon DEF SpendsAvailable
  <2>9. b \in Elems(to_add)
    BY <2>2 DEF Elems
  <2>10. CanAddBlock(b)
    <3>1. updated_utxo_set \cap utxo_db = {} /\ StagedInv
      BY DEF FreshOK, Inv, Core
    <3> QED
      BY <2>2, <2>8, <2>9, <3>1, NewCoins, ConnectPossible
  <2> QED
    BY <1>2, <2>2, <2>10 DEF CanConnect, b
<1> QED
  BY <1>1, <1>2 DEF RollbackUpdate

(* What a step may be, as far as these properties are concerned. *)
LEMMA StepKinds ==
    ASSUME Inv, [Next]_vars
    PROVE  /\ crashes' = 0 => crashes = 0 /\ (pc' = "loading" => pc = "loading")
           /\ pc' = "stopped" =>
                 \/ FinalizeRaises
                 \/ pc = "stopped" /\ UNCHANGED <<updateVars, active_chain>>
           /\ Busy' => \/ StartUpdate \/ RevertBlock \/ ConnectBlock
                       \/ Busy /\ UNCHANGED <<utxoVars, updateVars, active_chain>>
<1>1. crashes \in Nat
  BY ChainAssumption DEF Inv, Core, ControlOK
<1>2. CASE \/ ReceiveHeaders \/ \E b \in Blocks : ReceiveBlock(b)
           \/ \E t \in OfferedTxs : ReceiveTx(t)
  <2>1. crashes' = crashes /\ pc' \in {"headers", "block", "idle"}
    BY <1>2 DEF ReceiveHeaders, ReceiveBlock, ReceiveTx
  <2> QED
    BY <2>1 DEF Busy
<1>3. CASE HandleMessage
  <2>1. crashes' = crashes /\ pc' \in {"headers", "idle"}
    BY <1>3 DEF HandleMessage, TakeHeader, EndHeaders, FlagBlock
  <2> QED
    BY <2>1 DEF Busy
<1>4. CASE FinishSync \/ WaitForBlocks \/ Recheck \/ RollbackUpdate \/ FinalizeUpdate
  <2>1. crashes' = crashes /\ pc' \in {"idle", "recheck"}
    BY <1>4 DEF FinishSync, WaitForBlocks, Recheck, RollbackUpdate, FinalizeUpdate
  <2> QED
    BY <2>1 DEF Busy
<1>5. CASE StartUpdate \/ RevertBlock \/ ConnectBlock
  <2>1. crashes' = crashes /\ pc' \in {"update", "record"}
    BY <1>5 DEF StartUpdate, RevertBlock, Reverting, ConnectBlock
  <2> QED
    BY <1>5, <2>1
<1>6. CASE RecordRevBlock \/ EndBlock
  <2>1. /\ crashes' = crashes /\ pc = "record" /\ pc' \in {"record", "update"}
        /\ UNCHANGED <<utxoVars, updateVars, active_chain>>
    BY <1>6 DEF RecordRevBlock, EndBlock, indexVars
  <2> QED
    BY <2>1 DEF Busy
<1>7. CASE FinalizeRaises
  <2>1. /\ crashes' = crashes /\ pc = "update" /\ pc' = "stopped"
        /\ UNCHANGED <<utxoVars, updateVars, active_chain>>
    BY <1>7 DEF FinalizeRaises, AllApplied, indexVars
  <2> QED
    BY <1>7, <2>1 DEF Busy
<1>8. CASE Restart
  <2>1. crashes' # 0 /\ pc' = "loading"
    BY <1>1, <1>8 DEF Restart
  <2> QED
    BY <2>1 DEF Busy
<1>9. CASE LoadRecord \/ EndLoading
  <2>1. crashes' = crashes /\ pc = "loading" /\ pc' \in {"loading", "idle"}
    BY <1>9 DEF LoadRecord, EndLoading
  <2> QED
    BY <2>1 DEF Busy
<1>10. CASE PutRecord \/ UNCHANGED vars
  <2>1. /\ crashes' = crashes /\ pc' = pc
        /\ UNCHANGED <<utxoVars, updateVars, active_chain>>
    BY <1>10 DEF PutRecord, vars, indexVars
  <2> QED
    BY <2>1 DEF Busy
<1> QED
  BY <1>2, <1>3, <1>4, <1>5, <1>6, <1>7, <1>8, <1>9, <1>10, ReadsAll, TakesBackAll
     DEF Next, UpdateChain

LEMMA FreshStep ==
    ASSUME Inv, FreshOK, [Next]_vars
    PROVE  FreshOK'
<1> SUFFICES ASSUME EasyUpdate' PROVE updated_utxo_set' \cap utxo_db' = {}
  BY DEF FreshOK
<1>1. Busy'
  BY DEF EasyUpdate
<1>2. CASE StartUpdate
  BY <1>2, FormFacts DEF StartUpdate, Busy, utxoVars
<1>3. ASSUME Busy, UNCHANGED <<updateVars, active_chain>>
      PROVE  EasyUpdate /\ updated_utxo_set \cap utxo_db = {}
  BY <1>3 DEF updateVars, EasyUpdate, Target, FreshOK
<1>4. CASE RevertBlock
  <2>1. /\ Busy /\ Reverting /\ ApplyRevBlock(ToRevert)
        /\ UNCHANGED <<updateVars, active_chain>>
    <3>1. Found("rev", ToRevert) = ToRevert
      BY <1>4, ReadsRight DEF RevertBlock, CanRevert, Readable
    <3> QED
      BY <1>4, <3>1 DEF RevertBlock, Reverting, Busy, indexVars
  <2>2. EasyUpdate /\ updated_utxo_set \cap utxo_db = {}
    BY <1>3, <2>1
  <2>3. ToRevert \in Blocks /\ utxo_db = UtxoOf(ToRevert)
    BY <2>1, <2>2, EasyFacts
  <2>4. Spent(ToRevert) \cap UtxoOf(ToRevert) = {}
    <3>1. /\ Len(Path[ToRevert]) \in Nat
          /\ Path[ToRevert][Len(Path[ToRevert])] = ToRevert
      BY <2>3, PathFacts
    <3>2. \A i \in 1 .. Len(Path[ToRevert]) : Len(Path[ToRevert]) \in i .. Len(Path[ToRevert])
      BY <3>1
    <3> QED
      BY <3>1, <3>2 DEF UtxoOf
  <2>5. /\ updated_utxo_set' = (updated_utxo_set \ Created(ToRevert)) \cup Spent(ToRevert)
        /\ utxo_db' = utxo_db
    BY <2>1 DEF ApplyRevBlock
  <2> QED
    BY <2>2, <2>3, <2>4, <2>5
<1>5. CASE ConnectBlock
  <2>1. /\ Busy /\ Connecting /\ AddBlock(ToConnect)
        /\ UNCHANGED <<updateVars, active_chain>>
    <3>1. Found("blk", ToConnect) = ToConnect
      BY <1>5, ReadsRight DEF ConnectBlock, CanConnect, Readable
    <3> QED
      BY <1>5, <3>1 DEF ConnectBlock, Connecting, Busy, Index!MarkValid
  <2>2. EasyUpdate /\ updated_utxo_set \cap utxo_db = {}
    BY <1>3, <2>1
  <2>3. Len(to_remove) \in Nat /\ Len(to_add) \in Nat
    BY <2>1, TargetFacts, LenProperties
  <2>4. done >= Len(to_remove) /\ done < Len(to_remove) + Len(to_add)
    BY <2>1, <2>3 DEF Connecting
  <2>5. ToConnect \in Elems(to_add)
    BY <2>1, <2>4, ConnectFacts DEF Elems
  <2>6. Created(ToConnect) \cap utxo_db = {}
    BY <2>2, <2>5, NewCoins
  <2>7. /\ updated_utxo_set' \subseteq updated_utxo_set \cup Created(ToConnect)
        /\ utxo_db' = utxo_db
    <3>1. /\ updated_utxo_set' = UpdatedAt(ToConnect, Len(Txs[ToConnect]) + 1)
          /\ utxo_db' = utxo_db
      BY <2>1 DEF AddBlock
    <3>2. CreatedBefore(ToConnect, Len(Txs[ToConnect]) + 1) = Created(ToConnect)
      BY Zenon DEF Created
    <3> QED
      BY <3>1, <3>2 DEF UpdatedAt
  <2> QED
    BY <2>2, <2>6, <2>7
<1>6. CASE Busy /\ UNCHANGED <<utxoVars, updateVars, active_chain>>
  BY <1>3, <1>6 DEF utxoVars
<1> QED
  BY <1>1, <1>2, <1>4, <1>5, <1>6, StepKinds

(* The main loop ends only if a branch without a false spend replaces more *)
(* than one block, or over a record that is not read as it was written.    *)
StoppedOK == pc = "stopped" => Len(to_remove) > 1 /\ ValidBranch(Target)

LEMMA StoppedStep ==
    ASSUME Inv, StoppedOK, [Next]_vars
    PROVE  StoppedOK'
<1> SUFFICES ASSUME pc' = "stopped" PROVE Len(to_remove') > 1 /\ ValidBranch(Target')
  BY DEF StoppedOK
<1>1. CASE FinalizeRaises
  <2>1. /\ AllApplied /\ ~ Index!CanMove(Removed)
        /\ UNCHANGED updateVars
    BY <1>1 DEF FinalizeRaises
  <2>2. Len(to_remove) \in Nat /\ ValidBranch(Target)
    BY <2>1, AllAppliedFacts
  <2>3. ~ (Len(to_remove) <= 1)
    BY <2>1, SwitchAllowed
  <2>4. Len(to_remove) > 1
    BY <2>2, <2>3
  <2> QED
    BY <2>1, <2>2, <2>4 DEF updateVars, Target
<1>2. CASE pc = "stopped" /\ UNCHANGED <<updateVars, active_chain>>
  BY <1>2 DEF StoppedOK, updateVars, Target
<1> QED
  BY <1>1, <1>2, StepKinds

(* Before the first restart no header that beats the chain is forgotten. *)
WaitOK == crashes = 0 => pc # "loading" /\ IndexP!BetterWait

LEMMA WaitStep ==
    ASSUME Inv, WaitOK, [Next]_vars
    PROVE  WaitOK'
<1> SUFFICES ASSUME crashes' = 0 PROVE pc' # "loading" /\ IndexP!BetterWait'
  BY DEF WaitOK
<1>1. pc # "loading" /\ pc' # "loading" /\ IndexP!BetterWait
  BY StepKinds DEF WaitOK
<1>2. Core' /\ [Index!Next]_indexVars
  BY CoreStep DEF Allowed
<1>3. loading = {} /\ loading' = {}
  BY <1>1, <1>2 DEF Inv, Core, ControlOK
<1>4. IndexP!Inv /\ [IndexP!Next]_indexVars
  BY <1>2, SameIndex, Zenon DEF Inv, Core, IndexInv
<1>5. /\ IndexP!Inv /\ IndexP!BetterWait /\ loading = {} /\ loading' = {}
      /\ [IndexP!Next]_indexVars
      => IndexP!BetterWait'
  BY IndexP!BetterWaitStep, PathAssumption, WorkAssumption, RankAssumption, ChainAssumption,
     Zenon DEF IndexP!Tip, Tip, IndexP!Parent, Parent, IndexP!indexVars, indexVars
<1> QED
  BY <1>1, <1>3, <1>4, <1>5

LEMMA WaitMeans == WaitOK /\ crashes = 0 => BetterHeadersWait
<1>1. /\ Index!Known = IndexP!Known /\ Index!ChainWork = IndexP!ChainWork
      /\ \A c : IndexP!Elems(c) = Elems(c)
  BY SameIndexState, SameTree, SameTreeProofs, Zenon
<1> QED
  BY <1>1, Zenon DEF WaitOK, IndexP!BetterWait, BetterHeadersWait

LEMMA InitExtra == Init => FreshOK /\ StoppedOK /\ WaitOK
<1> SUFFICES ASSUME Init PROVE FreshOK /\ StoppedOK /\ WaitOK
  OBVIOUS
<1>1. pc = "idle" /\ Index!Init
  BY DEF Init
<1>2. IndexP!BetterWait
  <2>1. /\ IndexP!Known = {Genesis} /\ IndexP!ChainWork = Work[Genesis]
    <3>1. IndexP!Tip(active_chain) = Genesis
      BY <1>1 DEF Index!Init, IndexP!Tip
    <3>2. Genesis \in Blocks
      BY PathAssumption
    <3> QED
      BY <1>1, <3>1, <3>2 DEF Index!Init, IndexP!Known, IndexP!ChainWork
  <2>2. Work[Genesis] \in Nat
    BY PathAssumption, WorkAssumption
  <2> QED
    BY <2>1, <2>2 DEF IndexP!BetterWait
<1> QED
  BY <1>1, <1>2 DEF FreshOK, EasyUpdate, Busy, StoppedOK, WaitOK

LEMMA ExtraInvariance == Spec => []((Intact => FreshOK /\ StoppedOK) /\ WaitOK)
<1> DEFINE P == (Intact => FreshOK /\ StoppedOK) /\ WaitOK
<1>1. Init => P
  BY InitExtra
<1>2. ASSUME NodeInv, P, [Next]_vars
      PROVE  P'
  <2>1. ASSUME Intact'
        PROVE  FreshOK' /\ StoppedOK'
    <3>1. Inv
      BY <1>2, <2>1, IntactBack DEF NodeInv
    <3> QED
      BY <1>2, <3>1, FreshStep, StoppedStep DEF Inv
  <2>2. ASSUME crashes' = 0
        PROVE  WaitOK'
    <3>1. Form' /\ crashes' = 0 => Intact'
      BY DEF Form, RecordsOK, Intact, Store!Intact
    <3>2. Inv
      BY <1>2, <2>2, <3>1, NextInv, IntactBack DEF NodeInv
    <3> QED
      BY <1>2, <3>2, WaitStep
  <2>3. WaitOK'
    BY <2>2 DEF WaitOK
  <2> QED
    BY <2>1, <2>3
<1> QED
  BY Invariance, <1>1, <1>2, PTL DEF Spec

(* update_chain gives up a branch that replaces at most one block, with    *)
(* nothing spent in it and nothing created on both sides, only if the      *)
(* branch spends what is not there, so above all one that replaces nothing.*)
(* This, as the next ones, is while what was stored is read.               *)
THEOREM RejectsOnlyInvalidIfReplaceable ==
    Spec => [][Intact /\ RollbackUpdate /\ Replaceable(Tip(to_add), active_chain)
                   => ~ ValidBranch(Tip(to_add))]_vars
<1>1. Inv /\ FreshOK /\ RollbackUpdate /\ Replaceable(Tip(to_add), active_chain)
         => ~ ValidBranch(Tip(to_add))
  <2>1. RollbackUpdate => Busy
    BY DEF RollbackUpdate, Reverting, Connecting, Busy
  <2> QED
    BY <2>1, RejectedIsInvalid DEF EasyUpdate, Target
<1> QED
  BY Invariance, ExtraInvariance, <1>1, PTL DEF NodeInv

(* An exception ends the main loop only over a good branch that replaces   *)
(* more than one block, or over a record that is not read as it was        *)
(* written: then a read before the try block, a missing block for the      *)
(* mempool or a chain without the block to remove may raise as well.       *)
THEOREM StopsOnlyInADeepSwitch ==
    Spec => [](Intact /\ pc = "stopped" => Len(to_remove) > 1 /\ ValidBranch(Tip(to_add)))
<1>1. StoppedOK => (pc = "stopped" => Len(to_remove) > 1 /\ ValidBranch(Tip(to_add)))
  BY DEF StoppedOK, Target
<1> QED
  BY ExtraInvariance, <1>1, PTL

(* A node that has not been restarted has every better header waiting in   *)
(* block_candidates, those found valid on a branch given up included.      *)
THEOREM BetterHeadersWaitUntilARestart == Spec => [](crashes = 0 => BetterHeadersWait)
BY ExtraInvariance, WaitMeans, PTL

(* A ledger and a tree without what the code cannot handle: a good branch  *)
(* that may replace another one is replaceable.                            *)
ForksAreReplaceable ==
    \A a, b \in Blocks :
        Work[b] > Work[a] /\ ValidBranch(a) /\ ValidBranch(b) => Replaceable(b, Path[a])

LEMMA ReplaceableTarget ==
    ASSUME ForksAreReplaceable, Inv, Busy, ValidBranch(Target)
    PROVE  Replaceable(Target, active_chain)
<1>1. /\ Tip(active_chain) \in Blocks /\ active_chain = Path[Tip(active_chain)]
      /\ ValidBranch(Tip(active_chain))
  BY ChainFacts DEF Inv, Core, CoinsOK
<1>2. Target \in Blocks /\ Work[Target] > Work[Tip(active_chain)]
  BY DEF Inv, Core, UpdateInv, TargetOK
<1>3. Replaceable(Target, Path[Tip(active_chain)])
  BY <1>1, <1>2, Zenon DEF ForksAreReplaceable
<1> QED
  BY <1>1, <1>3, Zenon

(* On those update_chain rejects no good branch, *)
THEOREM RejectsOnlyTheInvalid == ASSUME ForksAreReplaceable PROVE Spec => RejectsOnlyInvalid
<1>1. Inv /\ FreshOK /\ RollbackUpdate => ~ ValidBranch(Tip(to_add))
  <2> SUFFICES ASSUME Inv, FreshOK, RollbackUpdate, ValidBranch(Target) PROVE FALSE
    BY DEF Target
  <2>1. Busy
    BY DEF RollbackUpdate, Reverting, Connecting, Busy
  <2> QED
    BY <2>1, ReplaceableTarget, RejectedIsInvalid DEF EasyUpdate
<1> QED
  BY Invariance, ExtraInvariance, <1>1, PTL DEF RejectsOnlyInvalid, NodeInv

(* and the main loop never ends. *)
THEOREM TheLoopGoesOn == ASSUME ForksAreReplaceable PROVE Spec => []NeverStops
<1>1. NodeInv /\ (Intact => StoppedOK) => NeverStops
  <2> SUFFICES ASSUME Inv, StoppedOK, pc = "stopped" PROVE FALSE
    BY DEF NeverStops, NodeInv
  <2>1. Busy /\ Len(to_remove) > 1 /\ ValidBranch(Target)
    BY DEF Busy, StoppedOK
  <2>2. Replaceable(Target, active_chain)
    BY <2>1, ReplaceableTarget
  <2>3. Len(to_remove) = 0 \/ Len(to_remove) = 1
    BY <2>1, <2>2, EasyFacts DEF EasyUpdate
  <2>4. CASE Len(to_remove) = 0
    BY <2>1, <2>4
  <2>5. CASE Len(to_remove) = 1
    BY <2>1, <2>5
  <2> QED
    BY <2>3, <2>4, <2>5
<1> QED
  BY Invariance, ExtraInvariance, <1>1, PTL
-----------------------------------------------------------------------------
(* The mempool over a switch.                                              *)

(* A ledger in which an outpoint is what it is called after, an output of  *)
(* one transaction: transactions that create a coin in common are the same,*)
(* all but coinbases create one, and what is offered spends one.           *)
OutpointsNameTransactions ==
    /\ \A t \in OfferedTxs : t.ins # {}
    /\ \A b \in Blocks : \A j \in 2 .. Len(Txs[b]) : Txs[b][j].outs # {}
    /\ \A b, d \in Blocks : \A t \in Elems(Txs[b]) : \A u \in OfferedTxs \cup Elems(Txs[d]) :
          t.outs \cap u.outs # {} => t = u

(* The mempool holds transactions that were offered or were in a block. *)
PoolOK == mempool \subseteq OfferedTxs \cup UNION {Elems(Txs[b]) : b \in Blocks}

(* A block creates and spends what its transactions do. *)
LEMMA TxCoins ==
    ASSUME NEW b \in Blocks
    PROVE  /\ \A t \in Elems(Txs[b]) : t.outs \subseteq Created(b) /\ t.ins \subseteq Spent(b)
           /\ \A x \in Created(b) : \E t \in Elems(Txs[b]) : x \in t.outs
           /\ \A j \in 2 .. Len(Txs[b]) : Txs[b][j] \in Elems(Txs[b])
<1>1. Len(Txs[b]) \in Nat
  BY LedgerFacts
<1>2. 1 .. Len(Txs[b]) + 1 - 1 = 1 .. Len(Txs[b])
  BY <1>1
<1>3. /\ Created(b) = UNION {Txs[b][i].outs : i \in 1 .. Len(Txs[b])}
      /\ Spent(b) = UNION {Txs[b][i].ins : i \in 1 .. Len(Txs[b])}
  <2>1. Created(b) = UNION {Txs[b][i].outs : i \in 1 .. Len(Txs[b]) + 1 - 1}
    BY DEF Created, CreatedBefore
  <2>2. Spent(b) = UNION {Txs[b][i].ins : i \in 1 .. Len(Txs[b]) + 1 - 1}
    BY DEF Spent, SpentBefore
  <2> QED
    BY <1>2, <2>1, <2>2
<1>4. \A j \in 2 .. Len(Txs[b]) : j \in 1 .. Len(Txs[b])
  BY <1>1
<1> QED
  BY <1>3, <1>4, Zenon DEF Elems

(* The blocks of the active chain by their place. *)
LEMMA ChainPlaces ==
    ASSUME Inv
    PROVE  /\ Tip(active_chain) \in Blocks /\ ValidBranch(Tip(active_chain))
           /\ utxo_db = UtxoOf(Tip(active_chain))
           /\ \A b \in Elems(active_chain) :
                 b \in Blocks /\ \E m \in 1 .. Len(Path[Tip(active_chain)]) :
                                     b = Path[Tip(active_chain)][m]
<1>1. /\ Tip(active_chain) \in Blocks /\ active_chain = Path[Tip(active_chain)]
      /\ Elems(active_chain) \subseteq Blocks
      /\ ValidBranch(Tip(active_chain)) /\ utxo_db = UtxoOf(Tip(active_chain))
  BY ChainFacts DEF Inv, Core, CoinsOK
<1> HIDE DEF Inv
<1> QED
  BY <1>1, Zenon DEF Elems

(* A confirmed transaction is not taken again: what it spends is not there,*)
(* and what it would spend of the mempool's was confirmed before it.       *)
LEMMA AcceptedIsNew ==
    ASSUME Inv, OutpointsNameTransactions, PoolOK, Unconfirmed(mempool),
           NEW t \in OfferedTxs, VerifyMempoolAcceptance(t),
           NEW b \in Elems(active_chain), t \in Elems(Txs[b])
    PROVE  FALSE
<1> DEFINE p == Tip(active_chain)
           n == Len(Path[p])
<1>1. p \in Blocks /\ ValidBranch(p) /\ utxo_db = UtxoOf(p) /\ b \in Blocks
  BY ChainPlaces
<1>2. PICK m \in 1 .. n : b = Path[p][m]
  BY ChainPlaces
<1>3. n \in Nat /\ \A i \in 1 .. n : Path[p][i] \in Blocks
  BY <1>1, PathFacts
<1> HIDE DEF p, n
<1>4. PICK x \in t.ins : TRUE
  BY DEF OutpointsNameTransactions
<1>5. x \in Spent(Path[p][m])
  BY <1>1, <1>2, <1>4, TxCoins
<1>6. PICK i \in 1 .. m : x \in Created(Path[p][i])
  BY <1>1, <1>2, <1>5, SpentOnce DEF n
<1>7. i \in 1 .. n /\ Path[p][i] \in Blocks
  BY <1>2, <1>3, <1>6
<1>8. CASE x \in utxo_db
  <2>1. PICK k \in 1 .. n : /\ x \in Created(Path[p][k])
                            /\ \A l \in k .. n : x \notin Spent(Path[p][l])
    BY <1>1, <1>8, Zenon DEF UtxoOf, n
  <2>2. k = i
    BY <1>1, <1>6, <1>7, <2>1, CreatedOnce DEF n
  <2>3. m \in k .. n
    BY <1>2, <1>3, <1>6, <2>2
  <2> QED
    BY <1>5, <2>1, <2>3
<1>9. CASE x \notin utxo_db
  <2>1. PICK u \in mempool : x \in u.outs
    BY <1>4, <1>9 DEF VerifyMempoolAcceptance
  <2>2. PICK v \in Elems(Txs[Path[p][i]]) : x \in v.outs
    BY <1>6, <1>7, TxCoins
  <2>3. u = v
    <3>1. u \in OfferedTxs \/ \E d \in Blocks : u \in Elems(Txs[d])
      BY <2>1 DEF PoolOK
    <3> QED
      BY <1>7, <2>1, <2>2, <3>1 DEF OutpointsNameTransactions
  <2>4. Path[p][i] \in Elems(active_chain)
    <3>1. active_chain = Path[p]
      BY ChainFacts DEF p, Inv, Core
    <3> QED
      BY <1>7, <3>1 DEF Elems, n
  <2> QED
    BY <2>1, <2>2, <2>3, <2>4 DEF Unconfirmed
<1> QED
  BY <1>8, <1>9

(* A transaction other than a coinbase is in one block of the chain. *)
LEMMA ConfirmedOnce ==
    ASSUME Inv, OutpointsNameTransactions,
           NEW r \in Elems(active_chain), NEW b \in Elems(active_chain),
           NEW j \in 2 .. Len(Txs[r]), Txs[r][j] \in Elems(Txs[b])
    PROVE  r = b
<1> DEFINE p == Tip(active_chain)
<1>1. p \in Blocks /\ r \in Blocks /\ b \in Blocks
  BY ChainPlaces
<1>2. PICK k \in 1 .. Len(Path[p]) : r = Path[p][k]
  BY ChainPlaces
<1>3. PICK m \in 1 .. Len(Path[p]) : b = Path[p][m]
  BY ChainPlaces
<1>4. PICK x \in Txs[r][j].outs : TRUE
  BY <1>1 DEF OutpointsNameTransactions
<1>5. x \in Created(r) /\ x \in Created(b)
  BY <1>1, <1>4, TxCoins
<1> HIDE DEF p
<1> QED
  BY <1>1, <1>2, <1>3, <1>5, CreatedOnce

(* What a switch leaves in the mempool is neither in a block that stays on *)
(* the chain, being unconfirmed or from a removed block, nor in a new one. *)
LEMMA SwitchedPool ==
    ASSUME Inv, FinalizeUpdate
    PROVE  /\ Elems(active_chain') = (Elems(active_chain) \ Elems(to_remove)) \cup Elems(to_add)
           /\ mempool' \in {mempool, MempoolAfterSwitch}
           /\ status = "BlockSynced" => mempool' = MempoolAfterSwitch
           /\ \A t \in MempoolAfterSwitch :
                 /\ \A b \in Elems(to_add) : t \notin Elems(Txs[b])
                 /\ \/ t \in mempool
                    \/ \E r \in Elems(to_remove) \cap Elems(active_chain) :
                          \E j \in 2 .. Len(Txs[r]) : t = Txs[r][j]
<1>1. /\ AllApplied /\ Index!SwitchTo(Target) /\ Len(to_remove) <= 1
      /\ mempool' = IF status = "BlockSynced" THEN MempoolAfterSwitch ELSE mempool
  BY CommitFacts DEF FinalizeUpdate
<1>2. Busy /\ IndexInv
  BY <1>1 DEF AllApplied, Busy, Inv, Core
<1>3. /\ Elems(Path[Target]) = (Elems(active_chain) \ Elems(to_remove)) \cup Elems(to_add)
      /\ to_remove \in Seq(Blocks)
      /\ \A i \in 1 .. Len(to_remove) : to_remove[i] = active_chain[ForkPoint + i]
      /\ Len(to_remove) = Len(active_chain) - ForkPoint
      /\ ForkPoint \in 1 .. Len(active_chain)
  BY <1>2, TargetFacts
<1>4. active_chain' = Path[Target]
  <2>1. Target \in Blocks /\ Work[Target] > Work[Tip(active_chain)]
    BY <1>1, AllAppliedFacts
  <2>2. active_chain' = SubSeq(active_chain, 1, Len(active_chain) - Len(ForkRemove(Target, active_chain)))
                            \o ForkAdd(Target, active_chain)
    BY <1>1, SameTree, Zenon DEF Index!SwitchTo, Index!MoveChain, Index!Move
  <2> QED
    BY <1>2, <2>1, <2>2, IndexFacts, HeavierForkFacts
<1>5. ASSUME NEW t \in MempoolAfterSwitch
      PROVE  /\ \A b \in Elems(to_add) : t \notin Elems(Txs[b])
             /\ \/ t \in mempool
                \/ \E r \in Elems(to_remove) \cap Elems(active_chain) :
                      \E j \in 2 .. Len(Txs[r]) : t = Txs[r][j]
  <2>1. t \in TakenBack(Len(Removed)) /\ \A b \in Elems(to_add) : t \notin Elems(Txs[b])
    BY <1>1, <1>5, WhatWasRead DEF MempoolAfterSwitch
  <2> QED
    BY <1>1, <2>1, TakenBackFacts
<1> QED
  BY <1>1, <1>3, <1>4, <1>5

(* What else a step does to chain and mempool. *)
LEMMA PoolSteps ==
    ASSUME Inv, [Next]_vars
    PROVE  \/ \E t \in OfferedTxs : ReceiveTx(t)
           \/ FinalizeUpdate
           \/ mempool' = {}
           \/ mempool' = mempool /\ active_chain' = active_chain
<1>1. CASE ReceiveHeaders \/ \E b \in Blocks : ReceiveBlock(b)
  BY <1>1 DEF ReceiveHeaders, ReceiveBlock, indexVars
<1>2. CASE HandleMessage
  BY <1>2 DEF HandleMessage, TakeHeader, EndHeaders, FlagBlock, indexVars,
              Index!AddHeader, Index!MarkDownloaded
<1>3. CASE FinishSync \/ WaitForBlocks \/ StartUpdate \/ Recheck
  BY <1>3 DEF FinishSync, WaitForBlocks, StartUpdate, Recheck, Index!PopStale
<1>4. CASE \/ RevertBlock \/ ConnectBlock \/ RecordRevBlock \/ EndBlock
           \/ RollbackUpdate \/ FinalizeRaises
  BY <1>4 DEF RevertBlock, ConnectBlock, RecordRevBlock, EndBlock, RollbackUpdate,
              FinalizeRaises, indexVars, Index!MarkValid
<1>5. CASE Restart
  BY <1>5 DEF Restart
<1>6. CASE LoadRecord \/ EndLoading
  BY <1>6 DEF LoadRecord, EndLoading, indexVars, Index!LoadNext
<1>7. CASE PutRecord \/ UNCHANGED vars
  BY <1>7 DEF PutRecord, vars, indexVars
<1> QED
  BY <1>1, <1>2, <1>3, <1>4, <1>5, <1>6, <1>7, ReadsAll, TakesBackAll
     DEF Next, UpdateChain

LEMMA PoolStep ==
    ASSUME Inv, PoolOK, [Next]_vars
    PROVE  PoolOK'
<1> DEFINE R == OfferedTxs \cup UNION {Elems(Txs[b]) : b \in Blocks}
<1>1. SUFFICES mempool' \subseteq R
  BY DEF PoolOK
<1>2. mempool \subseteq R
  BY DEF PoolOK
<1>3. CASE \E t \in OfferedTxs : ReceiveTx(t)
  BY <1>2, <1>3 DEF ReceiveTx, AddTx
<1>4. CASE FinalizeUpdate
  <2>1. \A r \in Elems(active_chain) : r \in Blocks
    BY ChainPlaces
  <2>2. ASSUME NEW r \in Elems(active_chain), NEW j \in 2 .. Len(Txs[r])
        PROVE  Txs[r][j] \in R
    BY <2>1, TxCoins
  <2>3. MempoolAfterSwitch \subseteq R
    BY <1>2, <1>4, <2>2, SwitchedPool
  <2> QED
    BY <1>2, <1>4, <2>3, SwitchedPool
<1> QED
  BY <1>2, <1>3, <1>4, PoolSteps

LEMMA PoolInvariance == Spec => [](Intact => PoolOK)
<1>1. Init => PoolOK
  BY DEF Init, PoolOK
<1>2. NodeInv /\ (Intact => PoolOK) /\ [Next]_vars => (Intact => PoolOK)'
  BY PoolStep, IntactBack DEF NodeInv
<1> QED
  BY Invariance, <1>1, <1>2, PTL DEF Spec

LEMMA UnconfirmedStep ==
    ASSUME Inv, PoolOK, OutpointsNameTransactions, [Next]_vars,
           status = "BlockSynced", Unconfirmed(mempool)
    PROVE  Unconfirmed(mempool)'
<1>1. SUFFICES ASSUME NEW t \in mempool', NEW b \in Elems(active_chain'), t \in Elems(Txs[b])
               PROVE  FALSE
  BY DEF Unconfirmed
<1>2. t \in mempool /\ b \in Elems(active_chain) => FALSE
  BY <1>1 DEF Unconfirmed
<1>3. CASE \E u \in OfferedTxs : ReceiveTx(u)
  <2>1. PICK u \in OfferedTxs : ReceiveTx(u)
    BY <1>3
  <2>2. /\ VerifyMempoolAcceptance(u) /\ mempool' \subseteq mempool \cup {u}
        /\ active_chain' = active_chain
    BY <2>1 DEF ReceiveTx, AddTx, indexVars
  <2>3. t = u /\ b \in Elems(active_chain)
    BY <1>2, <2>2
  <2> QED
    BY <1>1, <2>2, <2>3, AcceptedIsNew
<1>4. CASE FinalizeUpdate
  <2>1. t \in MempoolAfterSwitch
    BY <1>4, SwitchedPool
  <2>2. b \in Elems(active_chain) /\ b \notin Elems(to_remove)
    BY <1>1, <1>4, <2>1, SwitchedPool
  <2>3. PICK r \in Elems(to_remove) \cap Elems(active_chain) :
            \E j \in 2 .. Len(Txs[r]) : t = Txs[r][j]
    BY <1>2, <1>4, <2>1, <2>2, SwitchedPool
  <2>4. r = b
    BY <1>1, <2>2, <2>3, ConfirmedOnce
  <2> QED
    BY <2>2, <2>3, <2>4
<1>5. CASE mempool' = {}
  BY <1>5
<1>6. CASE mempool' = mempool /\ active_chain' = active_chain
  BY <1>2, <1>6
<1> QED
  BY <1>3, <1>4, <1>5, <1>6, PoolSteps

(* A synchronised node whose mempool holds nothing confirmed takes nothing *)
(* confirmed into it: neither a transaction that arrives after its block   *)
(* nor, in a switch, one that the blocks left and right of the fork share. *)
THEOREM MempoolKeepsTheUnconfirmed ==
    ASSUME OutpointsNameTransactions PROVE Spec => MempoolStaysUnconfirmed
<1>1. NodeInv /\ (Intact => PoolOK) /\ [Next]_vars
         => [Intact /\ status = "BlockSynced" /\ Unconfirmed(mempool) => Unconfirmed(mempool)']_vars
  BY UnconfirmedStep DEF NodeInv
<1> QED
  BY Invariance, PoolInvariance, <1>1, PTL DEF Spec, MempoolStaysUnconfirmed
=============================================================================
