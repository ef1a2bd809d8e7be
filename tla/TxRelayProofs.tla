--------------------------- MODULE TxRelayProofs ----------------------------
(***************************************************************************)
(* The mempools of nodes that pass transactions on, for any number of      *)
(* nodes and transactions: what a mempool indexes and counts is what it    *)
(* holds, and nothing is under way over a connection that is closed.       *)
(***************************************************************************)
EXTENDS TxRelay, SequenceTheorems, FiniteSetTheorems, WellFoundedInduction, TLAPS

(* The induction principles of the library take an operator; these take a  *)
(* set: over the numbers up to n, and over the parts of a finite set.      *)
LEMMA SetInduction ==
    ASSUME NEW n \in Nat, NEW P, 0 \in P,
           \A i \in 0 .. n - 1 : i \in P => i + 1 \in P
    PROVE  0 .. n \subseteq P
<1> DEFINE out == {i \in 0 .. n : i \notin P}
<1> SUFFICES ASSUME out # {} PROVE FALSE
  OBVIOUS
<1>1. PICK m \in out : \A i \in out : ~ (<<i, m>> \in OpToRel(<, Nat))
  <2>1. out \subseteq Nat
    OBVIOUS
  <2> QED
    BY <2>1, WFMin, NatLessThanWellFounded
<1>2. m \in 1 .. n /\ m \notin P
  OBVIOUS
<1>3. m - 1 \in 0 .. n - 1 /\ (m - 1) + 1 = m /\ m - 1 \in Nat /\ m \in Nat /\ m - 1 < m
  BY <1>2
<1>4. <<m - 1, m>> \in OpToRel(<, Nat)
  BY <1>3 DEF OpToRel
<1>5. m - 1 \notin out
  BY <1>1, <1>4
<1> QED
  BY <1>2, <1>3, <1>5

LEMMA SubsetInduction ==
    ASSUME NEW S, IsFiniteSet(S), NEW P, {} \in P,
           \A T \in SUBSET S : (T # {} /\ \A x \in T : T \ {x} \in P) => T \in P
    PROVE  SUBSET S \subseteq P
<1> DEFINE sizes == {i \in Nat : \A T \in SUBSET S : Cardinality(T) = i => T \in P}
<1>1. \A T \in SUBSET S : IsFiniteSet(T) /\ Cardinality(T) \in 0 .. Cardinality(S)
  BY FS_Subset, FS_CardinalityType
<1>2. 0 \in sizes
  BY <1>1, FS_EmptySet
<1>3. ASSUME NEW i \in 0 .. Cardinality(S) - 1, i \in sizes
      PROVE  i + 1 \in sizes
  <2>1. i \in Nat /\ i + 1 \in Nat
    BY FS_CardinalityType
  <2>2. ASSUME NEW T \in SUBSET S, Cardinality(T) = i + 1
        PROVE  T \in P
    <3>1. T # {}
      <4>1. Cardinality({}) = 0 /\ i + 1 # 0
        BY <2>1, FS_EmptySet
      <4> QED
        BY <2>2, <4>1
    <3>2. ASSUME NEW x \in T PROVE T \ {x} \in P
      <4>1. Cardinality(T \ {x}) = (i + 1) - 1
        BY <1>1, <2>2, FS_RemoveElement
      <4> QED
        BY <1>3, <2>1, <4>1
    <3> QED
      BY <3>1, <3>2
  <2> QED
    BY <2>1, <2>2
<1>4. 0 .. Cardinality(S) \subseteq sizes
  <2> HIDE DEF sizes
  <2> QED
    BY <1>2, <1>3, FS_CardinalityType, SetInduction
<1> QED
  BY <1>1, <1>4
-----------------------------------------------------------------------------
(* The bytes of a set of transactions, one by one.                         *)

Units(S) == {u \in S \X Nat : u[2] \in 1 .. VSize[u[1]]}

LEMMA UnitsStep ==
    ASSUME NEW S \in SUBSET Txs, NEW t \in S, IsFiniteSet(Units(S \ {t}))
    PROVE  /\ IsFiniteSet(Units(S))
           /\ Cardinality(Units(S)) = VSize[t] + Cardinality(Units(S \ {t}))
<1> DEFINE mine == {t} \X (1 .. VSize[t])
<1>1. VSize[t] \in Nat
  BY MempoolAssumption
<1>2. IsFiniteSet(1 .. VSize[t]) /\ Cardinality(1 .. VSize[t]) = VSize[t]
  BY <1>1, FS_Interval
<1>3. IsFiniteSet(mine) /\ Cardinality(mine) = VSize[t]
  <2>1. IsFiniteSet({t}) /\ Cardinality({t}) = 1
    BY FS_Singleton
  <2> QED
    BY <1>1, <1>2, <2>1, FS_Product
<1>4. Units(S) = Units(S \ {t}) \cup mine
  BY <1>1 DEF Units
<1>5. Units(S \ {t}) \cap mine = {}
  BY DEF Units
<1>6. Cardinality(Units(S \ {t}) \cap mine) = 0
  BY <1>5, FS_EmptySet
<1>7. Cardinality(Units(S \ {t})) \in Nat
  BY FS_CardinalityType
<1> HIDE DEF mine
<1>8. /\ IsFiniteSet(Units(S \ {t}) \cup mine)
      /\ Cardinality(Units(S \ {t}) \cup mine) =
            Cardinality(Units(S \ {t})) + Cardinality(mine)
              - Cardinality(Units(S \ {t}) \cap mine)
  BY <1>3, FS_Union
<1> QED
  BY <1>1, <1>3, <1>4, <1>6, <1>7, <1>8

LEMMA UnitsFinite ==
    ASSUME NEW S \in SUBSET Txs, IsFiniteSet(S)
    PROVE  \A T \in SUBSET S : IsFiniteSet(Units(T)) /\ Cardinality(Units(T)) \in Nat
<1> DEFINE P == {T \in SUBSET S : IsFiniteSet(Units(T))}
<1>1. Units({}) = {}
  BY DEF Units
<1>2. {} \in P
  BY <1>1, FS_EmptySet
<1>3. \A T \in SUBSET S : (T # {} /\ \A x \in T : T \ {x} \in P) => T \in P
  BY UnitsStep
<1>4. SUBSET S \subseteq P
  <2> HIDE DEF P
  <2> QED
    BY <1>2, <1>3, SubsetInduction
<1> QED
  BY <1>4, FS_CardinalityType

(* The sum of the sizes counts them, in whatever order it is taken. *)
LEMMA BytesAreUnits ==
    ASSUME NEW S \in SUBSET Txs, IsFiniteSet(S)
    PROVE  Bytes(S) = Cardinality(Units(S))
<1> DEFINE one(s) == CHOOSE x \in s : TRUE
           Value(f, s) == IF s = {} THEN 0 ELSE VSize[one(s)] + f[s \ {one(s)}]
           sum == CHOOSE f : f = [s \in SUBSET S |-> Value(f, s)]
           count == [s \in SUBSET S |-> Cardinality(Units(s))]
<1>1. Bytes(S) = sum[S]
  BY DEF Bytes, MapThenSumSet, MapThenFoldSet
<1>2. Cardinality(Units({})) = 0
  BY FS_EmptySet DEF Units
<1>3. ASSUME NEW s \in SUBSET S, s # {}
      PROVE  /\ one(s) \in s /\ s \ {one(s)} \in SUBSET S
             /\ Cardinality(Units(s)) = VSize[one(s)] + Cardinality(Units(s \ {one(s)}))
  <2>1. one(s) \in s
    BY <1>3
  <2>2. IsFiniteSet(Units(s \ {one(s)}))
    BY UnitsFinite
  <2> HIDE DEF one
  <2> QED
    BY <2>1, <2>2, UnitsStep
<1> HIDE DEF one
<1>4. count = [s \in SUBSET S |-> Value(count, s)]
  BY <1>2, <1>3
<1>5. sum = [s \in SUBSET S |-> Value(sum, s)]
  <2> HIDE DEF Value, count
  <2> QED
    BY <1>4, Zenon
<1> HIDE DEF sum
<1> DEFINE P == {s \in SUBSET S : sum[s] = Cardinality(Units(s))}
<1>6. {} \in P
  BY <1>2, <1>5
<1>7. \A T \in SUBSET S : (T # {} /\ \A x \in T : T \ {x} \in P) => T \in P
  <2> SUFFICES ASSUME NEW T \in SUBSET S, T # {}, \A x \in T : T \ {x} \in P
               PROVE  T \in P
    OBVIOUS
  <2>1. sum[T] = VSize[one(T)] + sum[T \ {one(T)}]
    BY <1>5
  <2>2. T \ {one(T)} \in P
    BY <1>3
  <2> QED
    BY <1>3, <2>1, <2>2
<1>8. SUBSET S \subseteq P
  <2> HIDE DEF P
  <2> QED
    BY <1>6, <1>7, SubsetInduction
<1> QED
  BY <1>1, <1>8

(* No transactions have no bytes, and each adds and takes away its own. *)
LEMMA BytesEmpty == Bytes({}) = 0
BY BytesAreUnits, FS_EmptySet DEF Units

LEMMA BytesWithout ==
    ASSUME NEW S \in SUBSET Txs, IsFiniteSet(S), NEW t \in S
    PROVE  /\ Bytes(S \ {t}) \in Nat
           /\ Bytes(S) = VSize[t] + Bytes(S \ {t})
<1>1. IsFiniteSet(S \ {t}) /\ S \ {t} \in SUBSET Txs
  BY FS_RemoveElement
<1>2. IsFiniteSet(Units(S \ {t})) /\ Cardinality(Units(S \ {t})) \in Nat
  BY UnitsFinite
<1> QED
  BY <1>1, <1>2, BytesAreUnits, UnitsStep
-----------------------------------------------------------------------------
(* What is left of a list keeps its order and its type, and is in S.       *)
LEMMA AmongFacts ==
    ASSUME NEW T, NEW seq \in Seq(T), NEW S
    PROVE  Among(seq, S) \in Seq(T \cap S) /\ Among(seq, S) \in Seq(T)
<1> DEFINE n == Len(seq)
           R == Seq(T \cap S)
           Value(f, i) == IF i = 0 THEN <<>>
                          ELSE IF seq[i] \in S THEN Append(f[i - 1], seq[i]) ELSE f[i - 1]
           Fits(f, l) == \A i \in 0 .. l : f[i] = Value(f, i)
           upto == CHOOSE f : f = [i \in 0 .. n |-> Value(f, i)]
<1>1. n \in Nat /\ \A i \in 1 .. n : seq[i] \in T
  BY ElementOfSeq
<1>2. Among(seq, S) = upto[n]
  BY Zenon DEF Among
<1>3. ASSUME NEW f, NEW i \in 0 .. n, i # 0 => f[i - 1] \in R
      PROVE  Value(f, i) \in R
  BY <1>1, <1>3
<1> HIDE DEF n, R
<1> DEFINE reached == {l \in 0 .. n : \E f \in [0 .. n -> R] : Fits(f, l)}
<1>4. 0 \in reached
  <2>1. <<>> \in R
    BY DEF R
  <2>2. [i \in 0 .. n |-> <<>>] \in [0 .. n -> R] /\ 0 \in 0 .. n
    BY <1>1, <2>1
  <2>3. Fits([i \in 0 .. n |-> <<>>], 0)
    BY <1>1
  <2> QED
    BY <2>2, <2>3
<1>5. ASSUME NEW l \in 0 .. n - 1, l \in reached
      PROVE  l + 1 \in reached
  <2>1. PICK f \in [0 .. n -> R] : Fits(f, l)
    BY <1>5
  <2> DEFINE g == [f EXCEPT ![l + 1] = Value(f, l + 1)]
  <2>2. l + 1 \in 0 .. n /\ l \in 0 .. n /\ (l + 1) - 1 = l
    BY <1>1
  <2>3. Value(f, l + 1) \in R
    <3> HIDE DEF Value
    <3> QED
      BY <1>3, <2>1, <2>2
  <2>4. g \in [0 .. n -> R]
    <3> HIDE DEF Value
    <3> QED
      BY <2>1, <2>2, <2>3
  <2>5. ASSUME NEW i \in 0 .. l + 1
        PROVE  g[i] = Value(g, i)
    <3>1. i \in 0 .. n /\ i - 1 # l + 1 /\ (i # 0 => i - 1 \in 0 .. n)
      BY <1>1, <2>2
    <3>2. Value(g, i) = Value(f, i)
      BY <2>1, <3>1
    <3>3. CASE i = l + 1
      BY <2>1, <2>2, <3>2, <3>3
    <3>4. CASE i # l + 1
      <4>1. i \in 0 .. l /\ g[i] = f[i]
        BY <1>1, <2>1, <3>1, <3>4
      <4> QED
        BY <2>1, <3>2, <4>1
    <3> QED
      BY <3>3, <3>4
  <2>6. Fits(g, l + 1)
    BY <2>5
  <2> HIDE DEF g, Fits
  <2> QED
    BY <2>2, <2>4, <2>6
<1>6. n \in reached
  <2> HIDE DEF reached
  <2>1. 0 .. n \subseteq reached
    BY <1>1, <1>4, <1>5, SetInduction
  <2> QED
    BY <1>1, <2>1
<1>7. upto = [i \in 0 .. n |-> Value(upto, i)]
  <2>1. PICK f \in [0 .. n -> R] : Fits(f, n)
    BY <1>6
  <2> HIDE DEF Value
  <2>2. f = [i \in 0 .. n |-> Value(f, i)]
    BY <2>1
  <2> QED
    BY <2>2, Zenon
<1>8. \A i \in 0 .. n : upto[i] = Value(upto, i)
  <2> HIDE DEF upto, Value
  <2> QED
    BY <1>7
<1> HIDE DEF upto
<1> DEFINE good == {i \in 0 .. n : upto[i] \in R}
<1>9. 0 \in good
  BY <1>1, <1>3, <1>8
<1>10. ASSUME NEW i \in 0 .. n - 1, i \in good
       PROVE  i + 1 \in good
  <2>1. i + 1 \in 0 .. n /\ (i + 1) - 1 = i
    BY <1>1
  <2> HIDE DEF Value
  <2> QED
    BY <1>3, <1>8, <1>10, <2>1
<1>11. n \in good
  <2> HIDE DEF good
  <2>1. 0 .. n \subseteq good
    BY <1>1, <1>9, <1>10, SetInduction
  <2> QED
    BY <1>1, <2>1
<1>12. Among(seq, S) \in Seq(T \cap S)
  BY <1>2, <1>11 DEF R
<1>13. \A s \in Seq(T \cap S) : s \in Seq(T)
  OBVIOUS
<1> QED
  BY <1>12, <1>13
-----------------------------------------------------------------------------
(* The mempool of a node.                                                  *)

PoolOK(p) ==
    /\ p.transactions \subseteq Txs
    /\ IsFiniteSet(p.transactions)
    /\ Consistent(p)

LEMMA EmptyPoolOK == PoolOK(EmptyPool)
<1>1. DOMAIN <<>> = {}
  OBVIOUS
<1> QED
  BY <1>1, BytesEmpty, FS_EmptySet DEF PoolOK, EmptyPool, Consistent, Range

LEMMA AddTxFacts ==
    ASSUME NEW p, PoolOK(p), NEW t \in Txs
    PROVE  PoolOK(AddTx(p, t))
<1> DEFINE id == TxId[t]
           index == p.txid_index
           q == AddTx(p, t)
<1>1. CASE IsFull(p) \/ HasTxId(p, id)
  BY <1>1 DEF AddTx
<1>2. CASE ~ (IsFull(p) \/ HasTxId(p, id))
  <2>1. /\ q.transactions = p.transactions \cup {t}
        /\ q.txid_index = [i \in DOMAIN index \cup {id} |-> IF i = id THEN t ELSE index[i]]
        /\ q.size = p.size + 1
        /\ q.bytesize = p.bytesize + VSize[t]
    BY <1>2 DEF AddTx
  <2>2. id \notin DOMAIN index
    BY <1>2 DEF HasTxId
  <2>3. /\ \A i \in DOMAIN index : TxId[index[i]] = i
        /\ {index[i] : i \in DOMAIN index} = p.transactions
        /\ p.size = Cardinality(p.transactions)
        /\ p.bytesize = Bytes(p.transactions)
    BY DEF PoolOK, Consistent, Range
  <2>4. t \notin p.transactions
    BY <2>2, <2>3
  <2>5. Range(q.txid_index) = q.transactions
    <3>1. \A x \in Range(q.txid_index) : x \in q.transactions
      BY <2>1, <2>3 DEF Range
    <3>2. \A x \in q.transactions : x \in Range(q.txid_index)
      <4> SUFFICES ASSUME NEW x \in q.transactions
                   PROVE  \E i \in DOMAIN index \cup {id} : q.txid_index[i] = x
        BY <2>1 DEF Range
      <4>1. CASE x = t
        BY <2>1, <4>1
      <4>2. CASE x # t
        BY <2>1, <2>2, <2>3, <4>2
      <4> QED
        BY <4>1, <4>2
    <3> QED
      BY <3>1, <3>2
  <2>6. \A i \in DOMAIN q.txid_index : TxId[q.txid_index[i]] = i
    BY <2>1, <2>3
  <2>7. /\ IsFiniteSet(q.transactions)
        /\ q.size = Cardinality(q.transactions)
    <3>1. IsFiniteSet(p.transactions)
      BY DEF PoolOK
    <3>2. /\ IsFiniteSet(p.transactions \cup {t})
          /\ Cardinality(p.transactions \cup {t}) = Cardinality(p.transactions) + 1
      BY <2>4, <3>1, FS_AddElement
    <3> QED
      BY <2>1, <2>3, <3>2
  <2>8. q.transactions \subseteq Txs
    BY <2>1 DEF PoolOK
  <2>9. q.bytesize = Bytes(q.transactions)
    <3>1. q.transactions \ {t} = p.transactions /\ t \in q.transactions
      BY <2>1, <2>4
    <3>2. /\ Bytes(p.transactions) \in Nat
          /\ Bytes(q.transactions) = VSize[t] + Bytes(p.transactions)
      BY <2>7, <2>8, <3>1, BytesWithout
    <3>3. VSize[t] \in Nat
      BY MempoolAssumption
    <3> QED
      BY <2>1, <2>3, <3>2, <3>3
  <2>10. PoolOK(q)
    <3> HIDE DEF q
    <3> QED
      BY <2>5, <2>6, <2>7, <2>8, <2>9 DEF PoolOK, Consistent
  <2> QED
    BY <2>10
<1> QED
  BY <1>1, <1>2

LEMMA RemoveTxFacts ==
    ASSUME NEW p, PoolOK(p), NEW t \in Txs
    PROVE  PoolOK(RemoveTx(p, t))
<1> DEFINE id == TxId[t]
           index == p.txid_index
           held == index[id]
           q == RemoveTx(p, t)
<1>1. CASE ~ HasTxId(p, id)
  BY <1>1 DEF RemoveTx
<1>2. CASE HasTxId(p, id)
  <2>1. /\ q.transactions = p.transactions \ {held}
        /\ q.txid_index = [i \in DOMAIN index \ {id} |-> index[i]]
        /\ q.size = p.size - 1
        /\ q.bytesize = p.bytesize - VSize[held]
    BY <1>2 DEF RemoveTx, Restrict
  <2>2. id \in DOMAIN index
    BY <1>2 DEF HasTxId
  <2>3. /\ \A i \in DOMAIN index : TxId[index[i]] = i
        /\ {index[i] : i \in DOMAIN index} = p.transactions
        /\ p.size = Cardinality(p.transactions)
        /\ p.bytesize = Bytes(p.transactions)
        /\ p.transactions \subseteq Txs /\ IsFiniteSet(p.transactions)
    BY DEF PoolOK, Consistent, Range
  <2>4. held \in p.transactions
    BY <2>2, <2>3
  <2>5. Range(q.txid_index) = q.transactions
    <3>1. \A i \in DOMAIN index : index[i] = held <=> i = id
      BY <2>2, <2>3
    <3> QED
      BY <2>1, <2>3, <3>1 DEF Range
  <2>6. \A i \in DOMAIN q.txid_index : TxId[q.txid_index[i]] = i
    BY <2>1, <2>3
  <2>7. /\ IsFiniteSet(q.transactions) /\ q.transactions \subseteq Txs
        /\ q.size = Cardinality(q.transactions)
    BY <2>1, <2>3, <2>4, FS_RemoveElement
  <2>8. q.bytesize = Bytes(q.transactions)
    <3>1. /\ Bytes(q.transactions) \in Nat
          /\ Bytes(p.transactions) = VSize[held] + Bytes(q.transactions)
      BY <2>1, <2>3, <2>4, BytesWithout
    <3>2. VSize[held] \in Nat
      BY <2>3, <2>4, MempoolAssumption
    <3> QED
      BY <2>1, <2>3, <3>1, <3>2
  <2>9. PoolOK(q)
    <3> HIDE DEF q
    <3> QED
      BY <2>5, <2>6, <2>7, <2>8 DEF PoolOK, Consistent
  <2> QED
    BY <2>9
<1> QED
  BY <1>1, <1>2
-----------------------------------------------------------------------------
(* The nodes.                                                              *)

PoolsOK ==
    /\ pool = [n \in Nodes |-> pool[n]]
    /\ \A n \in Nodes : PoolOK(pool[n])

(* A connection has two ends, which are closed and opened together; what   *)
(* is under way is lost when they close.                                   *)
EndsOK ==
    \A n, m \in Nodes :
        /\ conn_status[n][m] = "None" <=> n = m
        /\ conn_status[n][m] = "Closed" => conn_status[m][n] = "Closed"

LinesOK ==
    /\ wire \in [Nodes -> [Nodes -> Seq(Messages)]]
    /\ \A n, m \in Nodes : conn_status[n][m] \in {"None", "Closed"} => wire[n][m] = <<>>

LinksOK ==
    /\ conn_status \in [Nodes -> [Nodes -> {"None", "Open", "Connected", "Closed"}]]
    /\ EndsOK
    /\ LinesOK

ListsOK ==
    /\ received_txs \in [Nodes -> Seq(Txs)]
    /\ inv_txs \in [Nodes -> Seq(Nodes \X Txs)]

ChainOK ==
    /\ confirmed \in [Nodes -> SUBSET Txs]
    /\ status \in [Nodes -> {"HeaderSynced", "BlockSynced"}]
    /\ happened \subseteq Events

RelayInv == PoolsOK /\ LinksOK /\ ListsOK /\ ChainOK

LEMMA RelayInvImplies == RelayInv => TypeOK /\ MempoolConsistent
BY DEF RelayInv, PoolsOK, PoolOK, LinksOK, LinesOK, ListsOK, ChainOK, TypeOK,
       MempoolConsistent

LEMMA InitFacts == Init => RelayInv
<1> SUFFICES ASSUME Init PROVE RelayInv
  OBVIOUS
<1>1. PoolsOK
  BY EmptyPoolOK DEF Init, PoolsOK
<1>2. LinksOK
  BY DEF Init, LinksOK, EndsOK, LinesOK
<1>3. ListsOK /\ ChainOK
  BY DEF Init, ListsOK, ChainOK
<1> QED
  BY <1>1, <1>2, <1>3 DEF RelayInv
-----------------------------------------------------------------------------
(* What the parts of the actions do to the parts of the invariant.         *)

LEMMA PoolStep ==
    ASSUME PoolsOK, NEW n \in Nodes, NEW p, PoolOK(p), pool' = [pool EXCEPT ![n] = p]
    PROVE  PoolsOK'
<1>1. /\ pool' = [k \in Nodes |-> IF k = n THEN p ELSE pool[k]]
  BY DEF PoolsOK
<1>2. pool' = [k \in Nodes |-> pool'[k]] /\ \A k \in Nodes : pool'[k] = IF k = n THEN p ELSE pool[k]
  BY <1>1
<1>3. \A k \in Nodes : PoolOK(pool'[k])
  BY <1>2 DEF PoolsOK
<1> QED
  BY <1>2, <1>3 DEF PoolsOK

LEMMA AddStep ==
    ASSUME PoolsOK, NEW n \in Nodes, NEW t \in Txs,
           pool' = [pool EXCEPT ![n] = AddTx(@, t)]
    PROVE  PoolsOK'
<1>1. PoolOK(AddTx(pool[n], t))
  BY AddTxFacts DEF PoolsOK
<1> QED
  BY <1>1, PoolStep

LEMMA TakeTxStep ==
    ASSUME PoolsOK, ListsOK, NEW n \in Nodes, NEW t \in Txs, TakeTx(n, t)
    PROVE  PoolsOK' /\ received_txs' \in [Nodes -> Seq(Txs)]
<1>1. CASE UNCHANGED <<pool, received_txs>>
  BY <1>1 DEF PoolsOK, ListsOK
<1>2. CASE /\ pool' = [pool EXCEPT ![n] = AddTx(@, t)]
           /\ received_txs' = [received_txs EXCEPT ![n] = Append(@, t)]
  <2>1. received_txs' \in [Nodes -> Seq(Txs)]
    BY <1>2 DEF ListsOK
  <2> QED
    BY <1>2, <2>1, AddStep
<1> QED
  BY <1>1, <1>2 DEF TakeTx

(* The next message from m to n, and its transactions. *)
LEMMA NextMessage ==
    ASSUME LinksOK, NEW n \in Nodes, NEW m \in Nodes, wire[m][n] # <<>>
    PROVE  /\ Head(wire[m][n]).txs \in Seq(Txs)
           /\ Head(wire[m][n]).txs[1] \in Txs
           /\ Tail(wire[m][n]) \in Seq(Messages)
<1>1. wire[m][n] \in Seq(Messages)
  BY DEF LinksOK, LinesOK
<1>2. Head(wire[m][n]) \in Messages /\ Tail(wire[m][n]) \in Seq(Messages)
  BY <1>1, HeadTailProperties
<1>3. Head(wire[m][n]).txs \in Seq(Txs) \ {<<>>}
  BY <1>2 DEF Messages
<1> QED
  BY <1>2, <1>3

(* n takes a message from m and answers over the connection, which is up.  *)
LEMMA AnswerStep ==
    ASSUME LinksOK, NEW n \in Nodes, NEW m \in Others(n),
           conn_status[n][m] = "Connected", wire[m][n] # <<>>,
           NEW answers \in Seq(Messages), Answer(n, m, answers),
           UNCHANGED conn_status
    PROVE  LinksOK'
<1>1. m \in Nodes /\ m # n
  BY DEF Others
<1>2. Tail(wire[m][n]) \in Seq(Messages)
  BY <1>1, NextMessage
<1>3. wire[n][m] \o answers \in Seq(Messages)
  BY <1>1, ConcatProperties DEF LinksOK, LinesOK
<1> DEFINE taken == [wire EXCEPT ![m][n] = Tail(@)]
<1>4. /\ taken \in [Nodes -> [Nodes -> Seq(Messages)]]
      /\ \A k, l \in Nodes :
            taken[k][l] = IF k = m /\ l = n THEN Tail(wire[m][n]) ELSE wire[k][l]
  BY <1>1, <1>2 DEF LinksOK, LinesOK
<1>5. wire' = [taken EXCEPT ![n][m] = wire[n][m] \o answers]
  <2>1. taken[n][m] = wire[n][m]
    BY <1>1, <1>4
  <2> QED
    BY <2>1 DEF Answer
<1> HIDE DEF taken
<1>6. /\ wire' \in [Nodes -> [Nodes -> Seq(Messages)]]
      /\ \A k, l \in Nodes :
            wire'[k][l] = IF k = n /\ l = m THEN wire[n][m] \o answers ELSE taken[k][l]
  BY <1>1, <1>3, <1>4, <1>5
<1>7. conn_status[m][n] \notin {"None", "Closed"}
  BY <1>1 DEF LinksOK, EndsOK
<1>8. LinesOK'
  <2> SUFFICES ASSUME NEW k \in Nodes, NEW l \in Nodes,
                      conn_status'[k][l] \in {"None", "Closed"}
               PROVE  wire'[k][l] = <<>>
    BY <1>6 DEF LinesOK
  <2>1. conn_status[k][l] \in {"None", "Closed"}
    OBVIOUS
  <2>2. wire[k][l] = <<>> /\ ~ (k = m /\ l = n) /\ ~ (k = n /\ l = m)
    BY <1>7, <2>1 DEF LinksOK, LinesOK
  <2> QED
    BY <1>4, <1>6, <2>2
<1> QED
  BY <1>8 DEF LinksOK, EndsOK

(* n sends something over every connection that is not closed. *)
LEMMA SendStep ==
    ASSUME LinksOK, NEW n \in Nodes, NEW sent \in [Nodes -> Seq(Messages)],
           wire' = [wire EXCEPT ![n] = [m \in Nodes |->
                       IF conn_status[n][m] \notin {"Open", "Connected"} THEN wire[n][m]
                       ELSE sent[m]]],
           UNCHANGED conn_status
    PROVE  LinksOK'
<1>1. wire' \in [Nodes -> [Nodes -> Seq(Messages)]]
  BY DEF LinksOK, LinesOK
<1>2. \A k, l \in Nodes :
         wire'[k][l] = wire[k][l] \/ conn_status[k][l] \in {"Open", "Connected"}
  BY DEF LinksOK, LinesOK
<1>3. LinesOK'
  BY <1>1, <1>2 DEF LinksOK, LinesOK
<1> QED
  BY <1>3 DEF LinksOK, EndsOK

(* Some connections are stopped, with what is under way over them.         *)
LEMMA DropStep ==
    ASSUME LinksOK, ListsOK, NEW links,
           \A n \in Nodes : <<n, n>> \notin links, Drop(links)
    PROVE  LinksOK' /\ inv_txs' \in [Nodes -> Seq(Nodes \X Txs)]
<1> DEFINE gone(n, m) == <<n, m>> \in links \/ <<m, n>> \in links
<1>1. /\ conn_status' = [n \in Nodes |-> [m \in Nodes |->
                            IF gone(n, m) THEN "Closed" ELSE conn_status[n][m]]]
      /\ wire' = [n \in Nodes |-> [m \in Nodes |->
                     IF gone(n, m) THEN <<>> ELSE wire[n][m]]]
      /\ inv_txs' = [n \in Nodes |->
                        Among(inv_txs[n], {m \in Nodes : ~ gone(n, m)} \X Txs)]
  BY DEF Drop
<1>2. \A n, m \in Nodes : (gone(n, m) <=> gone(m, n)) /\ (gone(n, m) => n # m)
  OBVIOUS
<1> HIDE DEF gone
<1>3. \A n \in Nodes :
         Among(inv_txs[n], {m \in Nodes : ~ gone(n, m)} \X Txs) \in Seq(Nodes \X Txs)
  <2> TAKE n \in Nodes
  <2>1. inv_txs[n] \in Seq(Nodes \X Txs)
    BY DEF ListsOK
  <2> QED
    BY <2>1, AmongFacts
<1>4. conn_status' \in [Nodes -> [Nodes -> {"None", "Open", "Connected", "Closed"}]]
  BY <1>1 DEF LinksOK
<1>5. EndsOK'
  BY <1>1, <1>2 DEF LinksOK, EndsOK
<1>6. LinesOK'
  BY <1>1 DEF LinksOK, LinesOK
<1> QED
  BY <1>1, <1>3, <1>4, <1>5, <1>6 DEF LinksOK
-----------------------------------------------------------------------------
(* One lemma for each action.                                              *)

LEMMA TxStep ==
    ASSUME RelayInv, NEW n \in Nodes, NEW m \in Others(n), Tx(n, m)
    PROVE  RelayInv'
<1>1. m \in Nodes
  BY DEF Others
<1>2. Head(wire[m][n]).txs[1] \in Txs
  BY <1>1, NextMessage DEF Tx, NextIs, RelayInv
<1>3. PoolsOK' /\ received_txs' \in [Nodes -> Seq(Txs)]
  BY <1>2, TakeTxStep DEF Tx, RelayInv
<1>4. LinksOK'
  <2>1. <<>> \in Seq(Messages) /\ Answer(n, m, <<>>)
    BY DEF Tx
  <2> QED
    BY <2>1, AnswerStep DEF Tx, NextIs, RelayInv
<1>5. ListsOK' /\ ChainOK'
  BY <1>3 DEF Tx, RelayInv, ListsOK, ChainOK, chainVars
<1> QED
  BY <1>3, <1>4, <1>5 DEF RelayInv

LEMMA InvStep ==
    ASSUME RelayInv, NEW n \in Nodes, NEW m \in Others(n), Inv(n, m)
    PROVE  RelayInv'
<1> DEFINE missing == GetMissing(pool[n], Head(wire[m][n]).txs)
           heard == [i \in DOMAIN missing |-> <<m, missing[i]>>]
<1>1. m \in Nodes
  BY DEF Others
<1>2. Head(wire[m][n]).txs \in Seq(Txs)
  BY <1>1, NextMessage DEF Inv, NextIs, RelayInv
<1>3. missing \in Seq(Txs)
  <2>1. Among(Head(wire[m][n]).txs, Txs \ pool[n].transactions) \in Seq(Txs)
    BY <1>2, AmongFacts
  <2> QED
    BY <2>1 DEF GetMissing
<1>4. /\ inv_txs' = IF status[n] # "BlockSynced" THEN inv_txs
                    ELSE [inv_txs EXCEPT ![n] = @ \o heard]
      /\ UNCHANGED <<pool, chainVars, received_txs, conn_status, happened>>
  BY DEF Inv
<1> HIDE DEF missing
<1>5. heard \in Seq(Nodes \X Txs)
  BY <1>1, <1>3
<1> HIDE DEF heard
<1>6. inv_txs' \in [Nodes -> Seq(Nodes \X Txs)]
  BY <1>4, <1>5 DEF RelayInv, ListsOK
<1>7. LinksOK'
  <2>1. <<>> \in Seq(Messages) /\ Answer(n, m, <<>>)
    BY DEF Inv
  <2> QED
    BY <2>1, AnswerStep DEF Inv, NextIs, RelayInv
<1>8. PoolsOK' /\ ListsOK' /\ ChainOK'
  BY <1>4, <1>6 DEF RelayInv, PoolsOK, ListsOK, ChainOK, chainVars
<1> QED
  BY <1>7, <1>8 DEF RelayInv

LEMMA GetDataStep ==
    ASSUME RelayInv, NEW n \in Nodes, NEW m \in Others(n), GetData(n, m)
    PROVE  RelayInv'
<1> DEFINE found == Among(Head(wire[m][n]).txs, pool[n].transactions)
           answers == [i \in DOMAIN found |-> Msg("tx", <<found[i]>>)]
<1>1. m \in Nodes
  BY DEF Others
<1>2. Head(wire[m][n]).txs \in Seq(Txs)
  BY <1>1, NextMessage DEF GetData, NextIs, RelayInv
<1>3. found \in Seq(Txs \cap pool[n].transactions)
  BY <1>2, AmongFacts
<1>4. /\ NextIs(n, m, "getdata") /\ Answer(n, m, answers)
      /\ UNCHANGED <<pool, chainVars, received_txs, inv_txs, conn_status, happened>>
  BY DEF GetData
<1> HIDE DEF found
<1>5. \A i \in DOMAIN found : Msg("tx", <<found[i]>>) \in Messages
  <2> TAKE i \in DOMAIN found
  <2>1. found[i] \in Txs
    BY <1>3
  <2>2. <<found[i]>> \in Seq(Txs) \ {<<>>}
    BY <2>1
  <2> QED
    BY <2>2 DEF Msg, Messages
<1>6. answers \in Seq(Messages)
  <2>1. Len(found) \in Nat /\ DOMAIN found = 1 .. Len(found)
    BY <1>3
  <2> HIDE DEF Msg
  <2>2. answers \in [1 .. Len(found) -> Messages]
    BY <1>5, <2>1
  <2> HIDE DEF answers
  <2> QED
    BY <2>1, <2>2, SeqDef
<1> HIDE DEF answers
<1>7. LinksOK'
  BY <1>4, <1>6, AnswerStep DEF NextIs, RelayInv
<1>8. PoolsOK' /\ ListsOK' /\ ChainOK'
  BY <1>4 DEF RelayInv, PoolsOK, ListsOK, ChainOK, chainVars
<1> QED
  BY <1>7, <1>8 DEF RelayInv

(* A message is not empty, and what a node asks for was announced to it. *)
LEMMA NonEmptyFacts ==
    ASSUME NEW type \in {"inv", "getdata", "tx"}, NEW txs \in Seq(Txs)
    PROVE  NonEmpty(type, txs) \in Seq(Messages)
<1>1. txs # <<>> => Msg(type, txs) \in Messages
  BY DEF Msg, Messages
<1> QED
  BY <1>1 DEF NonEmpty

LEMMA AskedOfFacts ==
    ASSUME ListsOK, NEW n \in Nodes, NEW m \in Nodes
    PROVE  AskedOf(n, m) \in Seq(Txs)
<1> DEFINE mine == Among(inv_txs[n], {m} \X Txs)
<1>1. inv_txs[n] \in Seq(Nodes \X Txs)
  BY DEF ListsOK
<1>2. mine \in Seq((Nodes \X Txs) \cap ({m} \X Txs))
  BY <1>1, AmongFacts
<1>3. AskedOf(n, m) = [i \in DOMAIN mine |-> mine[i][2]]
  BY DEF AskedOf
<1> HIDE DEF mine
<1>4. \A i \in DOMAIN mine : mine[i][2] \in Txs
  BY <1>2
<1> QED
  BY <1>2, <1>3, <1>4

LEMMA TxDownloadStep ==
    ASSUME RelayInv, NEW n \in Nodes, TxDownload(n)
    PROVE  RelayInv'
<1> DEFINE sent == [m \in Nodes |-> wire[n][m] \o NonEmpty("inv", Announcements(n))
                                               \o NonEmpty("getdata", AskedOf(n, m))]
<1>1. Announcements(n) \in Seq(Txs)
  BY DEF RelayInv, ListsOK, Announcements
<1>2. \A m \in Nodes : /\ wire[n][m] \in Seq(Messages)
                       /\ NonEmpty("inv", Announcements(n)) \in Seq(Messages)
                       /\ NonEmpty("getdata", AskedOf(n, m)) \in Seq(Messages)
  BY <1>1, AskedOfFacts, NonEmptyFacts DEF RelayInv, LinksOK, LinesOK
<1>3. sent \in [Nodes -> Seq(Messages)]
  BY <1>2
<1>4. wire' = [wire EXCEPT ![n] = [m \in Nodes |->
                  IF conn_status[n][m] \notin {"Open", "Connected"} THEN wire[n][m]
                  ELSE sent[m]]]
  <2>1. \A m \in Nodes : sent[m] = wire[n][m] \o NonEmpty("inv", Announcements(n))
                                              \o NonEmpty("getdata", AskedOf(n, m))
    OBVIOUS
  <2> HIDE DEF sent
  <2> QED
    BY <2>1 DEF TxDownload
<1> HIDE DEF sent
<1>5. LinksOK'
  BY <1>3, <1>4, SendStep DEF RelayInv, TxDownload
<1>6. ListsOK'
  BY DEF RelayInv, ListsOK, TxDownload, AskedLeft
<1>7. PoolsOK' /\ ChainOK'
  BY DEF RelayInv, PoolsOK, ChainOK, TxDownload, chainVars
<1> QED
  BY <1>5, <1>6, <1>7 DEF RelayInv

LEMMA HearTxStep ==
    ASSUME RelayInv, NEW n \in Nodes, NEW t \in Txs, HearTx(n, t)
    PROVE  RelayInv'
<1>1. PoolsOK' /\ received_txs' \in [Nodes -> Seq(Txs)]
  BY TakeTxStep DEF HearTx, RelayInv
<1>2. ListsOK'
  BY <1>1 DEF HearTx, RelayInv, ListsOK
<1>3. LinksOK'
  BY DEF HearTx, RelayInv, LinksOK, EndsOK, LinesOK
<1>4. ChainOK'
  BY DEF HearTx, Happens, RelayInv, ChainOK, chainVars
<1> QED
  BY <1>1, <1>2, <1>3, <1>4 DEF RelayInv

LEMMA SendRawTransactionStep ==
    ASSUME RelayInv, NEW n \in Nodes, NEW t \in Txs, SendRawTransaction(n, t)
    PROVE  RelayInv'
<1> DEFINE sent == [m \in Nodes |-> Append(wire[n][m], Msg("tx", <<t>>))]
<1>1. ListsOK' /\ ChainOK' /\ UNCHANGED conn_status
  BY DEF SendRawTransaction, Happens, RelayInv, ListsOK, ChainOK, chainVars
<1>2. CASE UNCHANGED <<pool, wire>>
  BY <1>1, <1>2 DEF RelayInv, PoolsOK, LinksOK, EndsOK, LinesOK
<1>3. CASE /\ pool' = [pool EXCEPT ![n] = AddTx(@, t)]
           /\ wire' = [wire EXCEPT ![n] = [m \in Nodes |->
                          IF conn_status[n][m] \notin {"Open", "Connected"} THEN @[m]
                          ELSE Append(@[m], Msg("tx", <<t>>))]]
  <2>1. Msg("tx", <<t>>) \in Messages
    BY DEF Msg, Messages
  <2>2. sent \in [Nodes -> Seq(Messages)]
    BY <2>1 DEF RelayInv, LinksOK, LinesOK
  <2>3. \A m \in Nodes : sent[m] = Append(wire[n][m], Msg("tx", <<t>>))
    OBVIOUS
  <2> HIDE DEF sent
  <2>4. wire' = [wire EXCEPT ![n] = [m \in Nodes |->
                    IF conn_status[n][m] \notin {"Open", "Connected"} THEN wire[n][m]
                    ELSE sent[m]]]
    BY <1>3, <2>3
  <2>5. LinksOK'
    BY <1>1, <2>2, <2>4, SendStep DEF RelayInv
  <2>6. PoolsOK'
    BY <1>3, AddStep DEF RelayInv
  <2> QED
    BY <1>1, <2>5, <2>6 DEF RelayInv
<1> QED
  BY <1>2, <1>3 DEF SendRawTransaction

LEMMA ConfirmStep ==
    ASSUME RelayInv, NEW n \in Nodes, NEW t \in Txs, Confirm(n, t)
    PROVE  RelayInv'
<1>1. PoolOK(RemoveTx(pool[n], t))
  BY RemoveTxFacts DEF RelayInv, PoolsOK
<1>2. ASSUME pool' = [pool EXCEPT ![n] = RemoveTx(@, t)]
      PROVE  PoolsOK'
  BY <1>1, <1>2, PoolStep DEF RelayInv
<1>3. PoolsOK'
  BY <1>2 DEF Confirm, RelayInv, PoolsOK
<1>4. LinksOK' /\ ListsOK'
  BY DEF Confirm, RelayInv, LinksOK, EndsOK, LinesOK, ListsOK
<1>5. ChainOK'
  BY DEF Confirm, RelayInv, ChainOK
<1> QED
  BY <1>3, <1>4, <1>5 DEF RelayInv

LEMMA UnconfirmStep ==
    ASSUME RelayInv, NEW n \in Nodes, NEW t \in Txs, Unconfirm(n, t)
    PROVE  RelayInv'
<1>1. ASSUME pool' = [pool EXCEPT ![n] = AddTx(@, t)]
      PROVE  PoolsOK'
  BY <1>1, AddStep DEF RelayInv
<1>2. PoolsOK'
  BY <1>1 DEF Unconfirm, RelayInv, PoolsOK
<1>3. LinksOK' /\ ListsOK'
  BY DEF Unconfirm, RelayInv, LinksOK, EndsOK, LinesOK, ListsOK
<1>4. ChainOK'
  BY DEF Unconfirm, Happens, RelayInv, ChainOK
<1> QED
  BY <1>2, <1>3, <1>4 DEF RelayInv

LEMMA FinishSyncStep ==
    ASSUME RelayInv, NEW n \in Nodes, FinishSync(n)
    PROVE  RelayInv'
<1>1. LinksOK' /\ inv_txs' \in [Nodes -> Seq(Nodes \X Txs)]
  BY DropStep DEF FinishSync, RelayInv, Others
<1>2. PoolsOK' /\ ListsOK' /\ ChainOK'
  BY <1>1 DEF FinishSync, RelayInv, PoolsOK, ListsOK, ChainOK
<1> QED
  BY <1>1, <1>2 DEF RelayInv

(* A connection breaks, or is stopped by one of its ends. *)
LEMMA StopStep ==
    ASSUME RelayInv, NEW n \in Nodes, NEW m \in Others(n), Break(n, m) \/ Reject(n, m)
    PROVE  RelayInv'
<1>1. /\ Drop({<<n, m>>})
      /\ UNCHANGED <<pool, chainVars, received_txs, happened>>
  BY DEF Break, Reject
<1>2. LinksOK' /\ inv_txs' \in [Nodes -> Seq(Nodes \X Txs)]
  BY <1>1, DropStep DEF RelayInv, Others
<1>3. PoolsOK' /\ ListsOK' /\ ChainOK'
  BY <1>1, <1>2 DEF RelayInv, PoolsOK, ListsOK, ChainOK, chainVars
<1> QED
  BY <1>2, <1>3 DEF RelayInv

(* Both ends are opened; one of them has the other's verack. *)
LEMMA OpenStep ==
    ASSUME RelayInv, NEW n \in Nodes, NEW m \in Others(n), Connect(n, m) \/ Verack(n, m)
    PROVE  RelayInv'
<1>1. m \in Nodes /\ m # n
  BY DEF Others
<1>2. UNCHANGED <<pool, chainVars, received_txs, inv_txs, wire, happened>>
  BY DEF Connect, Verack
<1>3. LinksOK'
  <2>1. CASE Connect(n, m)
    <3> DEFINE Ends == [Nodes -> [Nodes -> {"None", "Open", "Connected", "Closed"}]]
               half == [conn_status EXCEPT ![n][m] = "Open"]
    <3>1. /\ half \in Ends
          /\ \A k, l \in Nodes :
                half[k][l] = IF k = n /\ l = m THEN "Open" ELSE conn_status[k][l]
      BY <1>1 DEF RelayInv, LinksOK
    <3>2. conn_status' = [half EXCEPT ![m][n] = "Open"]
      BY <2>1 DEF Connect
    <3> HIDE DEF half
    <3>3. \A k, l \in Nodes :
             conn_status'[k][l] = IF (k = n /\ l = m) \/ (k = m /\ l = n) THEN "Open"
                                  ELSE conn_status[k][l]
      BY <1>1, <3>1, <3>2
    <3>4. conn_status' \in [Nodes -> [Nodes -> {"None", "Open", "Connected", "Closed"}]]
      BY <1>1, <3>1, <3>2
    <3>5. EndsOK'
      BY <1>1, <3>3 DEF RelayInv, LinksOK, EndsOK
    <3>6. LinesOK'
      BY <1>2, <3>3 DEF RelayInv, LinksOK, LinesOK
    <3> QED
      BY <3>4, <3>5, <3>6 DEF LinksOK
  <2>2. CASE Verack(n, m)
    <3>1. \A k, l \in Nodes :
             conn_status'[k][l] = IF k = n /\ l = m THEN "Connected" ELSE conn_status[k][l]
      BY <1>1, <2>2 DEF Verack, RelayInv, LinksOK
    <3>2. conn_status' \in [Nodes -> [Nodes -> {"None", "Open", "Connected", "Closed"}]]
      BY <1>1, <2>2 DEF Verack, RelayInv, LinksOK
    <3>3. conn_status[m][n] # "Closed"
      BY <1>1, <2>2 DEF Verack, RelayInv, LinksOK, EndsOK
    <3>4. EndsOK'
      BY <1>1, <3>1, <3>3 DEF RelayInv, LinksOK, EndsOK
    <3>5. LinesOK'
      BY <1>2, <3>1 DEF RelayInv, LinksOK, LinesOK
    <3> QED
      BY <3>2, <3>4, <3>5 DEF LinksOK
  <2> QED
    BY <2>1, <2>2
<1>4. PoolsOK' /\ ListsOK' /\ ChainOK'
  BY <1>2 DEF RelayInv, PoolsOK, ListsOK, ChainOK, chainVars
<1> QED
  BY <1>3, <1>4 DEF RelayInv

LEMMA NextFacts == RelayInv /\ [Next]_vars => RelayInv'
<1> SUFFICES ASSUME RelayInv, [Next]_vars PROVE RelayInv'
  OBVIOUS
<1>1. ASSUME NEW n \in Nodes, TxDownload(n) \/ FinishSync(n)
      PROVE  RelayInv'
  BY <1>1, TxDownloadStep, FinishSyncStep
<1>2. ASSUME NEW n \in Nodes, NEW m \in Others(n),
             Handle(n, m) \/ Break(n, m) \/ Connect(n, m) \/ Verack(n, m)
      PROVE  RelayInv'
  BY <1>2, TxStep, InvStep, GetDataStep, StopStep, OpenStep DEF Handle
<1>3. ASSUME NEW n \in Nodes, NEW t \in Txs,
             HearTx(n, t) \/ SendRawTransaction(n, t) \/ Confirm(n, t) \/ Unconfirm(n, t)
      PROVE  RelayInv'
  BY <1>3, HearTxStep, SendRawTransactionStep, ConfirmStep, UnconfirmStep
<1>4. CASE UNCHANGED vars
  BY <1>4 DEF vars, chainVars, RelayInv, PoolsOK, LinksOK, EndsOK, LinesOK, ListsOK, ChainOK
<1> QED
  BY <1>1, <1>2, <1>3, <1>4, Zenon DEF Next
-----------------------------------------------------------------------------

(* The two ends of a connection close and open together, whoever stops it  *)
(* and whatever was under way; the mempools stay in order.                 *)
THEOREM Invariance == Spec => []RelayInv
BY InitFacts, NextFacts, PTL DEF Spec

(* Only transactions of the ledger are held, announced, asked for or sent, *)
(* no message is empty, and nothing is under way over a closed connection. *)
THEOREM TypeCorrect == Spec => []TypeOK
<1>1. RelayInv => TypeOK
  BY RelayInvImplies
<1> QED
  BY <1>1, Invariance, PTL

(* The indexes and counters of a mempool agree after any sequence of       *)
(* add_tx and remove_tx, from peers, from RPC and from update_chain, with  *)
(* any number of witnesses for a txid and any sizes.                       *)
THEOREM MempoolsAreConsistent == Spec => []MempoolConsistent
<1>1. RelayInv => MempoolConsistent
  BY RelayInvImplies
<1> QED
  BY <1>1, Invariance, PTL
=============================================================================
