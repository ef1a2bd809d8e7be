-------------------------- MODULE BlockTreeLemmas ---------------------------
(***************************************************************************)
(* Facts about branches and forks, for every tree of blocks.               *)
(***************************************************************************)
EXTENDS BlockTree, SequenceTheorems, WellFoundedInduction, TLAPS

(* A non-empty set of numbers has a least element. *)
LEMMA MinExists ==
    ASSUME NEW S \in SUBSET Nat, S # {}
    PROVE  \E m \in S : \A i \in S : m <= i
<1>1. PICK m \in S : \A i \in S : ~ (<<i, m>> \in OpToRel(<, Nat))
  BY WFMin, NatLessThanWellFounded
<1>2. \A i \in S : ~ (i < m)
  BY <1>1 DEF OpToRel
<1> QED
  BY <1>2

(* A non-empty bounded set of numbers has a greatest element. *)
LEMMA MaxExists ==
    ASSUME NEW n \in Nat, NEW S \in SUBSET (0 .. n), S # {}
    PROVE  \E m \in S : \A i \in S : i <= m
<1> DEFINE T == {n - i : i \in S}
<1>1. T \in SUBSET Nat /\ T # {}
  <2>1. \A i \in S : n - i \in Nat
    OBVIOUS
  <2> QED
    BY <2>1, Zenon
<1>2. PICK t \in T : \A u \in T : t <= u
  BY <1>1, MinExists
<1>3. PICK m \in S : t = n - m
  BY <1>2, Zenon
<1>4. \A i \in S : n - m <= n - i
  BY <1>2, <1>3, Zenon
<1>5. \A i \in S : i <= m
  BY <1>4
<1> QED
  BY <1>5
(* Induction over the numbers up to n, for a set of them. *)
LEMMA SetInduction ==
    ASSUME NEW n \in Nat, NEW S, 0 \in S,
           \A i \in 0 .. n - 1 : i \in S => i + 1 \in S
    PROVE  0 .. n \subseteq S
<1> DEFINE out == {i \in 0 .. n : i \notin S}
<1>1. SUFFICES ASSUME out # {} PROVE FALSE
  OBVIOUS
<1>2. out \in SUBSET Nat
  OBVIOUS
<1>3. PICK m \in out : \A i \in out : m <= i
  BY <1>1, <1>2, MinExists
<1>4. m \in 1 .. n /\ m \notin S
  BY <1>3
<1>5. m - 1 \in 0 .. n - 1 /\ m - 1 \in 0 .. n /\ (m - 1) + 1 = m /\ ~ (m <= m - 1)
  BY <1>4
<1>6. m - 1 \in S
  BY <1>3, <1>5
<1> QED
  BY <1>4, <1>5, <1>6
-----------------------------------------------------------------------------

(* The branch to b, and each block on it. *)
LEMMA PathFacts ==
    ASSUME NEW b \in Blocks
    PROVE  /\ Path[b] \in Seq(Blocks)
           /\ Len(Path[b]) \in Nat \ {0}
           /\ Path[b][1] = Genesis
           /\ Path[b][Len(Path[b])] = b
           /\ IsBranch(Path[b])
           /\ \A i \in 1 .. Len(Path[b]) :
                 /\ Path[b][i] \in Blocks
                 /\ Path[Path[b][i]] = SubSeq(Path[b], 1, i)
<1>1. Path[b] \in Seq(Blocks) /\ Len(Path[b]) > 0 /\ Tip(Path[b]) = b
  BY PathAssumption
<1>2. Len(Path[b]) \in Nat \ {0}
  BY <1>1, LenProperties
<1>3. \A i \in 1 .. Len(Path[b]) : Path[b][i] \in Blocks
  BY <1>1, ElementOfSeq
<1> QED
  BY <1>1, <1>2, <1>3, PathAssumption DEF Tip, IsBranch

(* An ancestor's branch has the ancestor's position as its length. *)
LEMMA PrefixFacts ==
    ASSUME NEW b \in Blocks, NEW i \in 1 .. Len(Path[b])
    PROVE  /\ Len(Path[Path[b][i]]) = i
           /\ Height(Path[b][i]) = i - 1
           /\ \A j \in 1 .. i : Path[Path[b][i]][j] = Path[b][j]
<1>1. /\ Path[b] \in Seq(Blocks)
      /\ Len(Path[b]) \in Nat
      /\ \A j \in 1 .. Len(Path[b]) : Path[b][j] \in Blocks
      /\ Path[Path[b][i]] = SubSeq(Path[b], 1, i)
  BY PathFacts
<1>2. /\ Len(SubSeq(Path[b], 1, i)) = i
      /\ \A j \in 1 .. i : SubSeq(Path[b], 1, i)[j] = Path[b][j]
  <2>1. \A j \in 1 .. i : Path[b][j] \in Blocks
    BY <1>1
  <2> QED
    BY <2>1, <1>1, SubSeqProperties
<1> QED
  BY <1>1, <1>2 DEF Height

(* The parent of a block is on its branch, one step below it. *)
LEMMA ParentFacts ==
    ASSUME NEW b \in Blocks \ {Genesis}
    PROVE  /\ Len(Path[b]) > 1
           /\ Parent(b) \in Blocks
           /\ Len(Path[Parent(b)]) = Len(Path[b]) - 1
           /\ Path[b] = Append(Path[Parent(b)], b)
<1>1. Len(Path[b]) \in Nat \ {0} /\ Path[b][1] = Genesis /\ Path[b][Len(Path[b])] = b
  BY PathFacts
<1>2. Len(Path[b]) > 1
  BY <1>1
<1>3. Len(Path[b]) - 1 \in 1 .. Len(Path[b])
  BY <1>1, <1>2
<1>4. Parent(b) \in Blocks /\ Path[Parent(b)] \in Seq(Blocks)
  BY <1>3, PathFacts DEF Parent
<1>5. /\ Len(Path[Parent(b)]) = Len(Path[b]) - 1
      /\ \A j \in 1 .. Len(Path[b]) - 1 : Path[Parent(b)][j] = Path[b][j]
  BY <1>3, PrefixFacts DEF Parent
<1>6. /\ Append(Path[Parent(b)], b) \in Seq(Blocks)
      /\ Len(Append(Path[Parent(b)], b)) = Len(Path[b])
      /\ \A j \in 1 .. Len(Path[b]) - 1 : Append(Path[Parent(b)], b)[j] = Path[b][j]
      /\ Append(Path[Parent(b)], b)[Len(Path[b])] = b
  BY <1>1, <1>4, <1>5, AppendProperties
<1>7. \A j \in 1 .. Len(Path[b]) : Path[b][j] = Append(Path[Parent(b)], b)[j]
  BY <1>1, <1>6
<1>8. Path[b] = Append(Path[Parent(b)], b)
  BY <1>1, <1>6, <1>7, PathFacts, SeqEqual
<1> QED
  BY <1>2, <1>4, <1>5, <1>8

(* Work grows along a branch. *)
LEMMA WorkGrows ==
    ASSUME NEW b \in Blocks, NEW i \in 1 .. Len(Path[b]),
           NEW j \in 1 .. Len(Path[b]), i < j
    PROVE  Work[Path[b][i]] < Work[Path[b][j]]
<1> DEFINE bad == {k \in i + 1 .. Len(Path[b]) : ~ (Work[Path[b][i]] < Work[Path[b][k]])}
<1>1. Len(Path[b]) \in Nat /\ \A k \in 1 .. Len(Path[b]) : Path[b][k] \in Blocks
  BY PathFacts
<1>2. \A k \in 1 .. Len(Path[b]) : Work[Path[b][k]] \in Nat
  BY <1>1, WorkAssumption
<1>3. \A k \in 2 .. Len(Path[b]) : Work[Path[b][k - 1]] < Work[Path[b][k]]
  <2> TAKE k \in 2 .. Len(Path[b])
  <2>1. k \in 1 .. Len(Path[b]) /\ k - 1 \in 1 .. k
    BY <1>1
  <2>2. Path[b][k] \in Blocks /\ Len(Path[Path[b][k]]) = k
    BY <1>1, <2>1, PrefixFacts
  <2>3. Len(Path[Genesis]) = 1
    BY PathAssumption
  <2>6. k # 1
    BY <1>1
  <2>4. Path[b][k] # Genesis
    BY <2>6, <2>2, <2>3, Zenon
  <2>5. Parent(Path[b][k]) = Path[b][k - 1]
    BY <2>1, <2>2, PrefixFacts DEF Parent
  <2> QED
    BY <2>2, <2>4, <2>5, WorkAssumption
<1>4. ASSUME bad # {} PROVE FALSE
  <2>1. bad \in SUBSET Nat
    BY <1>1
  <2>2. PICK k \in bad : \A m \in bad : k <= m
    BY <1>4, <2>1, MinExists
  <2>3. k \in 2 .. Len(Path[b]) /\ k - 1 \in 1 .. Len(Path[b]) /\ k \in 1 .. Len(Path[b])
    BY <1>1, <2>2
  <2>4. ~ (Work[Path[b][i]] < Work[Path[b][k]])
    BY <2>2
  <2>5. CASE k - 1 = i
    BY <1>3, <2>3, <2>4, <2>5
  <2>6. CASE k - 1 # i
    <3>1. k - 1 \in i + 1 .. Len(Path[b]) /\ ~ (k <= k - 1)
      BY <1>1, <2>2, <2>6
    <3>2. Work[Path[b][i]] < Work[Path[b][k - 1]]
      BY <2>2, <3>1
    <3> QED
      BY <1>2, <1>3, <2>3, <2>4, <3>2
  <2> QED
    BY <2>5, <2>6
<1>5. j \in i + 1 .. Len(Path[b])
  BY <1>1
<1> QED
  BY <1>4, <1>5
-----------------------------------------------------------------------------

(* The walk of get_fork_details stops, at the end of the common part. *)
LEMMA CommonFacts ==
    ASSUME NEW h \in Blocks \ {Genesis}, NEW c \in Seq(Blocks), IsBranch(c)
    PROVE  /\ CommonLen(h, c) \in 1 .. Height(h)
           /\ CommonLen(h, c) \in 1 .. Len(c)
           /\ \A i \in 1 .. CommonLen(h, c) : Path[h][i] = c[i]
           /\ \A i \in 1 .. Height(h) :
                 i <= Len(c) /\ Path[h][i] = c[i] => i <= CommonLen(h, c)
<1> DEFINE P == CommonPositions(h, c)
           k == CommonLen(h, c)
<1>1. /\ Len(Path[h]) \in Nat \ {0, 1}
      /\ Path[h] \in Seq(Blocks)
      /\ Path[h][1] = Genesis
  BY PathFacts, ParentFacts
<1>2. /\ Len(c) \in Nat \ {0}
      /\ Tip(c) \in Blocks
      /\ c = Path[Tip(c)]
      /\ c[1] = Genesis
  <2>1. Len(c) \in Nat \ {0}
    BY LenProperties DEF IsBranch
  <2>2. Tip(c) \in Blocks
    BY <2>1, ElementOfSeq DEF Tip
  <2> QED
    BY <2>1, <2>2, PathFacts DEF IsBranch
<1>3. Height(h) \in Nat \ {0} /\ 1 \in P
  <2>1. Height(h) \in Nat \ {0}
    BY <1>1 DEF Height
  <2>2. 1 \in 1 .. Height(h) /\ 1 <= Len(c)
    BY <1>2, <2>1
  <2>3. Path[h][1] = c[1]
    BY <1>1, <1>2
  <2> QED
    BY <2>1, <2>2, <2>3, Zenon DEF CommonPositions
<1>4. P \in SUBSET (0 .. Height(h))
  BY <1>3 DEF CommonPositions
<1>5. \E m \in P : \A i \in P : i <= m
  BY <1>3, <1>4, MaxExists
<1>6. k \in P /\ \A i \in P : i <= k
  BY <1>5 DEF CommonLen
<1>7. k \in 1 .. Height(h) /\ k <= Len(c) /\ Path[h][k] = c[k]
  BY <1>6 DEF CommonPositions
<1>8. k \in 1 .. Len(c) /\ k \in 1 .. Len(Path[h])
  BY <1>1, <1>2, <1>3, <1>7 DEF Height
<1>9. \A i \in 1 .. k : Path[h][i] = c[i]
  <2>1. \A i \in 1 .. k : Path[Path[h][k]][i] = Path[h][i]
    BY <1>8, PrefixFacts
  <2>2. \A i \in 1 .. k : Path[c[k]][i] = c[i]
    BY <1>2, <1>8, PrefixFacts
  <2> QED
    BY <1>7, <2>1, <2>2
<1> QED
  BY <1>6, <1>7, <1>8, <1>9 DEF CommonPositions

(* Keeping the common part and adding the fork gives the branch to h. *)
LEMMA ForkFacts ==
    ASSUME NEW h \in Blocks \ {Genesis}, NEW c \in Seq(Blocks), IsBranch(c)
    PROVE  /\ ForkAdd(h, c) \in Seq(Blocks)
           /\ ForkRemove(h, c) \in Seq(Blocks)
           /\ Len(ForkRemove(h, c)) = Len(c) - CommonLen(h, c)
           /\ Len(ForkAdd(h, c)) = Len(Path[h]) - CommonLen(h, c)
           /\ SubSeq(c, 1, CommonLen(h, c)) \o ForkAdd(h, c) = Path[h]
<1> DEFINE k == CommonLen(h, c)
           n == Len(Path[h])
<1>1. /\ k \in 1 .. Len(c) /\ k \in 1 .. n - 1
      /\ \A i \in 1 .. k : Path[h][i] = c[i]
  BY CommonFacts DEF Height
<1>2. /\ n \in Nat /\ Path[h] \in Seq(Blocks)
      /\ \A i \in 1 .. n : Path[h][i] \in Blocks
  BY PathFacts
<1>3. Len(c) \in Nat /\ \A i \in 1 .. Len(c) : c[i] \in Blocks
  BY LenProperties, ElementOfSeq
<1> HIDE DEF k, n
<1>4. /\ SubSeq(Path[h], k + 1, n) \in Seq(Blocks)
      /\ Len(SubSeq(Path[h], k + 1, n)) = n - k
      /\ \A i \in 1 .. n - k : SubSeq(Path[h], k + 1, n)[i] = Path[h][k + i]
  <2>1. \A i \in k + 1 .. n : Path[h][i] \in Blocks
    BY <1>1, <1>2
  <2> QED
    BY <2>1, <1>1, <1>2, SubSeqProperties
<1>5. /\ SubSeq(c, k + 1, Len(c)) \in Seq(Blocks)
      /\ Len(SubSeq(c, k + 1, Len(c))) = Len(c) - k
  <2>1. \A i \in k + 1 .. Len(c) : c[i] \in Blocks
    BY <1>1, <1>3
  <2> QED
    BY <2>1, <1>1, <1>3, SubSeqProperties
<1>6. /\ SubSeq(c, 1, k) \in Seq(Blocks)
      /\ Len(SubSeq(c, 1, k)) = k
      /\ \A i \in 1 .. k : SubSeq(c, 1, k)[i] = c[i]
  <2>1. \A i \in 1 .. k : c[i] \in Blocks
    BY <1>1, <1>3
  <2> QED
    BY <2>1, <1>1, <1>3, SubSeqProperties
<1> DEFINE s == SubSeq(c, 1, k) \o SubSeq(Path[h], k + 1, n)
<1>7. s \in Seq(Blocks) /\ Len(s) = n
  BY <1>1, <1>2, <1>4, <1>6, ConcatProperties
<1>8. \A i \in 1 .. n : s[i] = Path[h][i]
  <2> TAKE i \in 1 .. n
  <2>1. CASE i <= k
    BY <2>1, <1>1, <1>4, <1>6, ConcatProperties
  <2>2. CASE i > k
    <3>1. i - k \in 1 .. n - k /\ k + (i - k) = i
      BY <2>2, <1>1, <1>2
    <3>2. s[i] = SubSeq(Path[h], k + 1, n)[i - k]
      BY <2>2, <1>1, <1>2, <1>4, <1>6, ConcatProperties
    <3> QED
      BY <1>4, <3>1, <3>2
  <2> QED
    BY <1>1, <1>2, <2>1, <2>2
<1>9. s = Path[h]
  BY <1>2, <1>7, <1>8, SeqEqual DEF n
<1> QED
  BY <1>4, <1>5, <1>9 DEF ForkAdd, ForkRemove, k, n

(* The tip of a branch, and its blocks. *)
LEMMA TipFacts ==
    ASSUME NEW c \in Seq(Blocks), IsBranch(c)
    PROVE  /\ Len(c) \in Nat \ {0}
           /\ Tip(c) \in Blocks
           /\ c = Path[Tip(c)]
           /\ Genesis \in Elems(c)
           /\ Tip(c) \in Elems(c)
           /\ Elems(c) \subseteq Blocks
<1>1. Len(c) \in Nat \ {0}
  BY LenProperties DEF IsBranch
<1>2. \A i \in 1 .. Len(c) : c[i] \in Blocks
  BY ElementOfSeq
<1>3. Tip(c) \in Blocks /\ Tip(c) \in Elems(c) /\ Elems(c) \subseteq Blocks
  BY <1>1, <1>2 DEF Tip, Elems
<1>4. c = Path[Tip(c)]
  BY DEF IsBranch
<1>5. c[1] = Genesis
  BY <1>3, <1>4, PathFacts
<1>6. Genesis \in Elems(c)
  BY <1>1, <1>5 DEF Elems
<1> QED
  BY <1>1, <1>3, <1>4, <1>6

(* The blocks of a branch are as many as its length: no one occurs twice.  *)
LEMMA NoRepetition ==
    ASSUME NEW b \in Blocks, NEW i \in 1 .. Len(Path[b]), NEW j \in 1 .. Len(Path[b]),
           Path[b][i] = Path[b][j]
    PROVE  i = j
<1>1. Height(Path[b][i]) = i - 1 /\ Height(Path[b][j]) = j - 1
  BY PrefixFacts
<1>2. Len(Path[b]) \in Nat
  BY PathFacts
<1> QED
  BY <1>1, <1>2

(* A branch heavier than c, seen from c: what get_fork_details finds, where *)
(* its blocks stand, and that those to add are not on c.                   *)
LEMMA HeavierForkFacts ==
    ASSUME NEW b \in Blocks, NEW c \in Seq(Blocks), IsBranch(c), Work[b] > Work[Tip(c)]
    PROVE  LET k      == CommonLen(b, c)
               add    == ForkAdd(b, c)
               remove == ForkRemove(b, c)
           IN  /\ b # Genesis
               /\ k \in 1 .. Len(Path[b]) - 1 /\ k \in 1 .. Len(c)
               /\ \A i \in 1 .. k : Path[b][i] = c[i]
               /\ add \in Seq(Blocks) /\ remove \in Seq(Blocks)
               /\ Len(add) = Len(Path[b]) - k /\ Len(remove) = Len(c) - k
               /\ \A i \in 1 .. Len(add) : add[i] = Path[b][k + i]
               /\ \A i \in 1 .. Len(remove) : remove[i] = c[k + i]
               /\ Tip(add) = b
               /\ SubSeq(c, 1, Len(c) - Len(remove)) \o add = Path[b]
               /\ Elems(Path[b]) = (Elems(c) \ Elems(remove)) \cup Elems(add)
               /\ Elems(remove) \subseteq Elems(c)
               /\ Elems(remove) \cap Elems(add) = {}
               /\ Elems(c) \cap Elems(add) = {}
<1> DEFINE k == CommonLen(b, c)
           add == ForkAdd(b, c)
           remove == ForkRemove(b, c)
           n == Len(Path[b])
<1>1. Len(c) \in Nat /\ c = Path[Tip(c)] /\ Tip(c) \in Blocks
  BY TipFacts
<1>2. b # Genesis
  <2>1. CASE Tip(c) = Genesis
    BY <2>1, <1>1, WorkAssumption
  <2>2. CASE Tip(c) # Genesis
    <3>1. Len(Path[Tip(c)]) > 1 /\ Path[Tip(c)][1] = Genesis /\ Path[Tip(c)][Len(Path[Tip(c)])] = Tip(c)
      BY <1>1, <2>2, PathFacts, ParentFacts
    <3>2. Work[Genesis] < Work[Tip(c)]
      <4>1. 1 \in 1 .. Len(Path[Tip(c)]) /\ Len(c) \in 1 .. Len(Path[Tip(c)]) /\ 1 < Len(c)
        BY <1>1, <3>1
      <4> QED
        BY <1>1, <3>1, <4>1, WorkGrows
    <3> QED
      BY <1>1, <3>2, WorkAssumption, PathAssumption
  <2> QED
    BY <2>1, <2>2
<1>3. /\ k \in 1 .. n - 1 /\ k \in 1 .. Len(c)
      /\ \A i \in 1 .. k : Path[b][i] = c[i]
  BY <1>1, <1>2, CommonFacts DEF Height
<1>4. n \in Nat /\ \A i \in 1 .. n : Path[b][i] \in Blocks
  BY <1>1, PathFacts
<1>5. /\ add \in Seq(Blocks) /\ remove \in Seq(Blocks)
      /\ Len(remove) = Len(c) - k
      /\ Len(add) = n - k
      /\ SubSeq(c, 1, k) \o add = Path[b]
  BY <1>1, <1>2, ForkFacts
<1>6. SubSeq(c, 1, Len(c) - Len(remove)) \o add = Path[b]
  <2>1. Len(c) - Len(remove) = k
    BY <1>1, <1>3, <1>5
  <2> QED
    BY <1>5, <2>1
<1>7. \A i \in 1 .. n - k : add[i] = Path[b][k + i]
  <2>1. \A i \in k + 1 .. n : Path[b][i] \in Blocks
    BY <1>3, <1>4
  <2>2. \A i \in 1 .. n - (k + 1) + 1 :
            SubSeq(Path[b], k + 1, n)[i] = Path[b][(k + 1) + i - 1]
    BY <1>3, <1>4, <2>1, SubSeqProperties
  <2> QED
    BY <1>3, <1>4, <2>2 DEF ForkAdd
<1>8. \A i \in 1 .. Len(c) - k : remove[i] = c[k + i]
  <2>1. \A i \in k + 1 .. Len(c) : c[i] \in Blocks
    BY <1>1, <1>3, ElementOfSeq
  <2>2. \A i \in 1 .. Len(c) - (k + 1) + 1 :
            SubSeq(c, k + 1, Len(c))[i] = c[(k + 1) + i - 1]
    BY <1>1, <1>3, <2>1, SubSeqProperties
  <2> QED
    BY <1>1, <1>3, <2>2 DEF ForkRemove
<1> HIDE DEF k, n, add, remove
<1>9. Elems(add) = {Path[b][i] : i \in k + 1 .. n}
  <2>1. Elems(add) = {add[i] : i \in 1 .. n - k}
    BY <1>5 DEF Elems
  <2>2. \A i \in 1 .. n - k : k + i \in k + 1 .. n /\ add[i] = Path[b][k + i]
    BY <1>3, <1>4, <1>7
  <2>3. \A j \in k + 1 .. n : j - k \in 1 .. n - k /\ add[j - k] = Path[b][j]
    BY <1>3, <1>4, <1>7
  <2> QED
    BY <2>1, <2>2, <2>3
<1>10. Elems(remove) = {c[i] : i \in k + 1 .. Len(c)}
  <2>1. Elems(remove) = {remove[i] : i \in 1 .. Len(c) - k}
    BY <1>5 DEF Elems
  <2>2. \A i \in 1 .. Len(c) - k : k + i \in k + 1 .. Len(c) /\ remove[i] = c[k + i]
    BY <1>1, <1>3, <1>8
  <2>3. \A j \in k + 1 .. Len(c) : j - k \in 1 .. Len(c) - k /\ remove[j - k] = c[j]
    BY <1>1, <1>3, <1>8
  <2> QED
    BY <2>1, <2>2, <2>3
<1>11. Elems(c) = {c[i] : i \in 1 .. k} \cup Elems(remove)
  <2>1. 1 .. Len(c) = (1 .. k) \cup (k + 1 .. Len(c))
    BY <1>1, <1>3
  <2>2. Elems(c) = {c[i] : i \in (1 .. k) \cup (k + 1 .. Len(c))}
    BY <2>1 DEF Elems
  <2> QED
    BY <1>10, <2>2
<1>12. Elems(Path[b]) = {c[i] : i \in 1 .. k} \cup Elems(add)
  <2>1. 1 .. n = (1 .. k) \cup (k + 1 .. n)
    BY <1>3, <1>4
  <2>2. Elems(Path[b]) = {Path[b][i] : i \in (1 .. k) \cup (k + 1 .. n)}
    BY <2>1 DEF Elems, n
  <2>3. {Path[b][i] : i \in 1 .. k} = {c[i] : i \in 1 .. k}
    BY <1>3
  <2> QED
    BY <1>9, <2>2, <2>3
<1>13. {c[i] : i \in 1 .. k} \cap Elems(remove) = {}
  <2>1. \A i \in 1 .. k, j \in k + 1 .. Len(c) :
            /\ i \in 1 .. Len(Path[Tip(c)]) /\ j \in 1 .. Len(Path[Tip(c)])
            /\ i # j
    BY <1>1, <1>3
  <2>2. \A i \in 1 .. k, j \in k + 1 .. Len(c) : c[i] # c[j]
    BY <1>1, <2>1, NoRepetition
  <2> QED
    BY <1>10, <2>2
<1>14. Elems(remove) \cap Elems(add) = {}
  <2>1. SUFFICES ASSUME NEW i \in k + 1 .. Len(c), NEW j \in k + 1 .. n, c[i] = Path[b][j]
                 PROVE FALSE
    BY <1>9, <1>10
  <2>2. i \in 1 .. Len(Path[Tip(c)]) /\ j \in 1 .. Len(Path[b])
    BY <1>1, <1>3, <1>4 DEF n
  <2>3. Height(c[i]) = i - 1 /\ Height(Path[b][j]) = j - 1
    BY <1>1, <2>2, PrefixFacts
  <2>4. i = j
    BY <1>1, <1>3, <1>4, <2>1, <2>3
  <2>5. CASE j < n
    <3>1. \A m \in 1 .. Height(b) : m <= Len(c) /\ Path[b][m] = c[m] => m <= k
      BY <1>1, <1>2, CommonFacts DEF k
    <3>2. j \in 1 .. Height(b) /\ j <= Len(c) /\ ~ (j <= k)
      BY <1>1, <1>3, <1>4, <2>4, <2>5 DEF Height, n
    <3> QED
      BY <2>1, <2>4, <3>1, <3>2
  <2>6. CASE j = n
    <3>1. c[i] = b
      BY <1>1, <2>1, <2>6, PathFacts DEF n
    <3>2. Tip(c) = c[Len(c)]
      BY DEF Tip
    <3>3. Work[b] <= Work[Tip(c)]
      <4>1. CASE i = Len(c)
        BY <3>1, <3>2, <4>1, <1>1, WorkAssumption
      <4>2. CASE i # Len(c)
        <5>1. i < Len(c) /\ Len(c) \in 1 .. Len(Path[Tip(c)])
          BY <1>1, <1>3, <4>2
        <5>2. Work[c[i]] < Work[c[Len(c)]]
          BY <1>1, <2>2, <5>1, WorkGrows
        <5> QED
          BY <1>1, <3>1, <3>2, <5>2, WorkAssumption
      <4> QED
        BY <4>1, <4>2
    <3> QED
      BY <1>1, <3>3, WorkAssumption
  <2> QED
    BY <1>4, <2>5, <2>6
<1>15. Elems(Path[b]) = (Elems(c) \ Elems(remove)) \cup Elems(add)
  BY <1>11, <1>12, <1>13, Zenon
<1>16. Elems(remove) \subseteq Elems(c)
  BY <1>11
<1>17. {c[i] : i \in 1 .. k} \cap Elems(add) = {}
  <2>1. SUFFICES ASSUME NEW i \in 1 .. k, NEW j \in k + 1 .. n, Path[b][i] = Path[b][j]
                 PROVE FALSE
    BY <1>3, <1>9
  <2>2. i \in 1 .. Len(Path[b]) /\ j \in 1 .. Len(Path[b]) /\ i # j
    BY <1>3, <1>4 DEF n
  <2> QED
    BY <2>1, <2>2, NoRepetition
<1>18. Elems(c) \cap Elems(add) = {}
  BY <1>11, <1>14, <1>17
<1>19. Tip(add) = b
  <2>1. Len(add) \in 1 .. n - k /\ k + Len(add) = n
    BY <1>3, <1>4, <1>5
  <2>2. add[Len(add)] = Path[b][n]
    BY <1>7, <2>1
  <2> QED
    BY <2>2, PathFacts DEF Tip, n
<1>20. \A i \in 1 .. Len(add) : add[i] = Path[b][k + i]
  BY <1>5, <1>7
<1>21. \A i \in 1 .. Len(remove) : remove[i] = c[k + i]
  BY <1>5, <1>8
<1> QED
  BY <1>2, <1>3, <1>5, <1>6, <1>14, <1>15, <1>16, <1>18, <1>19, <1>20, <1>21
     DEF k, n, add, remove

(* The elements of a sequence after an append. *)
LEMMA ElemsAppend ==
    ASSUME NEW S, NEW c \in Seq(S), NEW e \in S
    PROVE  /\ Append(c, e) \in Seq(S)
           /\ Elems(Append(c, e)) = Elems(c) \cup {e}
           /\ Tip(Append(c, e)) = e
<1>1. /\ Append(c, e) \in Seq(S)
      /\ Len(c) \in Nat
      /\ Len(Append(c, e)) = Len(c) + 1
      /\ \A i \in 1 .. Len(c) : Append(c, e)[i] = c[i]
      /\ Append(c, e)[Len(c) + 1] = e
  BY AppendProperties, LenProperties
<1>2. 1 .. Len(Append(c, e)) = (1 .. Len(c)) \cup {Len(c) + 1}
  BY <1>1
<1>3. Elems(Append(c, e)) = {Append(c, e)[i] : i \in (1 .. Len(c)) \cup {Len(c) + 1}}
  BY <1>2 DEF Elems
<1>4. Elems(Append(c, e)) = {c[i] : i \in 1 .. Len(c)} \cup {e}
  BY <1>1, <1>3
<1> QED
  BY <1>1, <1>4 DEF Elems, Tip

(* A header index after one more header: no chain[:-0], and no less work.  *)
LEMMA HeaderIndexStep ==
    ASSUME NEW c \in Seq(Blocks), IsBranch(c),
           NEW h \in Blocks \ {Genesis},
           Work[Parent(h)] <= Work[Tip(c)]
    PROVE  /\ \/ ExtendHeaderIndex(c, h) = c
              \/ ExtendHeaderIndex(c, h) = Path[h]
           /\ ExtendHeaderIndex(c, h) \in Seq(Blocks)
           /\ IsBranch(ExtendHeaderIndex(c, h))
           /\ Work[h] <= Work[Tip(ExtendHeaderIndex(c, h))]
           /\ Work[Tip(c)] <= Work[Tip(ExtendHeaderIndex(c, h))]
<1> DEFINE k == CommonLen(h, c)
<1>1. /\ Len(c) \in Nat \ {0} /\ Tip(c) \in Blocks /\ c = Path[Tip(c)]
      /\ Work[Tip(c)] \in Nat /\ Work[h] \in Nat
      /\ Parent(h) \in Blocks /\ Work[Parent(h)] \in Nat /\ Work[Parent(h)] < Work[h]
  BY TipFacts, ParentFacts, WorkAssumption
<1>2. Path[h] \in Seq(Blocks) /\ IsBranch(Path[h]) /\ Tip(Path[h]) = h
  BY PathFacts DEF Tip
<1>3. CASE Parent(h) = Tip(c)
  <2>1. ExtendHeaderIndex(c, h) = Append(c, h)
    BY <1>3 DEF ExtendHeaderIndex
  <2>2. Append(c, h) = Path[h]
    BY <1>1, <1>3, ParentFacts
  <2> QED
    BY <1>1, <1>2, <1>3, <2>1, <2>2
<1>4. CASE Parent(h) # Tip(c) /\ Work[h] > Work[Tip(c)]
  <2>1. /\ k \in 1 .. Height(h) /\ k \in 1 .. Len(c)
        /\ \A i \in 1 .. k : Path[h][i] = c[i]
    BY CommonFacts
  <2>2. Len(Path[h]) \in Nat \ {0, 1} /\ Height(h) = Len(Path[h]) - 1
    BY PathFacts, ParentFacts DEF Height
  <2>3. k # Len(c)
    <3>1. SUFFICES ASSUME k = Len(c) PROVE FALSE
      OBVIOUS
    <3>2. Tip(c) = Path[h][k]
      BY <2>1, <3>1 DEF Tip
    <3>3. k # Height(h)
      BY <1>4, <2>2, <3>2 DEF Parent
    <3>4. Work[Path[h][k]] < Work[Parent(h)]
      <4>1. k \in 1 .. Len(Path[h]) /\ Height(h) \in 1 .. Len(Path[h]) /\ k < Height(h)
        BY <2>1, <2>2, <3>3
      <4>2. Parent(h) = Path[h][Height(h)]
        BY <2>2 DEF Parent
      <4> QED
        BY <4>1, <4>2, WorkGrows
    <3> QED
      BY <1>1, <3>2, <3>4
  <2>4. Len(ForkRemove(h, c)) = Len(c) - k
    BY ForkFacts
  <2>5. DropLast(c, Len(ForkRemove(h, c))) = SubSeq(c, 1, k)
    <3>1. Len(c) - k # 0 /\ Len(c) - (Len(c) - k) = k
      BY <1>1, <2>1, <2>3
    <3> QED
      BY <2>4, <3>1 DEF DropLast
  <2>6. ExtendHeaderIndex(c, h) = SubSeq(c, 1, k) \o ForkAdd(h, c)
    BY <1>4, <2>5 DEF ExtendHeaderIndex
  <2>7. ExtendHeaderIndex(c, h) = Path[h]
    BY <2>6, ForkFacts
  <2> QED
    BY <1>1, <1>2, <1>4, <2>7
<1>5. CASE Parent(h) # Tip(c) /\ ~ (Work[h] > Work[Tip(c)])
  <2>1. ExtendHeaderIndex(c, h) = c
    BY <1>5 DEF ExtendHeaderIndex
  <2> QED
    BY <1>1, <1>5, <2>1
<1> QED
  BY <1>3, <1>4, <1>5
=============================================================================
