-------------------------- MODULE HeaderSyncProofs --------------------------
(***************************************************************************)
(* An answer of headers never holds an orphan, for every tree of blocks,   *)
(* size of a message and number of dense locators.                         *)
(***************************************************************************)
EXTENDS HeaderSync, BlockTreeLemmas, FiniteSetTheorems

(* What a node knows: a set of headers closed under parents, and its best  *)
(* branch.  The fork to a heavier header is cut out correctly only because *)
(* the index is the best branch of what is known.                          *)
Sound(headers, index) ==
    /\ headers \subseteq Blocks
    /\ index \in Seq(Blocks)
    /\ IsBranch(index)
    /\ Elems(index) \subseteq headers
    /\ \A h \in headers : Elems(Path[h]) \subseteq headers /\ Work[h] <= Work[Tip(index)]

Linked(headers) == \A i \in 2 .. Len(headers) : Parent(headers[i]) = headers[i - 1]

(* A message to n, the nodes having heard of these headers: a request      *)
(* names headers the node that asks knows, so that an answer extends one   *)
(* of them.                                                                *)
Carried(n, m, heard) ==
    /\ m.type = "headers" => Parent(m.blocks[1]) \in heard[n] /\ Linked(m.blocks)
    /\ m.type = "getheaders" => Elems(m.blocks) \subseteq heard[Other(n)]

NodesOK == \A n \in Nodes : Sound(known[n], header_index[n])

WireOK == \A n \in Nodes : \A i \in 1 .. Len(wire[n]) : Carried(n, wire[n][i], known)

Inv ==
    /\ TypeOK
    /\ NodesOK
    /\ WireOK
-----------------------------------------------------------------------------

(* Each node is the other of the other. *)
LEMMA OtherFacts ==
    ASSUME NEW n \in Nodes
    PROVE  /\ Other(n) \in Nodes \ {n}
           /\ Other(Other(n)) = n
           /\ Nodes = {n, Other(n)}
<1>1. IsFiniteSet(Nodes) /\ Cardinality(Nodes) = 2
  BY HeaderSyncAssumption
<1>2. IsFiniteSet(Nodes \ {n}) /\ Cardinality(Nodes \ {n}) = 1
  BY <1>1, FS_RemoveElement
<1>3. PICK m : Nodes \ {n} = {m}
  BY <1>2, FS_Singleton
<1>4. Other(n) = m
  BY <1>3 DEF Other
<1>5. Other(m) = n
  BY <1>3 DEF Other
<1> QED
  BY <1>3, <1>4, <1>5

(* Powers of two, as the numbers of subsets. *)
LEMMA PowerFacts ==
    ASSUME NEW m \in Nat, NEW n \in Nat, m <= n
    PROVE  /\ 2^m \in Nat /\ 2^n \in Nat
           /\ 2^m <= 2^n
           /\ m > 0 => 2 <= 2^m
<1>1. /\ IsFiniteSet(1 .. m) /\ Cardinality(1 .. m) = m
      /\ IsFiniteSet(1 .. n) /\ Cardinality(1 .. n) = n
  BY FS_Interval
<1>2. /\ IsFiniteSet(SUBSET (1 .. m)) /\ Cardinality(SUBSET (1 .. m)) = 2^m
      /\ IsFiniteSet(SUBSET (1 .. n)) /\ Cardinality(SUBSET (1 .. n)) = 2^n
  <2>1. \A S : IsFiniteSet(S) =>
            IsFiniteSet(SUBSET S) /\ Cardinality(SUBSET S) = 2^Cardinality(S)
    BY FS_SUBSET
  <2> QED
    BY <1>1, <2>1
<1>3. 2^m \in Nat /\ 2^n \in Nat
  BY <1>2, FS_CardinalityType
<1>4. 2^m <= 2^n
  <2>1. SUBSET (1 .. m) \subseteq SUBSET (1 .. n)
    OBVIOUS
  <2> QED
    BY <1>2, <2>1, FS_Subset
<1>5. ASSUME m > 0 PROVE 2 <= 2^m
  <2> DEFINE two == {{}, {1}}
  <2>1. two \in SUBSET SUBSET (1 .. m)
    BY <1>5
  <2>2. IsFiniteSet(two) /\ Cardinality(two) <= 2^m
    BY <1>2, <2>1, FS_Subset
  <2>3. two \ {{}} = {{1}} /\ {} \in two
    OBVIOUS
  <2>4. Cardinality(two \ {{}}) = 1
    BY <2>3, FS_Singleton
  <2>5. Cardinality(two \ {{}}) = Cardinality(two) - 1
    BY <2>2, <2>3, FS_RemoveElement
  <2>6. Cardinality(two) \in Nat
    BY <2>2, FS_CardinalityType
  <2> QED
    BY <2>2, <2>4, <2>5, <2>6, <1>3
<1> QED
  BY <1>3, <1>4, <1>5

(* The distances from the tip at which locators stand grow. *)
LEMMA LocatorFacts ==
    ASSUME NEW k \in Nat, NEW j \in Nat, j <= k
    PROVE  /\ LocatorAt(k) \in Nat
           /\ LocatorAt(j) <= LocatorAt(k)
           /\ k > 0 => LocatorAt(k) > 0
<1>1. Dense \in Nat \ {0}
  BY HeaderSyncAssumption
<1>2. \A i \in Nat : i <= Dense => LocatorAt(i) = i
  BY <1>1 DEF LocatorAt
<1>3. ASSUME NEW i \in Nat, i > Dense
      PROVE  LocatorAt(i) = Dense + 2^(i - Dense + 1) - 2 /\ i - Dense + 1 \in Nat \ {0}
  BY <1>1, <1>3 DEF LocatorAt
<1>4. CASE k <= Dense
  BY <1>1, <1>2, <1>4
<1>5. CASE k > Dense /\ j <= Dense
  <2>1. 2 <= 2^(k - Dense + 1) /\ 2^(k - Dense + 1) \in Nat
    BY <1>1, <1>3, <1>5, PowerFacts
  <2> QED
    BY <1>1, <1>2, <1>3, <1>5, <2>1
<1>6. CASE j > Dense
  <2>1. k > Dense /\ j - Dense + 1 <= k - Dense + 1
    BY <1>1, <1>6
  <2>2. j - Dense + 1 \in Nat \ {0} /\ k - Dense + 1 \in Nat \ {0}
    BY <1>3, <1>6, <2>1
  <2>3. /\ 2^(j - Dense + 1) \in Nat /\ 2^(k - Dense + 1) \in Nat
        /\ 2^(j - Dense + 1) <= 2^(k - Dense + 1)
        /\ 2 <= 2^(j - Dense + 1)
    BY <2>1, <2>2, PowerFacts
  <2>4. LocatorAt(k) = Dense + 2^(k - Dense + 1) - 2 /\ LocatorAt(j) = Dense + 2^(j - Dense + 1) - 2
    BY <1>3, <1>6, <2>1
  <2> QED
    BY <1>1, <2>3, <2>4
<1> QED
  BY <1>1, <1>4, <1>5, <1>6

(* Locators are blocks of the chain, and there is one at least. *)
LEMMA BlockLocatorsFacts ==
    ASSUME NEW index \in Seq(Blocks), Len(index) > 0
    PROVE  /\ BlockLocators(index) \in Seq(Blocks) \ {<<>>}
           /\ Elems(BlockLocators(index)) \subseteq Elems(index)
<1> DEFINE L == Len(index)
           S == {k \in 1 .. L : LocatorAt(k) <= L}
           n == Cardinality(S)
           near == [k \in 1 .. n |-> index[L + 1 - LocatorAt(k)]]
           last == IF LocatorAt(n) = L THEN <<>> ELSE <<index[1]>>
<1>1. L \in Nat \ {0}
  BY LenProperties
<1>2. Elems(index) \subseteq Blocks /\ index[1] \in Elems(index)
  <2>1. \A i \in 1 .. L : index[i] \in Blocks
    BY ElementOfSeq
  <2> QED
    BY <1>1, <2>1 DEF Elems
<1>3. IsFiniteSet(S) /\ n \in Nat
  <2>1. IsFiniteSet(1 .. L) /\ S \in SUBSET (1 .. L)
    BY <1>1, FS_Interval
  <2> QED
    BY <2>1, FS_Subset, FS_CardinalityType
<1>4. \A k \in 1 .. n : LocatorAt(k) \in 1 .. L
  <2> SUFFICES ASSUME NEW k \in 1 .. n PROVE LocatorAt(k) \in 1 .. L
    OBVIOUS
  <2>1. k \in Nat /\ k > 0 /\ LocatorAt(k) \in Nat /\ LocatorAt(k) > 0
    BY <1>3, LocatorFacts
  <2>2. SUFFICES ASSUME LocatorAt(k) > L PROVE FALSE
    BY <1>1, <2>1
  <2>3. \A i \in S : i <= k - 1
    <3> SUFFICES ASSUME NEW i \in S, i >= k PROVE FALSE
      BY <1>1, <2>1
    <3>1. i \in Nat /\ LocatorAt(i) <= L
      BY <1>1
    <3>2. LocatorAt(k) <= LocatorAt(i) /\ LocatorAt(i) \in Nat
      BY <2>1, <3>1, LocatorFacts
    <3> QED
      BY <1>1, <2>1, <2>2, <3>1, <3>2
  <2>4. S \in SUBSET (1 .. k - 1)
    BY <1>1, <2>1, <2>3
  <2>5. IsFiniteSet(1 .. k - 1) /\ Cardinality(1 .. k - 1) = k - 1
    <3>1. 1 \in Int /\ k - 1 \in Int /\ (1 > k - 1 => k - 1 = 0) /\ (k - 1) - 1 + 1 = k - 1
      BY <2>1
    <3> QED
      BY <3>1, FS_Interval
  <2>6. n <= k - 1
    BY <2>4, <2>5, FS_Subset
  <2> QED
    BY <1>3, <2>1, <2>6
<1> HIDE DEF n, S
<1>5. \A k \in 1 .. n : near[k] \in Elems(index)
  <2>1. \A k \in 1 .. n : L + 1 - LocatorAt(k) \in 1 .. L
    BY <1>1, <1>4
  <2> QED
    BY <2>1 DEF Elems
<1>6. near \in Seq(Elems(index)) /\ Len(near) = n
  <2>1. near \in [1 .. n -> Elems(index)]
    BY <1>5
  <2> QED
    BY <1>3, <2>1, SeqDef, LenProperties
<1>7. last \in Seq(Elems(index)) /\ Len(last) \in Nat /\ (LocatorAt(n) # L => Len(last) = 1)
  BY <1>2
<1> HIDE DEF near, last, L
<1>8. /\ near \o last \in Seq(Elems(index))
      /\ Len(near \o last) = n + Len(last)
  BY <1>6, <1>7, ConcatProperties
<1>9. BlockLocators(index) = near \o last
  BY DEF BlockLocators, n, S, near, last, L
<1>10. near \o last # <<>>
  <2>1. CASE n = 0
    <3>1. LocatorAt(n) = 0
      BY <2>1, HeaderSyncAssumption DEF LocatorAt
    <3>2. Len(near \o last) # 0
      BY <1>1, <1>7, <1>8, <2>1, <3>1
    <3> QED
      BY <3>2, EmptySeq
  <2>2. CASE n # 0
    <3>1. Len(near \o last) # 0
      BY <1>3, <1>7, <1>8, <2>2
    <3> QED
      BY <3>1, EmptySeq
  <2> QED
    BY <2>1, <2>2
<1>11. near \o last \in Seq(Blocks)
  BY <1>2, <1>8, SeqMonotonic
<1>12. Elems(near \o last) \subseteq Elems(index)
  <2>1. \A i \in 1 .. Len(near \o last) : (near \o last)[i] \in Elems(index)
    BY <1>8, ElementOfSeq
  <2> QED
    BY <2>1 DEF Elems
<1> QED
  BY <1>9, <1>10, <1>11, <1>12

(* The first shared locator is where an answer starts from. *)
LEMMA StartFacts ==
    ASSUME NEW index \in Seq(Blocks), IsBranch(index),
           NEW locators \in Seq(Blocks), StartOf(index, locators) # 0
    PROVE  /\ StartOf(index, locators) \in 1 .. Len(index)
           /\ index[StartOf(index, locators)] \in Elems(locators)
<1> DEFINE I == {k \in 1 .. Len(locators) : locators[k] \in Elems(index)}
           i == IF I # {} THEN Min(I) ELSE 0
<1>1. StartOf(index, locators) = IF i = 0 THEN 0 ELSE Len(Path[locators[i]])
  BY DEF StartOf, SelectInSeq
<1>2. I # {} /\ i = Min(I)
  BY <1>1
<1>3. I \in SUBSET Nat
  OBVIOUS
<1>4. \E m \in I : \A k \in I : m <= k
  BY <1>2, <1>3, MinExists
<1>5. Min(I) \in I
  BY <1>4 DEF Min
<1>6. i \in 1 .. Len(locators) /\ locators[i] \in Elems(index)
  BY <1>2, <1>5
<1> HIDE DEF i, I
<1>7. PICK j \in 1 .. Len(index) : index[j] = locators[i]
  BY <1>6, Zenon DEF Elems
<1>8. Tip(index) \in Blocks /\ index = Path[Tip(index)]
  BY TipFacts
<1>9. Len(Path[index[j]]) = j
  BY <1>7, <1>8, PrefixFacts
<1>10. i # 0
  BY <1>6, LenProperties
<1>11. StartOf(index, locators) = j
  BY <1>1, <1>7, <1>9, <1>10
<1> QED
  BY <1>6, <1>7, <1>11, Zenon DEF Elems

(* On a branch each block but the first stands after its parent. *)
LEMMA BranchLinked ==
    ASSUME NEW index \in Seq(Blocks), IsBranch(index), NEW i \in 2 .. Len(index)
    PROVE  Parent(index[i]) = index[i - 1]
<1>1. Tip(index) \in Blocks /\ index = Path[Tip(index)] /\ Len(index) \in Nat
  BY TipFacts
<1>2. i \in 1 .. Len(index) /\ i - 1 \in 1 .. i
  BY <1>1
<1>3. /\ Len(Path[index[i]]) = i
      /\ \A j \in 1 .. i : Path[index[i]][j] = index[j]
  BY <1>1, <1>2, PrefixFacts
<1> QED
  BY <1>2, <1>3 DEF Parent

(* An answer that is not empty extends one of the locators. *)
LEMMA HeadersFromLocatorsFacts ==
    ASSUME NEW index \in Seq(Blocks), IsBranch(index),
           NEW locators \in Seq(Blocks), HeadersFromLocators(index, locators) # <<>>
    PROVE  LET headers == HeadersFromLocators(index, locators)
           IN  /\ headers \in Seq(Blocks) \ {<<>>}
               /\ Parent(headers[1]) \in Elems(locators)
               /\ Linked(headers)
<1> DEFINE start == StartOf(index, locators)
           bounds == {start + MaxHeaders, Len(index)}
           end == Min(bounds)
           headers == SubSeq(index, start + 1, end)
<1>1. HeadersFromLocators(index, locators) = headers /\ start # 0
  BY DEF HeadersFromLocators
<1>2. start \in 1 .. Len(index) /\ index[start] \in Elems(locators)
  BY <1>1, StartFacts
<1>3. Len(index) \in Nat /\ \A i \in 1 .. Len(index) : index[i] \in Blocks
  BY LenProperties, ElementOfSeq
<1>4. end \in Nat /\ end <= Len(index)
  <2>1. bounds \in SUBSET Nat /\ bounds # {}
    BY <1>2, <1>3, HeaderSyncAssumption
  <2>2. \E m \in bounds : \A k \in bounds : m <= k
    BY <2>1, MinExists
  <2>3. end \in bounds /\ \A k \in bounds : end <= k
    BY <2>2 DEF Min
  <2> QED
    BY <2>1, <2>3
<1> HIDE DEF start, end
<1>5. /\ headers \in Seq(Blocks)
      /\ Len(headers) = IF start + 1 <= end THEN end - start ELSE 0
      /\ \A i \in 1 .. end - start : headers[i] = index[start + i]
  <2>1. start + 1 \in Int /\ end \in Int
    BY <1>2, <1>4
  <2>2. \A i \in start + 1 .. end : index[i] \in Blocks
    BY <1>2, <1>3, <1>4
  <2>3. /\ headers \in Seq(Blocks)
        /\ Len(headers) = IF start + 1 <= end THEN end - (start + 1) + 1 ELSE 0
        /\ \A i \in 1 .. end - (start + 1) + 1 : headers[i] = index[(start + 1) + i - 1]
    BY <2>1, <2>2, SubSeqProperties
  <2>4. end - (start + 1) + 1 = end - start
    BY <1>2, <1>4
  <2>5. ASSUME NEW i \in 1 .. end - start
        PROVE  headers[i] = index[start + i]
    <3>1. headers[i] = index[(start + 1) + i - 1]
      BY <2>3, <2>4
    <3>2. (start + 1) + i - 1 = start + i
      BY <1>2, <1>4
    <3> QED
      BY <3>1, <3>2
  <2> HIDE DEF headers
  <2> QED
    BY <2>3, <2>4, <2>5
<1> HIDE DEF headers
<1>6. headers # <<>>
  BY <1>1
<1>7. start + 1 <= end /\ Len(headers) = end - start
  <2>1. Len(headers) \in Nat \ {0}
    BY <1>5, <1>6, EmptySeq
  <2> QED
    BY <1>5, <2>1
<1>8. Parent(headers[1]) = index[start]
  <2>1. 1 \in 1 .. end - start /\ start + 1 \in 2 .. Len(index) /\ (start + 1) - 1 = start
    BY <1>2, <1>3, <1>4, <1>7
  <2> QED
    BY <1>5, <2>1, BranchLinked
<1>9. Linked(headers)
  <2> SUFFICES ASSUME NEW i \in 2 .. Len(headers)
               PROVE  Parent(headers[i]) = headers[i - 1]
    BY DEF Linked
  <2>1. /\ i \in 1 .. end - start /\ i - 1 \in 1 .. end - start
        /\ start + i \in 2 .. Len(index) /\ (start + i) - 1 = start + (i - 1)
    BY <1>2, <1>3, <1>4, <1>7
  <2> QED
    BY <1>5, <2>1, BranchLinked
<1> QED
  BY <1>1, <1>2, <1>5, <1>6, <1>8, <1>9
-----------------------------------------------------------------------------

(* One more header, known, an orphan or new. *)
LEMMA AddHeaderFacts ==
    ASSUME NEW state, Sound(state.known, state.index), NEW h \in Blocks
    PROVE  /\ Sound(AddHeader(state, h).known, AddHeader(state, h).index)
           /\ state.known \subseteq AddHeader(state, h).known
<1> DEFINE K == state.known
           c == state.index
           d == ExtendHeaderIndex(c, h)
<1>1. CASE h \in K \/ Parent(h) \notin K
  BY <1>1 DEF AddHeader
<1>2. CASE ~ (h \in K \/ Parent(h) \notin K)
  <2>1. /\ K \subseteq Blocks /\ c \in Seq(Blocks) /\ IsBranch(c) /\ Elems(c) \subseteq K
        /\ \A g \in K : Elems(Path[g]) \subseteq K /\ Work[g] <= Work[Tip(c)]
    BY DEF Sound
  <2>2. Genesis \in K
    BY <2>1, TipFacts
  <2>3. h \in Blocks \ {Genesis} /\ Parent(h) \in K /\ Work[Parent(h)] <= Work[Tip(c)]
    BY <1>2, <2>1, <2>2
  <2>4. /\ d = c \/ d = Path[h]
        /\ d \in Seq(Blocks) /\ IsBranch(d)
        /\ Work[h] <= Work[Tip(d)] /\ Work[Tip(c)] <= Work[Tip(d)]
    BY <2>1, <2>3, HeaderIndexStep
  <2>5. Elems(Path[h]) \subseteq K \cup {h}
    <3>1. Path[h] = Append(Path[Parent(h)], h) /\ Path[Parent(h)] \in Seq(Blocks)
      BY <2>1, <2>3, ParentFacts, PathFacts
    <3>2. Elems(Path[h]) = Elems(Path[Parent(h)]) \cup {h}
      BY <3>1, ElemsAppend
    <3> QED
      BY <2>1, <2>3, <3>2
  <2>6. \A g \in K \cup {h} : Elems(Path[g]) \subseteq K \cup {h} /\ Work[g] <= Work[Tip(d)]
    <3>1. Tip(c) \in Blocks /\ Tip(d) \in Blocks
      BY <2>1, <2>4, TipFacts
    <3>2. \A g \in K : Work[g] \in Nat
      BY <2>1, WorkAssumption
    <3>3. Work[Tip(c)] \in Nat /\ Work[Tip(d)] \in Nat
      BY <3>1, WorkAssumption
    <3> QED
      BY <2>1, <2>4, <2>5, <3>2, <3>3
  <2>7. Elems(d) \subseteq K \cup {h}
    BY <2>1, <2>4, <2>5
  <2>8. AddHeader(state, h).known = K \cup {h} /\ AddHeader(state, h).index = d
    BY <1>2 DEF AddHeader
  <2>9. Sound(K \cup {h}, d)
    BY <2>1, <2>4, <2>6, <2>7 DEF Sound
  <2> QED
    BY <2>8, <2>9
<1> QED
  BY <1>1, <1>2

(* A whole message of headers: what add_headers does, header by header. *)
LEMMA AddHeadersFacts ==
    ASSUME NEW n \in Nodes, Sound(known[n], header_index[n]), NEW headers \in Seq(Blocks)
    PROVE  /\ Sound(AddHeaders(n, headers).known, AddHeaders(n, headers).index)
           /\ known[n] \subseteq AddHeaders(n, headers).known
<1> DEFINE L == Len(headers)
           first == [known |-> known[n], index |-> header_index[n]]
           Fits(g, k) ==
               g = [i \in 0 .. k |-> IF i = 0 THEN first ELSE AddHeader(g[i - 1], headers[i])]
           reached == {k \in 0 .. L : \E g : Fits(g, k)}
<1>1. L \in Nat /\ \A i \in 1 .. L : headers[i] \in Blocks
  BY LenProperties, ElementOfSeq
<1>2. 0 \in reached
  <2> DEFINE g == [i \in 0 .. 0 |-> first]
  <2>1. Fits(g, 0)
    OBVIOUS
  <2> HIDE DEF g
  <2>2. 0 \in 0 .. L
    BY <1>1
  <2> HIDE DEF L, Fits
  <2> QED
    BY <2>1, <2>2
<1>3. ASSUME NEW k \in 0 .. L - 1, k \in reached
      PROVE  k + 1 \in reached
  <2>1. PICK g : Fits(g, k)
    BY <1>3
  <2> DEFINE f == [i \in 0 .. k + 1 |->
                      IF i = k + 1 THEN AddHeader(g[k], headers[k + 1]) ELSE g[i]]
  <2>2. \A i \in 0 .. k + 1 :
            f[i] = IF i = 0 THEN first ELSE AddHeader(f[i - 1], headers[i])
    <3> TAKE i \in 0 .. k + 1
    <3>1. CASE i = k + 1
      <4>1. i # 0 /\ i - 1 = k /\ k \in 0 .. k + 1 /\ k # k + 1
        BY <3>1, <1>1
      <4> QED
        BY <3>1, <4>1
    <3>2. CASE i # k + 1
      <4>1. i \in 0 .. k /\ i - 1 # k + 1 /\ f[i] = g[i]
        BY <3>2, <1>1
      <4>2. g[i] = IF i = 0 THEN first ELSE AddHeader(g[i - 1], headers[i])
        BY <2>1, <4>1
      <4>3. i # 0 => i - 1 \in 0 .. k + 1 /\ f[i - 1] = g[i - 1]
        BY <4>1, <1>1
      <4> QED
        BY <4>1, <4>2, <4>3
    <3> QED
      BY <3>1, <3>2
  <2>3. Fits(f, k + 1)
    BY <2>2
  <2>4. k + 1 \in 0 .. L
    BY <1>1
  <2> QED
    BY <2>3, <2>4
<1>4. L \in reached
  <2> HIDE DEF reached
  <2>1. 0 .. L \subseteq reached
    BY <1>1, <1>2, <1>3, SetInduction
  <2> QED
    BY <1>1, <2>1
<1> DEFINE after == CHOOSE g : Fits(g, L)
<1>5. Fits(after, L)
  BY <1>4
<1>6. AddHeaders(n, headers) = after[L]
  BY DEF AddHeaders
<1> DEFINE good == {k \in 0 .. L : /\ Sound(after[k].known, after[k].index)
                                  /\ known[n] \subseteq after[k].known}
<1> HIDE DEF after
<1>7. 0 \in good
  <2>1. after[0] = first
    BY <1>1, <1>5
  <2> QED
    BY <1>1, <2>1
<1>8. ASSUME NEW k \in 0 .. L - 1, k \in good
      PROVE  k + 1 \in good
  <2>1. k + 1 \in 1 .. L /\ k + 1 # 0 /\ (k + 1) - 1 = k /\ k + 1 \in 0 .. L
    BY <1>1
  <2>2. after[k + 1] = AddHeader(after[k], headers[k + 1])
    BY <1>5, <2>1
  <2>3. /\ Sound(after[k + 1].known, after[k + 1].index)
        /\ after[k].known \subseteq after[k + 1].known
    BY <1>1, <1>8, <2>1, <2>2, AddHeaderFacts
  <2> QED
    BY <1>8, <2>1, <2>3
<1>9. L \in good
  <2>1. 0 .. L \subseteq good
    BY <1>1, <1>7, <1>8, SetInduction
  <2> QED
    BY <1>1, <2>1
<1> QED
  BY <1>6, <1>9
-----------------------------------------------------------------------------

(* A node's own end: what it has heard of and the best branch of it. *)
LEMMA NodeFacts ==
    ASSUME Inv, NEW n \in Nodes
    PROVE  /\ Sound(known[n], header_index[n])
           /\ header_index[n] \in Seq(Blocks)
           /\ IsBranch(header_index[n])
           /\ Len(header_index[n]) > 0
           /\ wire[n] \in Seq(Messages)
           /\ Len(wire[n]) \in Nat
<1>1. Sound(known[n], header_index[n])
  BY DEF Inv, NodesOK
<1>2. header_index[n] \in Seq(Blocks) /\ IsBranch(header_index[n])
  BY <1>1 DEF Sound
<1>3. wire[n] \in Seq(Messages)
  BY DEF Inv, TypeOK
<1> QED
  BY <1>1, <1>2, <1>3, LenProperties DEF IsBranch

(* A message that arrives: its blocks, and that it is carried well. *)
LEMMA ArrivalFacts ==
    ASSUME Inv, NEW n \in Nodes, wire[n] # <<>>
    PROVE  /\ wire[n][1] \in Messages
           /\ wire[n][1].blocks \in Seq(Blocks)
           /\ Carried(n, wire[n][1], known)
<1>1. wire[n] \in Seq(Messages) /\ Len(wire[n]) \in Nat
  BY NodeFacts
<1>2. 1 \in 1 .. Len(wire[n])
  BY <1>1, EmptySeq
<1>3. wire[n][1] \in Messages
  BY <1>1, <1>2, ElementOfSeq
<1>4. wire[n][1].blocks \in Seq(Blocks)
  BY <1>3 DEF Messages
<1> QED
  BY <1>2, <1>3, <1>4 DEF Inv, WireOK

(* A request or an answer is a message. *)
LEMMA MessageTypes ==
    ASSUME NEW blocks \in Seq(Blocks) \ {<<>>}
    PROVE  /\ GetHeadersMsg(blocks) \in Messages
           /\ GetHeadersMsg(blocks).type = "getheaders"
           /\ GetHeadersMsg(blocks).blocks = blocks
           /\ HeadersMsg(blocks) \in Messages
           /\ HeadersMsg(blocks).type = "headers"
           /\ HeadersMsg(blocks).blocks = blocks
BY DEF GetHeadersMsg, HeadersMsg, Messages

(* A node learns more while the queues stay: what was carried well still   *)
(* is.                                                                     *)
LEMMA CarriedKept ==
    ASSUME NEW n \in Nodes, NEW m, Carried(n, m, known),
           \A o \in Nodes : known[o] \subseteq known'[o]
    PROVE  Carried(n, m, known')
<1>1. Other(n) \in Nodes
  BY OtherFacts
<1> QED
  BY <1>1 DEF Carried

(* The queues after the head of the one to n is handled and answers to the *)
(* other node follow those under way.                                      *)
LEMMA ExchangeFacts ==
    ASSUME Inv, NEW n \in Nodes, wire[n] # <<>>,
           NEW answers \in Seq(Messages), Exchange(n, answers),
           \A o \in Nodes : known[o] \subseteq known'[o],
           \A i \in 1 .. Len(answers) : Carried(Other(n), answers[i], known')
    PROVE  /\ wire' \in [Nodes -> Seq(Messages)]
           /\ WireOK'
<1> DEFINE o == Other(n)
<1>1. o \in Nodes /\ o # n /\ Nodes = {n, o}
  BY OtherFacts
<1>2. /\ wire \in [Nodes -> Seq(Messages)]
      /\ wire[n] \in Seq(Messages) /\ wire[o] \in Seq(Messages)
  BY <1>1 DEF Inv, TypeOK
<1>3. /\ Tail(wire[n]) \in Seq(Messages)
      /\ Len(Tail(wire[n])) = Len(wire[n]) - 1
      /\ \A i \in 1 .. Len(Tail(wire[n])) : Tail(wire[n])[i] = wire[n][i + 1]
  BY <1>2, HeadTailProperties
<1>4. /\ wire[o] \o answers \in Seq(Messages)
      /\ Len(wire[o] \o answers) = Len(wire[o]) + Len(answers)
      /\ \A i \in 1 .. Len(wire[o]) + Len(answers) : (wire[o] \o answers)[i] =
             IF i <= Len(wire[o]) THEN wire[o][i] ELSE answers[i - Len(wire[o])]
  BY <1>2, ConcatProperties
<1> HIDE DEF o
<1>5. wire' = [wire EXCEPT ![n] = Tail(wire[n]), ![o] = wire[o] \o answers]
  BY <1>1 DEF Exchange, o
<1>6. wire'[n] = Tail(wire[n]) /\ wire'[o] = wire[o] \o answers
  BY <1>1, <1>2, <1>5
<1>7. wire' \in [Nodes -> Seq(Messages)]
  BY <1>1, <1>2, <1>3, <1>4, <1>5
<1>8. Len(wire[n]) \in Nat /\ Len(wire[o]) \in Nat /\ Len(answers) \in Nat
  BY <1>2, LenProperties
<1>9. ASSUME NEW i \in 1 .. Len(wire'[n]) PROVE Carried(n, wire'[n][i], known')
  <2>1. i + 1 \in 1 .. Len(wire[n]) /\ wire'[n][i] = wire[n][i + 1]
    BY <1>3, <1>6, <1>8
  <2>2. Carried(n, wire[n][i + 1], known)
    BY <2>1 DEF Inv, WireOK
  <2>3. Carried(n, wire[n][i + 1], known')
    BY <2>2, CarriedKept
  <2> QED
    BY <2>1, <2>3
<1>10. ASSUME NEW i \in 1 .. Len(wire'[o]) PROVE Carried(o, wire'[o][i], known')
  <2>1. CASE i <= Len(wire[o])
    <3>1. i \in 1 .. Len(wire[o]) /\ wire'[o][i] = wire[o][i]
      BY <1>4, <1>6, <1>8, <2>1
    <3>2. Carried(o, wire[o][i], known)
      BY <1>1, <3>1 DEF Inv, WireOK
    <3>3. Carried(o, wire[o][i], known')
      BY <1>1, <3>2, CarriedKept
    <3> QED
      BY <3>1, <3>3
  <2>2. CASE i > Len(wire[o])
    <3>1. /\ i - Len(wire[o]) \in 1 .. Len(answers)
          /\ wire'[o][i] = answers[i - Len(wire[o])]
      BY <1>4, <1>6, <1>8, <2>2
    <3> QED
      BY <3>1 DEF o
  <2> QED
    BY <1>4, <1>6, <1>8, <2>1, <2>2
<1>11. WireOK'
  BY <1>1, <1>9, <1>10 DEF WireOK
<1> QED
  BY <1>7, <1>11
-----------------------------------------------------------------------------

(* Two fresh nodes know the genesis header and nothing is under way. *)
LEMMA InitInv == Init => Inv
<1> SUFFICES ASSUME Init PROVE Inv
  OBVIOUS
<1>1. /\ Genesis \in Blocks
      /\ Path[Genesis] = <<Genesis>>
      /\ <<Genesis>> \in Seq(Blocks)
      /\ Len(<<Genesis>>) = 1
      /\ Tip(<<Genesis>>) = Genesis
      /\ Elems(<<Genesis>>) = {Genesis}
      /\ Work[Genesis] <= Work[Genesis]
  BY PathAssumption, WorkAssumption DEF Tip, Elems
<1>2. Sound({Genesis}, <<Genesis>>)
  BY <1>1 DEF Sound, IsBranch
<1>3. NodesOK
  BY <1>2 DEF Init, NodesOK
<1>4. \A n \in Nodes : Len(wire[n]) = 0
  BY DEF Init
<1>5. WireOK
  BY <1>4 DEF WireOK
<1>6. <<>> \in Seq(Messages)
  OBVIOUS
<1>7. TypeOK
  BY <1>1, <1>6 DEF Init, TypeOK
<1> QED
  BY <1>3, <1>5, <1>7 DEF Inv

(* verack: the first request names headers of the node's own index. *)
LEMMA VerackInv ==
    ASSUME Inv, NEW n \in Nodes, Verack(n)
    PROVE  Inv'
<1> DEFINE o == Other(n)
           m == GetHeadersMsg(BlockLocators(header_index[n]))
<1>1. o \in Nodes /\ o # n /\ Nodes = {n, o} /\ Other(o) = n
  BY OtherFacts
<1>2. /\ header_index[n] \in Seq(Blocks) /\ Len(header_index[n]) > 0
      /\ Elems(header_index[n]) \subseteq known[n]
  BY NodeFacts DEF Sound
<1>3. /\ m \in Messages /\ m.type = "getheaders"
      /\ Elems(m.blocks) \subseteq known[n]
  BY <1>2, BlockLocatorsFacts, MessageTypes
<1>4. Carried(o, m, known)
  BY <1>1, <1>3 DEF Carried
<1> HIDE DEF m, o
<1>5. /\ wire' = [wire EXCEPT ![o] = Append(wire[o], m)]
      /\ conn_status' = [conn_status EXCEPT ![n] = "Connected"]
      /\ UNCHANGED <<known, header_index, status>>
  BY DEF Verack, m, o
<1>6. wire \in [Nodes -> Seq(Messages)] /\ wire[o] \in Seq(Messages)
  BY <1>1 DEF Inv, TypeOK
<1>7. /\ Append(wire[o], m) \in Seq(Messages)
      /\ Len(Append(wire[o], m)) = Len(wire[o]) + 1
      /\ \A i \in 1 .. Len(wire[o]) : Append(wire[o], m)[i] = wire[o][i]
      /\ Append(wire[o], m)[Len(wire[o]) + 1] = m
      /\ Len(wire[o]) \in Nat
  BY <1>3, <1>6, AppendProperties, LenProperties
<1>8. wire' \in [Nodes -> Seq(Messages)] /\ wire'[o] = Append(wire[o], m) /\ wire'[n] = wire[n]
  BY <1>1, <1>5, <1>6, <1>7
<1>9. \A i \in 1 .. Len(wire'[o]) : Carried(o, wire'[o][i], known)
  <2> TAKE i \in 1 .. Len(wire'[o])
  <2>1. CASE i = Len(wire[o]) + 1
    BY <1>4, <1>7, <1>8, <2>1
  <2>2. CASE i # Len(wire[o]) + 1
    <3>1. i \in 1 .. Len(wire[o]) /\ wire'[o][i] = wire[o][i]
      BY <1>7, <1>8, <2>2
    <3> QED
      BY <1>1, <3>1 DEF Inv, WireOK
  <2> QED
    BY <2>1, <2>2
<1>10. \A i \in 1 .. Len(wire'[n]) : Carried(n, wire'[n][i], known)
  BY <1>8 DEF Inv, WireOK
<1>11. WireOK'
  BY <1>1, <1>5, <1>9, <1>10 DEF WireOK
<1>12. TypeOK'
  BY <1>5, <1>8 DEF Inv, TypeOK
<1>13. NodesOK'
  BY <1>5 DEF Inv, NodesOK
<1> QED
  BY <1>11, <1>12, <1>13 DEF Inv

(* getheaders: the answer extends a header of the request, which the       *)
(* other node knew when it asked.                                          *)
LEMMA GetHeadersInv ==
    ASSUME Inv, NEW n \in Nodes, GetHeaders(n)
    PROVE  Inv'
<1> DEFINE locators == wire[n][1].blocks
           headers == HeadersFromLocators(header_index[n], locators)
<1>1. /\ wire[n] # <<>> /\ wire[n][1].type = "getheaders"
      /\ Exchange(n, Reply(headers))
      /\ UNCHANGED <<known, header_index, status, conn_status>>
  BY DEF GetHeaders, NextIs
<1>2. Other(n) \in Nodes /\ Other(Other(n)) = n
  BY OtherFacts
<1>3. locators \in Seq(Blocks) /\ Elems(locators) \subseteq known[Other(n)]
  BY <1>1, ArrivalFacts DEF Carried
<1>4. /\ Reply(headers) \in Seq(Messages)
      /\ \A i \in 1 .. Len(Reply(headers)) : Carried(Other(n), Reply(headers)[i], known)
  <2>1. CASE headers = <<>>
    BY <2>1 DEF Reply
  <2>2. CASE headers # <<>>
    <3>1. /\ headers \in Seq(Blocks) \ {<<>>}
          /\ Parent(headers[1]) \in Elems(locators)
          /\ Linked(headers)
      BY <1>3, <2>2, NodeFacts, HeadersFromLocatorsFacts
    <3> HIDE DEF headers, locators
    <3>2. /\ HeadersMsg(headers) \in Messages
          /\ HeadersMsg(headers).type = "headers"
          /\ HeadersMsg(headers).blocks = headers
      BY <3>1, MessageTypes
    <3>3. Carried(Other(n), HeadersMsg(headers), known)
      BY <1>3, <3>1, <3>2 DEF Carried
    <3>4. Reply(headers) = <<HeadersMsg(headers)>>
      BY <2>2 DEF Reply
    <3> QED
      BY <3>2, <3>3, <3>4
  <2> QED
    BY <2>1, <2>2
<1> HIDE DEF headers
<1>5. wire' \in [Nodes -> Seq(Messages)] /\ WireOK'
  BY <1>1, <1>4, ExchangeFacts
<1>6. TypeOK'
  BY <1>1, <1>5 DEF Inv, TypeOK
<1>7. NodesOK'
  BY <1>1 DEF Inv, NodesOK
<1> QED
  BY <1>5, <1>6, <1>7 DEF Inv

(* Both nodes are sound after one has taken headers in. *)
LEMMA HeardFacts ==
    ASSUME Inv, NEW n \in Nodes, NEW headers \in Seq(Blocks),
           known' = [known EXCEPT ![n] = AddHeaders(n, headers).known],
           header_index' = [header_index EXCEPT ![n] = AddHeaders(n, headers).index]
    PROVE  /\ known' \in [Nodes -> SUBSET Blocks]
           /\ header_index' \in [Nodes -> Seq(Blocks)]
           /\ NodesOK'
           /\ \A o \in Nodes : known[o] \subseteq known'[o]
<1> DEFINE new == AddHeaders(n, headers)
<1>1. Sound(new.known, new.index) /\ known[n] \subseteq new.known
  BY NodeFacts, AddHeadersFacts
<1> HIDE DEF new
<1>2. known' = [known EXCEPT ![n] = new.known] /\ header_index' = [header_index EXCEPT ![n] = new.index]
  BY DEF new
<1>3. new.known \in SUBSET Blocks /\ new.index \in Seq(Blocks)
  BY <1>1 DEF Sound
<1>4. known \in [Nodes -> SUBSET Blocks] /\ header_index \in [Nodes -> Seq(Blocks)]
  BY DEF Inv, TypeOK
<1>5. \A o \in Nodes : Sound(known'[o], header_index'[o])
  BY <1>1, <1>2, <1>4 DEF Inv, NodesOK
<1>6. \A o \in Nodes : known[o] \subseteq known'[o]
  BY <1>1, <1>2, <1>4
<1> QED
  BY <1>2, <1>3, <1>4, <1>5, <1>6 DEF NodesOK

(* headers: the next request names headers of the index as it is now. *)
LEMMA HeadersInv ==
    ASSUME Inv, NEW n \in Nodes, Headers(n)
    PROVE  Inv'
<1> DEFINE headers == wire[n][1].blocks
           new == AddHeaders(n, headers)
           more == AskMore(headers, new.known # known[n])
           m == GetHeadersMsg(BlockLocators(new.index))
           answers == IF more THEN <<m>> ELSE <<>>
<1>1. /\ wire[n] # <<>>
      /\ known' = [known EXCEPT ![n] = new.known]
      /\ header_index' = [header_index EXCEPT ![n] = new.index]
      /\ Exchange(n, answers)
      /\ status' = [status EXCEPT ![n] = IF more THEN status[n] ELSE "HeaderSynced"]
      /\ UNCHANGED conn_status
  BY DEF Headers, NextIs
<1>2. headers \in Seq(Blocks)
  BY <1>1, ArrivalFacts
<1>3. Sound(new.known, new.index)
  BY <1>2, NodeFacts, AddHeadersFacts
<1> HIDE DEF headers
<1>4. /\ known' \in [Nodes -> SUBSET Blocks]
      /\ header_index' \in [Nodes -> Seq(Blocks)]
      /\ NodesOK'
      /\ \A o \in Nodes : known[o] \subseteq known'[o]
  BY <1>1, <1>2, HeardFacts
<1> HIDE DEF new, more
<1>5. /\ new.index \in Seq(Blocks) /\ Len(new.index) > 0
      /\ Elems(new.index) \subseteq new.known
  BY <1>3 DEF Sound, IsBranch
<1>6. /\ m \in Messages /\ m.type = "getheaders"
      /\ Elems(m.blocks) \subseteq new.known
  BY <1>5, BlockLocatorsFacts, MessageTypes
<1>7. Other(n) \in Nodes /\ Other(Other(n)) = n
  BY OtherFacts
<1>8. known'[n] = new.known
  BY <1>1 DEF Inv, TypeOK
<1>9. Carried(Other(n), m, known')
  BY <1>6, <1>7, <1>8 DEF Carried
<1> HIDE DEF m
<1>10. /\ answers \in Seq(Messages)
       /\ \A i \in 1 .. Len(answers) : Carried(Other(n), answers[i], known')
  BY <1>6, <1>9
<1> HIDE DEF answers
<1>11. wire' \in [Nodes -> Seq(Messages)] /\ WireOK'
  BY <1>1, <1>4, <1>10, ExchangeFacts
<1>12. status' \in [Nodes -> {"SyncingHeaders", "HeaderSynced"}]
  BY <1>1 DEF Inv, TypeOK
<1>13. TypeOK'
  BY <1>1, <1>4, <1>11, <1>12 DEF Inv, TypeOK
<1> QED
  BY <1>4, <1>11, <1>13 DEF Inv

(* A header from elsewhere, while requests and answers are under way. *)
LEMMA HearInv ==
    ASSUME Inv, NEW n \in Nodes, NEW h \in Blocks, Hear(n, h)
    PROVE  Inv'
<1>1. <<h>> \in Seq(Blocks)
  OBVIOUS
<1>2. /\ known' = [known EXCEPT ![n] = AddHeaders(n, <<h>>).known]
      /\ header_index' = [header_index EXCEPT ![n] = AddHeaders(n, <<h>>).index]
      /\ status' = [status EXCEPT ![n] = "HeaderSynced"]
      /\ UNCHANGED <<conn_status, wire>>
  BY DEF Hear
<1>3. /\ known' \in [Nodes -> SUBSET Blocks]
      /\ header_index' \in [Nodes -> Seq(Blocks)]
      /\ NodesOK'
      /\ \A o \in Nodes : known[o] \subseteq known'[o]
  BY <1>1, <1>2, HeardFacts
<1>4. WireOK'
  <2> SUFFICES ASSUME NEW o \in Nodes, NEW i \in 1 .. Len(wire[o])
               PROVE  Carried(o, wire[o][i], known')
    BY <1>2 DEF WireOK
  <2>1. Carried(o, wire[o][i], known)
    BY DEF Inv, WireOK
  <2> QED
    BY <1>3, <2>1, CarriedKept
<1>5. TypeOK'
  BY <1>2, <1>3 DEF Inv, TypeOK
<1> QED
  BY <1>3, <1>4, <1>5 DEF Inv

(* A new connection starts with nothing under way. *)
LEMMA ReconnectInv ==
    ASSUME Inv, Reconnect
    PROVE  Inv'
<1>1. /\ conn_status' = [n \in Nodes |-> "Open"]
      /\ wire' = [n \in Nodes |-> <<>>]
      /\ UNCHANGED <<known, header_index, status>>
  BY DEF Reconnect
<1>2. \A n \in Nodes : Len(wire'[n]) = 0
  BY <1>1
<1>3. WireOK'
  BY <1>2 DEF WireOK
<1>4. <<>> \in Seq(Messages)
  OBVIOUS
<1>5. TypeOK'
  BY <1>1, <1>4 DEF Inv, TypeOK
<1>6. NodesOK'
  BY <1>1 DEF Inv, NodesOK
<1> QED
  BY <1>3, <1>5, <1>6 DEF Inv
-----------------------------------------------------------------------------

(* Every step of a handler, a header from elsewhere and a broken           *)
(* connection preserves the invariant.                                     *)
THEOREM Invariance == Spec => []Inv
<1>1. ASSUME Inv, [Next]_vars PROVE Inv'
  <2>1. ASSUME NEW n \in Nodes, Verack(n) PROVE Inv'
    BY <1>1, <2>1, VerackInv
  <2>2. ASSUME NEW n \in Nodes, GetHeaders(n) PROVE Inv'
    BY <1>1, <2>2, GetHeadersInv
  <2>3. ASSUME NEW n \in Nodes, Headers(n) PROVE Inv'
    BY <1>1, <2>3, HeadersInv
  <2>4. ASSUME NEW n \in Nodes, NEW h \in Blocks \ {Genesis}, Hear(n, h) PROVE Inv'
    BY <1>1, <2>4, HearInv
  <2>5. CASE Reconnect
    BY <1>1, <2>5, ReconnectInv
  <2>6. CASE UNCHANGED vars
    BY <1>1, <2>6 DEF vars, Inv, TypeOK, NodesOK, WireOK
  <2> QED
    BY <1>1, <2>1, <2>2, <2>3, <2>4, <2>5, <2>6, Zenon DEF Next, Handle
<1> QED
  BY InitInv, <1>1, PTL DEF Spec

(* Type correctness: block_index.py's header_index is a list of headers,   *)
(* and no handler sends a message with nothing in it.                      *)
THEOREM TypeCorrect == Spec => []TypeOK
<1>1. Inv => TypeOK
  BY DEF Inv
<1> QED
  BY <1>1, Invariance, PTL

(* An answer of get_headers_from_locators never holds an orphan: its first *)
(* header extends one its reader knows and each of the others the one      *)
(* before it, however both header chains have moved meanwhile.             *)
THEOREM AnswersAlwaysConnect == Spec => []AnswersConnect
<1>1. Inv => AnswersConnect
  <2> SUFFICES ASSUME Inv, NEW n \in Nodes, NEW m \in ToSet(wire[n]), m.type = "headers"
               PROVE  /\ Parent(m.blocks[1]) \in known[n]
                      /\ \A i \in 2 .. Len(m.blocks) : Parent(m.blocks[i]) = m.blocks[i - 1]
    BY DEF AnswersConnect
  <2>1. wire[n] \in Seq(Messages) /\ DOMAIN wire[n] = 1 .. Len(wire[n])
    BY NodeFacts, LenProperties
  <2>2. PICK i \in 1 .. Len(wire[n]) : m = wire[n][i]
    BY <2>1 DEF ToSet
  <2>3. Carried(n, m, known)
    BY <2>2 DEF Inv, WireOK
  <2> QED
    BY <2>3 DEF Carried, Linked
<1> QED
  BY <1>1, Invariance, PTL
=============================================================================
