--------------------------- MODULE DownloadProofs ---------------------------
(***************************************************************************)
(* The download manager loses no block it waits for and leaves nobody idle *)
(* while there is a block to ask for, for every tree, any number of peers  *)
(* and all sizes of window and batches.                                    *)
(***************************************************************************)
EXTENDS Download, BlockTreeLemmas, FiniteSetTheorems

(* A strict total order on S, as a set of pairs. *)
Orders(R, S) ==
    /\ \A x \in S : <<x, x>> \notin R
    /\ \A x, y, z \in S : <<x, y>> \in R /\ <<y, z>> \in R => <<x, z>> \in R
    /\ \A x, y \in S : x # y => <<x, y>> \in R \/ <<y, x>> \in R

NoRepeats(seq) == \A i, j \in 1 .. Len(seq) : seq[i] = seq[j] => i = j
-----------------------------------------------------------------------------
(* Lists.                                                                  *)

LEMMA ToSetFacts ==
    ASSUME NEW S, NEW seq \in Seq(S)
    PROVE  /\ Len(seq) \in Nat
           /\ ToSet(seq) = {seq[i] : i \in 1 .. Len(seq)}
           /\ ToSet(seq) \subseteq S
           /\ \A i \in 1 .. Len(seq) : seq[i] \in ToSet(seq)
           /\ \A e \in ToSet(seq) : \E i \in 1 .. Len(seq) : e = seq[i]
           /\ seq = <<>> <=> ToSet(seq) = {}
           /\ seq = <<>> <=> Len(seq) = 0
<1>1. Len(seq) \in Nat /\ DOMAIN seq = 1 .. Len(seq) /\ \A i \in 1 .. Len(seq) : seq[i] \in S
  BY LenProperties, ElementOfSeq
<1>2. ToSet(seq) = {seq[i] : i \in 1 .. Len(seq)}
  BY <1>1 DEF ToSet
<1>3. seq = <<>> <=> Len(seq) = 0
  BY <1>1, EmptySeq
<1> QED
  BY <1>1, <1>2, <1>3

(* The elements of a concatenation. *)
LEMMA ToSetConcat ==
    ASSUME NEW S, NEW s \in Seq(S), NEW t \in Seq(S)
    PROVE  /\ s \o t \in Seq(S)
           /\ ToSet(s \o t) = ToSet(s) \cup ToSet(t)
<1>1. /\ s \o t \in Seq(S)
      /\ Len(s) \in Nat /\ Len(t) \in Nat
      /\ Len(s \o t) = Len(s) + Len(t)
      /\ \A i \in 1 .. Len(s) + Len(t) : (s \o t)[i] =
            IF i <= Len(s) THEN s[i] ELSE t[i - Len(s)]
  BY ConcatProperties, LenProperties
<1>2. /\ ToSet(s) = {s[i] : i \in 1 .. Len(s)}
      /\ ToSet(t) = {t[i] : i \in 1 .. Len(t)}
      /\ ToSet(s \o t) = {(s \o t)[i] : i \in 1 .. Len(s) + Len(t)}
  <2>1. ToSet(s \o t) = {(s \o t)[i] : i \in 1 .. Len(s \o t)}
    BY <1>1, ToSetFacts
  <2>2. /\ ToSet(s) = {s[i] : i \in 1 .. Len(s)}
        /\ ToSet(t) = {t[i] : i \in 1 .. Len(t)}
    BY ToSetFacts
  <2> QED
    BY <1>1, <2>1, <2>2
<1>3. ToSet(s \o t) \subseteq ToSet(s) \cup ToSet(t)
  <2> SUFFICES ASSUME NEW i \in 1 .. Len(s) + Len(t)
               PROVE  (s \o t)[i] \in ToSet(s) \cup ToSet(t)
    BY <1>2
  <2>1. i <= Len(s) => i \in 1 .. Len(s) /\ (s \o t)[i] = s[i]
    BY <1>1
  <2>2. i > Len(s) => i - Len(s) \in 1 .. Len(t) /\ (s \o t)[i] = t[i - Len(s)]
    BY <1>1
  <2>3. i <= Len(s) \/ i > Len(s)
    BY <1>1
  <2> QED
    BY <1>2, <2>1, <2>2, <2>3
<1>4. ToSet(s) \subseteq ToSet(s \o t)
  <2>1. \A i \in 1 .. Len(s) : i \in 1 .. Len(s) + Len(t) /\ (s \o t)[i] = s[i]
    BY <1>1
  <2> QED
    BY <1>2, <2>1
<1>5. ToSet(t) \subseteq ToSet(s \o t)
  <2>1. \A i \in 1 .. Len(t) :
            Len(s) + i \in 1 .. Len(s) + Len(t) /\ (s \o t)[Len(s) + i] = t[i]
    BY <1>1
  <2> QED
    BY <1>2, <2>1
<1> QED
  BY <1>1, <1>3, <1>4, <1>5

(* SortBy lists each element once, in order. *)
LEMMA SortByFacts ==
    ASSUME NEW S, IsFiniteSet(S), NEW R, Orders(R, S)
    PROVE  LET s == SortBy(S, R)
           IN  /\ s \in Seq(S)
               /\ Len(s) = Cardinality(S)
               /\ ToSet(s) = S
               /\ \A i, j \in 1 .. Len(s) : i < j => <<s[i], s[j]>> \in R
<1> DEFINE n == Cardinality(S)
           Below(x) == {y \in S : <<y, x>> \in R}
           rank(x) == Cardinality(Below(x))
           s == SortBy(S, R)
<1>1. n \in Nat
  BY FS_CardinalityType
<1>2. \A x \in S : IsFiniteSet(Below(x)) /\ rank(x) \in 0 .. n - 1
  <2> TAKE x \in S
  <2>1. IsFiniteSet(S \ {x}) /\ Cardinality(S \ {x}) = n - 1
    BY FS_RemoveElement
  <2>2. Below(x) \in SUBSET (S \ {x})
    BY DEF Orders
  <2>3. IsFiniteSet(Below(x)) /\ rank(x) <= n - 1
    BY <2>1, <2>2, FS_Subset
  <2> QED
    BY <1>1, <2>3, FS_CardinalityType
<1>3. \A x \in S : rank(x) \in 0 .. n - 1
  BY <1>2
<1>4. \A x, y \in S : <<x, y>> \in R => rank(x) < rank(y)
  <2> SUFFICES ASSUME NEW x \in S, NEW y \in S, <<x, y>> \in R
               PROVE  rank(x) < rank(y)
    OBVIOUS
  <2>1. x \notin Below(x)
    BY DEF Orders
  <2>2. Below(x) \cup {x} \in SUBSET Below(y)
    BY DEF Orders
  <2>3. Cardinality(Below(x) \cup {x}) = rank(x) + 1
    BY <1>2, <2>1, FS_AddElement
  <2>4. Cardinality(Below(x) \cup {x}) <= rank(y)
    BY <1>2, <2>2, FS_Subset
  <2>5. rank(x) \in Nat /\ rank(y) \in Nat
    BY <1>1, <1>3
  <2> HIDE DEF rank
  <2> QED
    BY <2>3, <2>4, <2>5
<1> HIDE DEF rank, n
<1>5. \A x, y \in S : rank(x) = rank(y) => x = y
  <2> SUFFICES ASSUME NEW x \in S, NEW y \in S, rank(x) = rank(y), x # y
               PROVE  FALSE
    OBVIOUS
  <2>1. <<x, y>> \in R \/ <<y, x>> \in R
    BY DEF Orders
  <2>2. rank(x) \in Nat /\ rank(y) \in Nat
    BY <1>1, <1>3
  <2> QED
    BY <1>4, <2>1, <2>2
<1>6. \A k \in 0 .. n - 1 : \E x \in S : rank(x) = k
  <2> DEFINE f == [x \in S |-> rank(x)]
             T == 0 .. n - 1
  <2>1. f \in Injection(S, T)
    BY <1>5, <1>3 DEF Injection, IsInjective
  <2>2. IsFiniteSet(T) /\ Cardinality(T) = n
    <3>1. 0 \in Int /\ n - 1 \in Int /\ (0 > n - 1 => n = 0) /\ (n - 1) - 0 + 1 = n
      BY <1>1
    <3> QED
      BY <3>1, FS_Interval
  <2>3. f \in Surjection(S, T)
    BY <2>1, <2>2, FS_Injection DEF n
  <2> QED
    BY <2>3 DEF Surjection
<1>7. s = [k \in 1 .. n |-> CHOOSE x \in S : rank(x) = k - 1]
  BY DEF SortBy, rank, n
<1>8. \A k \in 1 .. n : s[k] \in S /\ rank(s[k]) = k - 1
  <2> TAKE k \in 1 .. n
  <2>1. k - 1 \in 0 .. n - 1
    BY <1>1
  <2>2. \E x \in S : rank(x) = k - 1
    BY <1>6, <2>1
  <2> QED
    BY <1>7, <2>2
<1>9. s \in Seq(S) /\ Len(s) = n
  <2>1. s \in [1 .. n -> S]
    BY <1>7, <1>8
  <2> QED
    BY <1>1, <2>1, SeqDef, LenProperties
<1> HIDE DEF s
<1>10. S \subseteq ToSet(s)
  <2> SUFFICES ASSUME NEW x \in S PROVE x \in ToSet(s)
    OBVIOUS
  <2>1. rank(x) + 1 \in 1 .. n /\ (rank(x) + 1) - 1 = rank(x)
    BY <1>1, <1>3
  <2>2. s[rank(x) + 1] = x
    BY <1>5, <1>8, <2>1
  <2> QED
    BY <1>9, <2>1, <2>2, ToSetFacts
<1>11. \A i, j \in 1 .. n : i < j => <<s[i], s[j]>> \in R
  <2> SUFFICES ASSUME NEW i \in 1 .. n, NEW j \in 1 .. n, i < j
               PROVE  <<s[i], s[j]>> \in R
    OBVIOUS
  <2>1. rank(s[i]) < rank(s[j])
    BY <1>1, <1>8
  <2>2. s[i] # s[j] /\ ~ (<<s[j], s[i]>> \in R)
    BY <1>1, <1>4, <1>8, <2>1
  <2> QED
    BY <1>8, <2>2 DEF Orders
<1> QED
  BY <1>9, <1>10, <1>11, ToSetFacts DEF s, n

(* Without leaves the others, and a list without repetitions one. *)
LEMMA WithoutFacts ==
    ASSUME NEW T, NEW seq \in Seq(T), NEW S
    PROVE  /\ Without(seq, S) \in Seq(T)
           /\ ToSet(Without(seq, S)) = ToSet(seq) \ S
           /\ NoRepeats(seq) => NoRepeats(Without(seq, S))
<1> DEFINE kept == {i \in 1 .. Len(seq) : seq[i] \notin S}
           R == {r \in kept \X kept : r[1] < r[2]}
           order == SortBy(kept, R)
           n == Cardinality(kept)
           w == [k \in 1 .. n |-> seq[order[k]]]
<1>1. Len(seq) \in Nat
  BY LenProperties
<1>2. IsFiniteSet(kept)
  <2>1. IsFiniteSet(1 .. Len(seq)) /\ kept \in SUBSET (1 .. Len(seq))
    BY <1>1, FS_Interval
  <2> QED
    BY <2>1, FS_Subset
<1>3. \A i, j \in kept : <<i, j>> \in R <=> i < j
  OBVIOUS
<1>4. kept \subseteq 1 .. Len(seq) /\ \A i \in 1 .. Len(seq) : i \in kept <=> seq[i] \notin S
  OBVIOUS
<1>5. Without(seq, S) = w
  BY DEF Without
<1> HIDE DEF kept, R
<1>6. Orders(R, kept)
  <2>1. kept \subseteq Int
    BY <1>1, <1>4
  <2> QED
    BY <1>3, <2>1 DEF Orders
<1>7. /\ order \in Seq(kept) /\ Len(order) = n /\ ToSet(order) = kept
      /\ \A i, j \in 1 .. n : i < j => order[i] < order[j]
  <2>1. /\ order \in Seq(kept) /\ Len(order) = n /\ ToSet(order) = kept
        /\ \A i, j \in 1 .. n : i < j => <<order[i], order[j]>> \in R
    BY <1>2, <1>6, SortByFacts
  <2>2. \A i \in 1 .. n : order[i] \in kept
    BY <2>1, ElementOfSeq
  <2> QED
    BY <1>3, <2>1, <2>2
<1>8. n \in Nat /\ \A k \in 1 .. n : order[k] \in kept
  BY <1>7, ElementOfSeq, LenProperties
<1>9. \A i \in kept : \E k \in 1 .. n : i = order[k]
  BY <1>7, ToSetFacts
<1> HIDE DEF order, n
<1>10. \A k \in 1 .. n : w[k] = seq[order[k]] /\ w[k] \in T /\ w[k] \notin S
  BY <1>4, <1>8, ElementOfSeq
<1>11. w \in Seq(T) /\ Len(w) = n
  <2>1. w \in [1 .. n -> T]
    BY <1>10
  <2> QED
    BY <1>8, <2>1, SeqDef, LenProperties
<1> HIDE DEF w
<1>12. ToSet(w) \subseteq ToSet(seq) \ S
  <2>1. \A k \in 1 .. n : seq[order[k]] \in ToSet(seq)
    BY <1>4, <1>8, ToSetFacts
  <2> QED
    BY <1>10, <1>11, <2>1, ToSetFacts
<1>13. ToSet(seq) \ S \subseteq ToSet(w)
  <2> SUFFICES ASSUME NEW i \in 1 .. Len(seq), seq[i] \notin S
               PROVE  seq[i] \in ToSet(w)
    BY ToSetFacts
  <2>1. PICK k \in 1 .. n : i = order[k]
    BY <1>4, <1>9
  <2> QED
    BY <1>10, <1>11, <2>1, ToSetFacts
<1>14. ASSUME NoRepeats(seq)
       PROVE  NoRepeats(w)
  <2> SUFFICES ASSUME NEW i \in 1 .. n, NEW j \in 1 .. n, w[i] = w[j]
               PROVE  i = j
    BY <1>11 DEF NoRepeats
  <2>1. order[i] \in 1 .. Len(seq) /\ order[j] \in 1 .. Len(seq)
    BY <1>4, <1>8
  <2>2. order[i] = order[j]
    BY <1>10, <1>14, <2>1 DEF NoRepeats
  <2>3. ~ (i < j) /\ ~ (j < i)
    BY <1>1, <1>7, <2>1, <2>2
  <2> QED
    BY <1>8, <2>3
<1> QED
  BY <1>5, <1>11, <1>12, <1>13, <1>14
-----------------------------------------------------------------------------
(* A list of lists and a list cut into portions.                           *)

(* FlattenSeq lists what the lists list. *)
LEMMA FlattenFacts ==
    ASSUME NEW T, NEW seqs \in Seq(Seq(T))
    PROVE  /\ FlattenSeq(seqs) \in Seq(T)
           /\ \A e : e \in ToSet(FlattenSeq(seqs)) <=>
                         \E i \in 1 .. Len(seqs) : e \in ToSet(seqs[i])
<1> DEFINE L == Len(seqs)
           Fits(g, k) ==
               g = [i \in 1 .. k |-> IF i = 1 THEN seqs[i] ELSE g[i - 1] \o seqs[i]]
           reached == {k \in 0 .. L : \E g : Fits(g, k)}
<1>1. L \in Nat /\ \A i \in 1 .. L : seqs[i] \in Seq(T)
  BY LenProperties, ElementOfSeq
<1>2. CASE L = 0
  <2>1. FlattenSeq(seqs) = seqs /\ seqs = <<>>
    BY <1>2, EmptySeq DEF FlattenSeq
  <2>2. seqs \in Seq(T) /\ ToSet(seqs) = {}
    <3>1. <<>> \in Seq(T)
      OBVIOUS
    <3> QED
      BY <2>1, <3>1, ToSetFacts
  <2>3. ~ \E i \in 1 .. L : TRUE
    BY <1>2
  <2> QED
    BY <2>1, <2>2, <2>3
<1>3. CASE L # 0
  <2>1. 0 \in reached
    <3> DEFINE g == [i \in 1 .. 0 |-> <<>>]
    <3>1. Fits(g, 0)
      OBVIOUS
    <3> HIDE DEF g
    <3>2. 0 \in 0 .. L
      BY <1>1
    <3> HIDE DEF L, Fits
    <3> QED
      BY <3>1, <3>2
  <2>2. ASSUME NEW k \in 0 .. L - 1, k \in reached
        PROVE  k + 1 \in reached
    <3>1. PICK g : Fits(g, k)
      BY <2>2
    <3> DEFINE f == [i \in 1 .. k + 1 |->
                        IF i = k + 1 THEN IF k = 0 THEN seqs[1] ELSE g[k] \o seqs[k + 1]
                        ELSE g[i]]
    <3>2. \A i \in 1 .. k + 1 : f[i] = IF i = 1 THEN seqs[i] ELSE f[i - 1] \o seqs[i]
      <4> TAKE i \in 1 .. k + 1
      <4>1. CASE i = k + 1
        <5>1. i - 1 = k /\ (k = 0 <=> i = 1) /\ k # k + 1
          BY <4>1, <1>1
        <5>2. k # 0 => k \in 1 .. k + 1 /\ f[k] = g[k]
          BY <5>1, <1>1
        <5> QED
          BY <4>1, <5>1, <5>2
      <4>2. CASE i # k + 1
        <5>1. i \in 1 .. k /\ i - 1 # k + 1 /\ f[i] = g[i]
          BY <4>2, <1>1
        <5>2. g[i] = IF i = 1 THEN seqs[i] ELSE g[i - 1] \o seqs[i]
          BY <3>1, <5>1
        <5>3. i # 1 => i - 1 \in 1 .. k + 1 /\ f[i - 1] = g[i - 1]
          BY <5>1, <1>1
        <5> QED
          BY <5>1, <5>2, <5>3
      <4> QED
        BY <4>1, <4>2
    <3>3. Fits(f, k + 1)
      BY <3>2
    <3>4. k + 1 \in 0 .. L
      BY <1>1
    <3> QED
      BY <3>3, <3>4
  <2>3. L \in reached
    <3> HIDE DEF reached
    <3>1. 0 .. L \subseteq reached
      BY <1>1, <2>1, <2>2, SetInduction
    <3> QED
      BY <1>1, <3>1
  <2> DEFINE flat == CHOOSE g : Fits(g, L)
  <2>4. Fits(flat, L)
    BY <2>3
  <2>5. FlattenSeq(seqs) = flat[L]
    BY <1>3 DEF FlattenSeq
  <2> DEFINE good == {k \in 0 .. L : k # 0 =>
                          /\ flat[k] \in Seq(T)
                          /\ \A e : e \in ToSet(flat[k]) <=>
                                        \E i \in 1 .. k : e \in ToSet(seqs[i])}
  <2> HIDE DEF flat
  <2>6. 0 \in good
    BY <1>1
  <2>7. ASSUME NEW k \in 0 .. L - 1, k \in good
        PROVE  k + 1 \in good
    <3>1. k + 1 \in 1 .. L /\ k + 1 \in 0 .. L /\ (k + 1) - 1 = k /\ k \in Int
      BY <1>1
    <3>2. flat[k + 1] = IF k = 0 THEN seqs[k + 1] ELSE flat[k] \o seqs[k + 1]
      <4>1. k + 1 = 1 <=> k = 0
        BY <3>1
      <4>2. flat[k + 1] = IF k + 1 = 1 THEN seqs[k + 1] ELSE flat[(k + 1) - 1] \o seqs[k + 1]
        BY <2>4, <3>1
      <4> QED
        BY <3>1, <4>1, <4>2
    <3>3. \A i : i \in 1 .. k + 1 <=> i \in 1 .. k \/ i = k + 1
      BY <3>1
    <3>4. CASE k = 0
      <4>1. flat[k + 1] = seqs[k + 1] /\ \A i \in 1 .. k + 1 : i = k + 1
        BY <3>2, <3>4
      <4> QED
        BY <1>1, <3>1, <3>3, <4>1
    <3>5. CASE k # 0
      <4>1. flat[k + 1] = flat[k] \o seqs[k + 1]
        BY <3>2, <3>5
      <4>2. /\ flat[k] \in Seq(T)
            /\ \A e : e \in ToSet(flat[k]) <=> \E i \in 1 .. k : e \in ToSet(seqs[i])
        BY <2>7, <3>5
      <4>3. /\ flat[k + 1] \in Seq(T)
            /\ ToSet(flat[k + 1]) = ToSet(flat[k]) \cup ToSet(seqs[k + 1])
        BY <1>1, <3>1, <4>1, <4>2, ToSetConcat
      <4>4. \A e : e \in ToSet(flat[k + 1]) <=> \E i \in 1 .. k + 1 : e \in ToSet(seqs[i])
        BY <3>3, <4>2, <4>3
      <4> QED
        BY <3>1, <4>3, <4>4
    <3> QED
      BY <3>4, <3>5
  <2>8. L \in good
    <3> HIDE DEF good
    <3>1. 0 .. L \subseteq good
      BY <1>1, <2>6, <2>7, SetInduction
    <3> QED
      BY <1>1, <3>1
  <2> QED
    BY <1>3, <2>5, <2>8
<1> QED
  BY <1>2, <1>3

(* Portions of a list: none is empty, and they hold what it holds. *)
LEMMA PortionsFacts ==
    ASSUME NEW T, NEW seq \in Seq(T), NEW size \in Nat \ {0}
    PROVE  LET parts == Portions(seq, size)
           IN  /\ parts \in Seq(Seq(T))
               /\ \A k \in 1 .. Len(parts) : parts[k] # <<>> /\ ToSet(parts[k]) \subseteq ToSet(seq)
               /\ \A e \in ToSet(seq) : \E k \in 1 .. Len(parts) : e \in ToSet(parts[k])
<1> DEFINE L == Len(seq)
           n == (L + size - 1) \div size
           lo(k) == size * (k - 1) + 1
           hi(k) == Min({size * k, L})
           parts == Portions(seq, size)
<1>1. L \in Nat /\ \A i \in 1 .. L : seq[i] \in T
  BY LenProperties, ElementOfSeq
<1>2. /\ n \in Nat
      /\ size * n \in Nat
      /\ size * n <= L + size - 1 /\ L + size - 1 < size * n + size
  <2> DEFINE a == L + size - 1
  <2>1. a \in Nat
    BY <1>1
  <2> HIDE DEF a
  <2>2. a \div size \in Nat
    BY <2>1
  <2>3. size * (a \div size) <= a /\ a < size * (a \div size) + size
    BY <2>1
  <2>4. size * (a \div size) \in Nat
    BY <2>2
  <2> QED
    BY <2>2, <2>3, <2>4 DEF a
<1> HIDE DEF n
<1>3. \A k \in 1 .. n :
          /\ size * k \in Nat /\ size * (k - 1) \in Nat
          /\ size * k = size * (k - 1) + size
          /\ size * k <= size * n
  <2> TAKE k \in 1 .. n
  <2>1. k \in Nat /\ k - 1 \in Nat
    BY <1>2
  <2>2. size * k \in Nat /\ size * (k - 1) \in Nat
    BY <2>1
  <2>3. size * k = size * (k - 1) + size
    BY <2>1
  <2>4. size * k <= size * n
    BY <1>2, <2>1
  <2> QED
    BY <2>2, <2>3, <2>4
<1>4. \A k \in 1 .. n : /\ hi(k) \in Nat /\ hi(k) <= L /\ hi(k) <= size * k
                        /\ hi(k) = L \/ hi(k) = size * k
  <2> TAKE k \in 1 .. n
  <2>1. size * k \in Nat
    BY <1>3
  <2> DEFINE S == {size * k, L}
  <2>2. S \in SUBSET Nat /\ S # {}
    BY <1>1, <2>1
  <2>3. PICK m \in S : \A i \in S : m <= i
    BY <2>2, MinExists
  <2>4. hi(k) \in S /\ \A i \in S : hi(k) <= i
    BY <2>3 DEF Min
  <2> QED
    BY <1>1, <2>1, <2>4
<1> HIDE DEF hi
<1>5. \A k \in 1 .. n : /\ lo(k) \in 1 .. L /\ lo(k) <= hi(k) /\ hi(k) \in 1 .. L
  <2> TAKE k \in 1 .. n
  <2>1. /\ size * k \in Nat /\ size * (k - 1) \in Nat
        /\ size * k = size * (k - 1) + size
        /\ size * k <= size * n
    BY <1>3
  <2>2. size * (k - 1) + 1 <= L
    BY <1>1, <1>2, <2>1
  <2> QED
    BY <1>1, <1>4, <2>1, <2>2
<1>6. /\ parts = [k \in 1 .. n |-> SubSeq(seq, lo(k), hi(k))]
  BY DEF Portions, n, hi
<1> HIDE DEF lo
<1>7. \A k \in 1 .. n :
          /\ parts[k] \in Seq(T)
          /\ Len(parts[k]) = hi(k) - lo(k) + 1
          /\ \A i \in 1 .. hi(k) - lo(k) + 1 : parts[k][i] = seq[lo(k) + i - 1]
  <2> TAKE k \in 1 .. n
  <2>1. lo(k) \in 1 .. L /\ hi(k) \in lo(k) - 1 .. L
    BY <1>1, <1>5
  <2>2. \A i \in lo(k) .. hi(k) : seq[i] \in T
    BY <1>1, <2>1
  <2>3. /\ SubSeq(seq, lo(k), hi(k)) \in Seq(T)
        /\ Len(SubSeq(seq, lo(k), hi(k))) = hi(k) - lo(k) + 1
        /\ \A i \in 1 .. hi(k) - lo(k) + 1 :
               SubSeq(seq, lo(k), hi(k))[i] = seq[lo(k) + i - 1]
    BY <1>1, <1>5, <2>1, <2>2, SubSeqProperties
  <2> QED
    BY <1>6, <2>3
<1>8. parts \in Seq(Seq(T)) /\ Len(parts) = n
  <2>1. parts \in [1 .. n -> Seq(T)]
    BY <1>6, <1>7
  <2> QED
    BY <1>2, <2>1, SeqDef, LenProperties
<1> HIDE DEF parts
<1>9. ASSUME NEW k \in 1 .. n
      PROVE  parts[k] # <<>> /\ ToSet(parts[k]) \subseteq ToSet(seq)
  <2>1. lo(k) \in 1 .. L /\ lo(k) <= hi(k) /\ hi(k) \in 1 .. L
    BY <1>5
  <2>2. Len(parts[k]) # 0
    BY <1>1, <1>7, <2>1
  <2>3. ASSUME NEW e \in ToSet(parts[k])
        PROVE  e \in ToSet(seq)
    <3>1. PICK i \in 1 .. hi(k) - lo(k) + 1 : e = parts[k][i]
      <4>1. /\ parts[k] \in Seq(T)
            /\ Len(parts[k]) = hi(k) - lo(k) + 1
        BY <1>7
      <4>2. \E i \in 1 .. Len(parts[k]) : e = parts[k][i]
        BY <2>3, <4>1, ToSetFacts
      <4> QED
        BY <4>1, <4>2
    <3>2. e = seq[lo(k) + i - 1] /\ lo(k) + i - 1 \in 1 .. L
      BY <1>1, <1>7, <2>1, <3>1
    <3> QED
      BY <3>2, ToSetFacts
  <2> QED
    BY <1>7, <2>2, <2>3, ToSetFacts
<1>10. ASSUME NEW j \in 1 .. L
       PROVE  \E k \in 1 .. n : seq[j] \in ToSet(parts[k])
  <2> DEFINE a == j - 1
             q == a \div size
             k == q + 1
  <2>1. a \in Nat
    BY <1>1
  <2> HIDE DEF a
  <2>2. q \in Nat
    BY <2>1
  <2>3. size * q <= a /\ a < size * q + size
    BY <2>1
  <2>4. size * q \in Nat
    BY <2>2
  <2> HIDE DEF q
  <2>5. k \in 1 .. n
    <3>1. CASE q < n
      BY <1>2, <2>2, <3>1
    <3>2. CASE n <= q
      <4>1. size * n <= size * q
        BY <1>2, <2>2, <3>2
      <4>2. j = a + 1
        BY <1>1 DEF a
      <4> QED
        BY <1>1, <1>2, <2>1, <2>3, <2>4, <4>1, <4>2
    <3> QED
      BY <1>2, <2>2, <3>1, <3>2
  <2>6. size * k = size * q + size /\ size * (k - 1) = size * q
    BY <2>2
  <2>7. lo(k) = size * q + 1
    BY <2>6 DEF lo
  <2>8. lo(k) <= j /\ j <= hi(k)
    <3>1. j = a + 1
      BY <1>1 DEF a
    <3>2. hi(k) \in Nat /\ (hi(k) = L \/ hi(k) = size * q + size)
      BY <1>4, <2>5, <2>6
    <3> QED
      BY <1>1, <2>1, <2>3, <2>4, <2>7, <3>1, <3>2
  <2>9. lo(k) \in 1 .. L /\ hi(k) \in 1 .. L
    BY <1>5, <2>5
  <2> HIDE DEF k
  <2>10. j - lo(k) + 1 \in 1 .. hi(k) - lo(k) + 1 /\ lo(k) + (j - lo(k) + 1) - 1 = j
    BY <1>1, <2>8, <2>9
  <2>11. parts[k][j - lo(k) + 1] = seq[j]
    BY <1>7, <2>5, <2>10
  <2>12. seq[j] \in ToSet(parts[k])
    BY <1>7, <2>5, <2>10, <2>11, ToSetFacts
  <2> QED
    BY <2>5, <2>12
<1>11. \A e \in ToSet(seq) : \E k \in 1 .. n : e \in ToSet(parts[k])
  <2>1. \A e \in ToSet(seq) : \E j \in 1 .. L : e = seq[j]
    BY ToSetFacts
  <2> QED
    BY <1>10, <2>1
<1> QED
  BY <1>8, <1>9, <1>11 DEF parts
-----------------------------------------------------------------------------
(* The block index, as the main thread uses it here: the instances speak   *)
(* of the same operators.                                                  *)

IndexP == INSTANCE BlockIndexProofs

(* The index as it is after the switch. *)
SwitchedP == INSTANCE BlockIndexProofs WITH active_chain <-
    SubSeq(active_chain, 1, Len(active_chain) - Len(ForkRemove(Index!FirstCandidate, active_chain)))
        \o ForkAdd(Index!FirstCandidate, active_chain)

IndexInv == IndexP!Inv /\ loading = {}

LEMMA SizesPositive ==
    /\ ScanWindow \in Nat \ {0} /\ MaxConnections \in Nat \ {0} /\ WindowSize \in Nat \ {0}
    /\ LookAhead \in Nat \ {0} /\ BatchSize \in Nat \ {0} /\ RetrySize \in Nat \ {0}
    /\ MaxAskers \in Nat \ {0}
BY DownloadAssumption

LEMMA SameTree ==
    /\ \A b : IndexP!Height(b) = Height(b) /\ IndexP!Parent(b) = Parent(b)
    /\ \A b : Index!Height(b) = Height(b) /\ Index!Parent(b) = Parent(b)
    /\ \A c : IndexP!Tip(c) = Tip(c) /\ IndexP!Elems(c) = Elems(c)
    /\ \A c : Index!Tip(c) = Tip(c) /\ Index!Elems(c) = Elems(c)
    /\ \A c : IndexP!IsBranch(c) = IsBranch(c)
BY Zenon DEF IndexP!Height, IndexP!Parent, IndexP!Tip, IndexP!Elems, IndexP!IsBranch,
             Index!Height, Index!Parent, Index!Tip, Index!Elems,
             Height, Parent, Tip, Elems, IsBranch

LEMMA SameFork ==
    \A h, c : /\ IndexP!ForkAdd(h, c) = ForkAdd(h, c)
              /\ Index!ForkAdd(h, c) = ForkAdd(h, c)
              /\ IndexP!ForkRemove(h, c) = ForkRemove(h, c)
              /\ Index!ForkRemove(h, c) = ForkRemove(h, c)
              /\ IndexP!ExtendHeaderIndex(h, c) = Index!ExtendHeaderIndex(h, c)
<1>1. \A h, c : /\ IndexP!ForkAdd(h, c) = ForkAdd(h, c)
                  /\ Index!ForkAdd(h, c) = ForkAdd(h, c)
  BY Zenon DEF IndexP!ForkAdd, IndexP!CommonLen, IndexP!CommonPositions, IndexP!Height,
               Index!ForkAdd, Index!CommonLen, Index!CommonPositions, Index!Height,
               ForkAdd, CommonLen, CommonPositions, Height
<1>2. \A h, c : /\ IndexP!ForkRemove(h, c) = ForkRemove(h, c)
                  /\ Index!ForkRemove(h, c) = ForkRemove(h, c)
  BY Zenon DEF IndexP!ForkRemove, IndexP!CommonLen, IndexP!CommonPositions, IndexP!Height,
               Index!ForkRemove, Index!CommonLen, Index!CommonPositions, Index!Height,
               ForkRemove, CommonLen, CommonPositions, Height
<1>3. \A h, c : IndexP!ExtendHeaderIndex(h, c) = Index!ExtendHeaderIndex(h, c)
  BY Zenon DEF IndexP!ExtendHeaderIndex, IndexP!DropLast, IndexP!ForkAdd, IndexP!ForkRemove,
               IndexP!CommonLen, IndexP!CommonPositions, IndexP!Height, IndexP!Parent, IndexP!Tip,
               Index!ExtendHeaderIndex, Index!DropLast, Index!ForkAdd, Index!ForkRemove,
               Index!CommonLen, Index!CommonPositions, Index!Height, Index!Parent, Index!Tip
<1> QED
  BY <1>1, <1>2, <1>3, Zenon

LEMMA SameState ==
    /\ IndexP!Known = Index!Known
    /\ IndexP!ChainWork = Index!ChainWork
    /\ IndexP!LiveCandidates = Index!LiveCandidates
    /\ IndexP!InActiveChain = Index!InActiveChain
    /\ IndexP!TypeOK = Index!TypeOK
    /\ SwitchedP!LiveCandidates = Switched!LiveCandidates
BY Zenon DEF IndexP!Known, Index!Known, IndexP!ChainWork, Index!ChainWork, IndexP!Tip,
             Index!Tip, IndexP!LiveCandidates, Index!LiveCandidates, IndexP!StaleEntries,
             Index!StaleEntries, IndexP!InActiveChain, Index!InActiveChain,
             IndexP!TypeOK, Index!TypeOK, IndexP!Status, Index!Status,
             SwitchedP!LiveCandidates, Switched!LiveCandidates, SwitchedP!StaleEntries,
             Switched!StaleEntries, SwitchedP!ChainWork, Switched!ChainWork,
             SwitchedP!Tip, Switched!Tip

LEMMA SameSteps ==
    /\ \A h : IndexP!AddHeader(h) <=> Index!AddHeader(h)
    /\ \A b : IndexP!MarkDownloaded(b) <=> Index!MarkDownloaded(b)
    /\ \A b : IndexP!MoveChain(b) <=> Index!MoveChain(b)
    /\ IndexP!PopStale <=> Index!PopStale
    /\ IndexP!Init <=> Index!Init
<1>1. \A h : IndexP!AddHeader(h) <=> Index!AddHeader(h)
  BY SameTree, SameFork, SameState, Zenon DEF IndexP!AddHeader, Index!AddHeader
<1>2. \A b : IndexP!MarkDownloaded(b) <=> Index!MarkDownloaded(b)
  BY SameState, Zenon DEF IndexP!MarkDownloaded, Index!MarkDownloaded
<1>3. \A b : IndexP!MoveChain(b) <=> Index!MoveChain(b)
  BY SameTree, SameFork, Zenon
     DEF IndexP!MoveChain, Index!MoveChain, IndexP!Move, Index!Move, IndexP!CanMove, Index!CanMove
<1>4. IndexP!PopStale <=> Index!PopStale
  BY SameState, Zenon DEF IndexP!PopStale, Index!PopStale
<1>5. IndexP!Init <=> Index!Init
  BY Zenon DEF IndexP!Init, Index!Init
<1> QED
  BY <1>1, <1>2, <1>3, <1>4, <1>5

(* A new index is in order. *)
LEMMA IndexStart == Index!Init => IndexInv
<1>1. Index!Init => IndexP!Inv
  BY IndexP!InitInv, SameSteps, PathAssumption, WorkAssumption, RankAssumption, SizesPositive,
     Zenon DEF IndexP!Tip, Tip, IndexP!Parent, Parent
<1> QED
  BY <1>1, Zenon DEF IndexInv, Index!Init

(* It stays so when a header, a block or a visit comes. *)
LEMMA IndexStep ==
    ASSUME IndexInv,
           \/ \E h \in Blocks : Index!AddHeader(h) \/ Index!MarkDownloaded(h)
           \/ Index!PopStale
           \/ UNCHANGED indexVars
    PROVE  IndexInv'
<1>1. [IndexP!Next]_indexVars
  BY SameSteps, Zenon DEF IndexInv, IndexP!Next, IndexP!Use
<1>2. IndexP!Inv /\ [IndexP!Next]_indexVars => IndexP!Inv'
  BY IndexP!NextInv, PathAssumption, WorkAssumption, RankAssumption, SizesPositive, Zenon
     DEF IndexP!Tip, Tip, IndexP!Parent, Parent, IndexP!indexVars, indexVars
<1>3. loading' = loading
  BY Zenon DEF indexVars, Index!AddHeader, Index!MarkDownloaded, Index!PopStale
<1> QED
  BY <1>1, <1>2, <1>3, Zenon DEF IndexInv

(* What there is to know of an index in order. *)
LEMMA IndexFacts ==
    ASSUME IndexInv
    PROVE  /\ Index!TypeOK
           /\ block_candidates \in Seq(Blocks)
           /\ downloaded \subseteq Index!Known
           /\ Index!Known \subseteq Blocks
           /\ active_chain \in Seq(Blocks) /\ IsBranch(active_chain)
           /\ Index!LiveCandidates \in Seq(Blocks)
           /\ Index!ChainWork = Work[Tip(active_chain)]
<1>1. /\ IndexP!TypeOK /\ IndexP!ActiveChainRecorded
  BY Zenon DEF IndexInv, IndexP!Inv
<1>2. Index!TypeOK
  BY <1>1, SameState, Zenon
<1>3. IsBranch(active_chain)
  BY <1>1, SameTree, Zenon DEF IndexP!ActiveChainRecorded
<1>4. Index!LiveCandidates \in Seq(Blocks)
  <2>1. block_candidates \in Seq(Blocks)
    BY <1>1, Zenon DEF IndexP!TypeOK
  <2>2. IndexP!ChainWork \in Nat
    BY IndexP!GenesisKnown, PathAssumption, WorkAssumption, RankAssumption, SizesPositive,
       Zenon DEF IndexInv, IndexP!Tip, Tip, IndexP!Parent, Parent
  <2>3. IndexP!LiveCandidates \in Seq(Blocks)
    BY <2>1, <2>2, IndexP!LiveFacts, PathAssumption, WorkAssumption, RankAssumption,
       SizesPositive, Zenon DEF IndexP!Tip, Tip, IndexP!Parent, Parent
  <2> QED
    BY <2>3, SameState, Zenon
<1>5. Index!ChainWork = Work[Tip(active_chain)]
  BY SameTree, Zenon DEF Index!ChainWork
<1> QED
  BY <1>2, <1>3, <1>4, <1>5 DEF Index!TypeOK, Index!Known

(* The branch get_first_candidate returns is heavier than the active chain.*)
LEMMA CandidateFacts ==
    ASSUME IndexInv, Index!HasCandidate
    PROVE  /\ Index!FirstCandidate \in Blocks
           /\ Work[Index!FirstCandidate] > Work[Tip(active_chain)]
<1> DEFINE q == Index!LiveCandidates
           pool == IF Index!BetterDownloaded # {} THEN Index!BetterDownloaded ELSE Index!Better
           m == CHOOSE i \in pool : \A j \in pool : i <= j
<1>1. q \in Seq(Blocks) /\ Len(q) \in Nat /\ \A i \in 1 .. Len(q) : q[i] \in Blocks
  BY IndexFacts, ElementOfSeq, LenProperties
<1>2. /\ \A i \in Index!Better : i \in 1 .. Len(q) /\ Work[q[i]] > Index!ChainWork
      /\ Index!BetterDownloaded \subseteq Index!Better
  BY DEF Index!Better, Index!BetterDownloaded
<1>3. pool # {} /\ pool \subseteq Index!Better
  BY <1>2 DEF Index!HasCandidate
<1>4. pool \in SUBSET Nat
  BY <1>1, <1>2, <1>3
<1>5. m \in pool
  <2> HIDE DEF pool
  <2>1. \E i \in pool : \A j \in pool : i <= j
    BY <1>3, <1>4, MinExists
  <2> QED
    BY <2>1
<1>6. Index!FirstCandidate = q[m]
  BY Zenon DEF Index!FirstCandidate
<1> HIDE DEF m, pool, q
<1>7. m \in 1 .. Len(q) /\ Work[q[m]] > Index!ChainWork
  BY <1>2, <1>3, <1>5
<1> QED
  BY <1>1, <1>6, <1>7, IndexFacts

(* update_chain switches to a branch whose blocks have all arrived. *)
LEMMA SwitchStep ==
    ASSUME IndexInv, SwitchBranch
    PROVE  IndexInv' /\ UNCHANGED downloaded
<1> DEFINE b == Index!FirstCandidate
           add == ForkAdd(b, active_chain)
           next == SubSeq(active_chain, 1, Len(active_chain) - Len(ForkRemove(b, active_chain)))
                      \o add
<1>1. /\ Index!HasCandidate /\ Elems(add) \subseteq downloaded
      /\ Index!MoveChain(b)
      /\ block_candidates' = Switched!LiveCandidates
      /\ UNCHANGED <<downloaded, header_index, loading>>
  BY DEF SwitchBranch, HasBranch
<1>2. /\ b \in Blocks /\ Work[b] > Work[Tip(active_chain)] /\ Work[b] \in Nat
      /\ active_chain \in Seq(Blocks) /\ IsBranch(active_chain)
      /\ block_candidates \in Seq(Blocks)
      /\ downloaded \subseteq Index!Known
  BY <1>1, CandidateFacts, IndexFacts, WorkAssumption
<1>3. /\ next = Path[b] /\ Tip(add) = b
      /\ add \in Seq(Blocks) /\ Len(add) \in Nat \ {0}
  <2>1. /\ next = Path[b] /\ Tip(add) = b /\ add \in Seq(Blocks)
        /\ CommonLen(b, active_chain) \in 1 .. Len(Path[b]) - 1
        /\ Len(add) = Len(Path[b]) - CommonLen(b, active_chain)
    BY <1>2, HeavierForkFacts
  <2>2. Len(Path[b]) \in Nat
    BY <1>2, PathFacts
  <2> QED
    BY <2>1, <2>2
<1>4. b \in Index!Known
  BY <1>1, <1>2, <1>3 DEF Tip, Elems
<1>5. SwitchedP!ChainWork = Work[b]
  <2>1. SwitchedP!ChainWork = Work[Tip(next)]
    BY Zenon DEF SwitchedP!ChainWork, SwitchedP!Tip, Tip
  <2>2. Tip(Path[b]) = b
    BY <1>2, PathFacts DEF Tip
  <2> QED
    BY <1>3, <2>1, <2>2
<1>6. /\ block_candidates' \in Seq(Blocks)
      /\ \A a \in Elems(block_candidates) :
            Work[a] > Work[b] => a \in Elems(block_candidates')
  <2>1. /\ SwitchedP!LiveCandidates \in Seq(Blocks)
        /\ \A a \in SwitchedP!Elems(block_candidates) :
              Work[a] > SwitchedP!ChainWork => a \in SwitchedP!Elems(SwitchedP!LiveCandidates)
    BY <1>2, <1>5, SwitchedP!LiveFacts, PathAssumption, WorkAssumption, RankAssumption,
       SizesPositive, Zenon DEF SwitchedP!Tip, Tip, SwitchedP!Parent, Parent
  <2>2. \A c : SwitchedP!Elems(c) = Elems(c)
    BY Zenon DEF SwitchedP!Elems, Elems
  <2> QED
    BY <1>1, <1>5, <2>1, <2>2, SameState, Zenon
<1>7. IndexP!Inv'
  <2>1. /\ IndexP!Inv /\ loading = {} /\ b \in IndexP!Known
        /\ Work[b] > IndexP!ChainWork
        /\ IndexP!MoveChain(b)
        /\ IndexP!Elems(IndexP!ForkAdd(b, active_chain)) \subseteq IndexP!Known
        /\ UNCHANGED <<downloaded, header_index, loading>>
        /\ block_candidates' \in Seq(Blocks)
        /\ \A a \in IndexP!Elems(block_candidates) :
              Work[a] > Work[b] => a \in IndexP!Elems(block_candidates')
    <3>1. IndexP!Elems(IndexP!ForkAdd(b, active_chain)) = Elems(add)
      BY SameTree, SameFork, Zenon
    <3>2. /\ IndexP!Known = Index!Known /\ IndexP!ChainWork = Index!ChainWork
          /\ Index!ChainWork = Work[Tip(active_chain)]
      BY SameState, IndexFacts
    <3>3. IndexP!MoveChain(b)
      BY <1>1, SameSteps, Zenon
    <3>4. /\ IndexP!Elems(block_candidates) = Elems(block_candidates)
          /\ IndexP!Elems(block_candidates') = Elems(block_candidates')
      BY SameTree, Zenon
    <3>5. Elems(add) \subseteq IndexP!Known
      BY <1>1, <1>2, <3>2
    <3> QED
      BY <1>1, <1>2, <1>4, <1>6, <3>1, <3>2, <3>3, <3>4, <3>5, Zenon DEF IndexInv
  <2> HIDE DEF b
  <2> QED
    BY <2>1, IndexP!MoveChainInv, PathAssumption, WorkAssumption, RankAssumption,
       SizesPositive, Zenon DEF IndexP!Tip, Tip, IndexP!Parent, Parent
<1> QED
  BY <1>1, <1>7, Zenon DEF IndexInv
-----------------------------------------------------------------------------
(* get_download_candidates.                                                *)

LEMMA ImageFinite ==
    ASSUME NEW S, IsFiniteSet(S), NEW f
    PROVE  IsFiniteSet({f[x] : x \in S})
<1> DEFINE T == {f[x] : x \in S}
           g == [x \in S |-> f[x]]
<1>1. g \in Surjection(S, T)
  BY DEF Surjection
<1> HIDE DEF g, T
<1>2. IsFiniteSet(T)
  BY <1>1, FS_Surjection
<1> QED
  BY <1>2 DEF T

LEMMA ElemsFinite ==
    ASSUME NEW T, NEW seq \in Seq(T)
    PROVE  IsFiniteSet(Elems(seq))
<1>1. Len(seq) \in Nat
  BY LenProperties
<1>2. IsFiniteSet(1 .. Len(seq))
  BY <1>1, FS_Interval
<1> QED
  BY <1>2, ImageFinite DEF Elems

(* What the first candidates name is finite and grows with their number;   *)
(* the candidate that names a block first has it on its branch.            *)
LEMMA MissingFacts ==
    ASSUME IndexInv, NEW n \in 0 .. Len(block_candidates)
    PROVE  /\ IsFiniteSet(MissingUpTo(n))
           /\ MissingUpTo(n) \subseteq Blocks
           /\ \A b \in MissingUpTo(n) :
                 \E i \in 1 .. n : b \in NamedBy(i) /\ b \in MissingUpTo(i)
<1> DEFINE live(m) == {j \in 1 .. m : Work[block_candidates[j]] > Index!ChainWork}
           named(m) == UNION {NamedBy(i) : i \in live(m)}
           gone == Index!InActiveChain \cup downloaded
<1>1. /\ Len(block_candidates) \in Nat
      /\ \A i \in 1 .. n : i \in 1 .. Len(block_candidates) /\ block_candidates[i] \in Blocks
  BY IndexFacts, LenProperties, ElementOfSeq
<1>2. \A i \in 1 .. n : IsFiniteSet(NamedBy(i)) /\ NamedBy(i) \subseteq Blocks
  <2> TAKE i \in 1 .. n
  <2>1. /\ Path[block_candidates[i]] \in Seq(Blocks)
        /\ \A j \in 1 .. Len(Path[block_candidates[i]]) :
              Path[block_candidates[i]][j] \in Blocks
    BY <1>1, PathFacts
  <2> QED
    BY <2>1, ElemsFinite DEF NamedBy, Elems
<1>3. \A m : MissingUpTo(m) = named(m) \ gone
  BY Zenon DEF MissingUpTo
<1>4. IsFiniteSet(live(n))
  <2>1. IsFiniteSet(1 .. n) /\ live(n) \in SUBSET (1 .. n)
    BY <1>1, FS_Interval
  <2> QED
    BY <2>1, FS_Subset
<1> HIDE DEF gone
<1>5. IsFiniteSet(MissingUpTo(n))
  <2>1. IsFiniteSet({NamedBy(i) : i \in live(n)})
    <3> DEFINE f == [i \in live(n) |-> NamedBy(i)]
    <3> HIDE DEF live
    <3>1. {f[i] : i \in live(n)} = {NamedBy(i) : i \in live(n)}
      OBVIOUS
    <3> HIDE DEF f
    <3>2. IsFiniteSet({f[i] : i \in live(n)})
      BY <1>4, ImageFinite
    <3> QED
      BY <3>1, <3>2
  <2>2. \A T \in {NamedBy(i) : i \in live(n)} : IsFiniteSet(T)
    BY <1>2
  <2>3. IsFiniteSet(named(n))
    BY <2>1, <2>2, FS_UNION
  <2> HIDE DEF named
  <2> QED
    BY <1>3, <2>3, FS_Difference
<1>6. ASSUME NEW b \in MissingUpTo(n)
      PROVE  b \in Blocks /\ \E i \in 1 .. n : b \in NamedBy(i) /\ b \in MissingUpTo(i)
  <2>1. PICK i \in live(n) : b \in NamedBy(i)
    BY <1>3, <1>6
  <2>2. b \notin gone
    BY <1>3, <1>6
  <2>3. i \in 1 .. n /\ i \in live(i)
    BY <1>1, <2>1
  <2>4. b \in MissingUpTo(i)
    BY <1>3, <2>1, <2>2, <2>3
  <2> QED
    BY <1>2, <2>1, <2>3, <2>4
<1> QED
  BY <1>5, <1>6

LEMMA CandidatesType ==
    ASSUME IndexInv
    PROVE  DownloadCandidates \in Seq(Blocks)
<1> DEFINE L == Len(block_candidates)
           entries == 0 .. L
           k == CHOOSE n \in entries :
                   /\ n = L \/ Cardinality(MissingUpTo(n)) >= WindowSize
                   /\ \A m \in entries : m < n => Cardinality(MissingUpTo(m)) < WindowSize
           named(b) == CHOOSE i \in 1 .. k :
                           /\ b \in MissingUpTo(i)
                           /\ \A j \in 1 .. i - 1 : b \notin MissingUpTo(j)
           before(a, b) == \/ Height(a) < Height(b)
                           \/ Height(a) = Height(b) /\ named(a) < named(b)
           missing == MissingUpTo(k)
           R == {r \in missing \X missing : before(r[1], r[2])}
           found == SortBy(missing, R)
<1>1. L \in Nat /\ \A i \in 1 .. L : block_candidates[i] \in Blocks
  BY IndexFacts, LenProperties, ElementOfSeq
<1>2. k \in entries
  <2> DEFINE S == {n \in entries : n = L \/ Cardinality(MissingUpTo(n)) >= WindowSize}
  <2>1. \A n \in entries : Cardinality(MissingUpTo(n)) \in Nat
    BY MissingFacts, FS_CardinalityType
  <2>2. S \in SUBSET Nat /\ S # {}
    BY <1>1
  <2>3. PICK n \in S : \A m \in S : n <= m
    BY <2>2, MinExists
  <2>4. n \in entries /\ (n = L \/ Cardinality(MissingUpTo(n)) >= WindowSize)
    BY <2>3
  <2>5. ASSUME NEW m \in entries, m < n
        PROVE  Cardinality(MissingUpTo(m)) < WindowSize
    <3>1. m \notin S
      BY <1>1, <2>3, <2>4, <2>5
    <3>2. ~ (Cardinality(MissingUpTo(m)) >= WindowSize)
      BY <3>1
    <3> QED
      BY <2>1, <3>2, SizesPositive
  <2> HIDE DEF entries
  <2> QED
    BY <2>4, <2>5, Zenon
<1> HIDE DEF k
<1>3. k \in Nat /\ k <= L
  BY <1>1, <1>2
<1>4. /\ IsFiniteSet(missing) /\ missing \subseteq Blocks
      /\ \A b \in missing : \E i \in 1 .. k : b \in NamedBy(i) /\ b \in MissingUpTo(i)
  BY <1>2, MissingFacts
<1>5. ASSUME NEW b \in missing
      PROVE  /\ named(b) \in 1 .. k
             /\ b \in NamedBy(named(b))
  <2> DEFINE S == {i \in 1 .. k : b \in MissingUpTo(i)}
  <2>1. S \in SUBSET Nat /\ S # {}
    BY <1>3, <1>4
  <2>2. PICK i \in S : \A j \in S : i <= j
    BY <2>1, MinExists
  <2>3. i \in 1 .. k /\ b \in MissingUpTo(i) /\ \A j \in 1 .. i - 1 : b \notin MissingUpTo(j)
    <3>1. i \in 1 .. k /\ b \in MissingUpTo(i)
      BY <2>2
    <3>2. \A j \in 1 .. i - 1 : j \in 1 .. k /\ ~ (i <= j)
      BY <1>3, <3>1
    <3> QED
      BY <2>2, <3>1, <3>2
  <2>4. /\ named(b) \in 1 .. k
        /\ b \in MissingUpTo(named(b))
        /\ \A j \in 1 .. named(b) - 1 : b \notin MissingUpTo(j)
    BY <2>3, Zenon
  <2> HIDE DEF named
  <2>5. named(b) \in 0 .. L
    BY <1>1, <1>3, <2>4
  <2>6. PICK j \in 1 .. named(b) : b \in NamedBy(j) /\ b \in MissingUpTo(j)
    BY <2>4, <2>5, MissingFacts
  <2>7. j = named(b)
    BY <2>4, <2>5, <2>6
  <2> QED
    BY <2>4, <2>6, <2>7
<1> HIDE DEF named
<1>6. \A b \in Blocks : Height(b) \in Int
  <2> TAKE b \in Blocks
  <2>1. Len(Path[b]) \in Nat
    BY PathFacts
  <2> QED
    BY <2>1 DEF Height
<1>7. ASSUME NEW a \in missing, NEW b \in missing, Height(a) = Height(b), named(a) = named(b)
      PROVE  a = b
  <2> DEFINE c == block_candidates[named(a)]
  <2>1. named(a) \in 1 .. L /\ c \in Blocks
    BY <1>1, <1>3, <1>5
  <2>2. a \in Elems(Path[c]) /\ b \in Elems(Path[c])
    BY <1>5, <1>7 DEF NamedBy
  <2> HIDE DEF c
  <2>3. PICK x \in 1 .. Len(Path[c]) : a = Path[c][x]
    BY <2>2 DEF Elems
  <2>4. PICK y \in 1 .. Len(Path[c]) : b = Path[c][y]
    BY <2>2 DEF Elems
  <2>5. Height(a) = x - 1 /\ Height(b) = y - 1 /\ Len(Path[c]) \in Nat
    BY <2>1, <2>3, <2>4, PrefixFacts, PathFacts
  <2>6. x = y
    BY <1>7, <2>3, <2>4, <2>5
  <2> QED
    BY <2>3, <2>4, <2>6
<1>8. \A b \in missing : Height(b) \in Int /\ named(b) \in Int
  <2> TAKE b \in missing
  <2>1. b \in Blocks /\ named(b) \in 1 .. k
    BY <1>4, <1>5
  <2> QED
    BY <1>3, <1>6, <2>1
<1>9. \A a, b \in missing : <<a, b>> \in R <=> before(a, b)
  BY Zenon
<1> HIDE DEF missing, R
<1>10. Orders(R, missing)
  <2>1. \A a \in missing : ~ before(a, a)
    BY <1>8
  <2>2. \A a, b, c \in missing : before(a, b) /\ before(b, c) => before(a, c)
    BY <1>8
  <2>3. \A a, b \in missing : a # b => before(a, b) \/ before(b, a)
    BY <1>7, <1>8
  <2> HIDE DEF before
  <2> QED
    BY <1>9, <2>1, <2>2, <2>3 DEF Orders
<1>11. found \in Seq(missing)
  BY <1>4, <1>10, SortByFacts
<1>12. DownloadCandidates = SubSeq(found, 1, Min({WindowSize, Len(found)}))
  BY Zenon DEF DownloadCandidates, k, missing, R, named
<1> HIDE DEF found
<1>13. found \in Seq(Blocks) /\ Len(found) \in Nat /\ \A i \in 1 .. Len(found) : found[i] \in Blocks
  <2>1. Len(found) \in Nat /\ \A i \in 1 .. Len(found) : found[i] \in missing
    BY <1>11, LenProperties, ElementOfSeq
  <2> QED
    BY <1>4, <1>11, <2>1
<1> DEFINE last == Min({WindowSize, Len(found)})
<1>14. last \in 0 .. Len(found)
  <2> DEFINE S == {WindowSize, Len(found)}
  <2>1. S \in SUBSET Nat /\ S # {}
    BY <1>13, SizesPositive
  <2>2. PICK m \in S : \A i \in S : m <= i
    BY <2>1, MinExists
  <2>3. last \in S /\ \A i \in S : last <= i
    BY <2>2 DEF Min
  <2> QED
    BY <1>13, <2>1, <2>3
<1> HIDE DEF last
<1>15. SubSeq(found, 1, last) \in Seq(Blocks)
  <2>1. \A i \in 1 .. last : found[i] \in Blocks
    BY <1>13, <1>14
  <2> QED
    BY <1>13, <1>14, <2>1, SubSeqProperties
<1> QED
  BY <1>12, <1>15 DEF last
-----------------------------------------------------------------------------
(* A round of block_download.                                              *)

(* A set of positions has a first one. *)
LEMMA FirstOf ==
    ASSUME NEW S \in SUBSET Nat, S # {}
    PROVE  Min(S) \in S /\ \A i \in S : Min(S) <= i
<1>1. PICK m \in S : \A i \in S : m <= i
  BY MinExists
<1> QED
  BY <1>1 DEF Min

(* Blocks asked for once more are blocks asked for. *)
LEMMA RepeatsType ==
    ASSUME NEW queued \in Seq(Blocks)
    PROVE  /\ Repeats(queued) \in Seq(Blocks)
           /\ ToSet(Repeats(queued)) \subseteq ToSet(queued)
<1> DEFINE askers(b) == {i \in DOMAIN queued : queued[i] = b}
           before(a, b) ==
               \/ Cardinality(askers(a)) < Cardinality(askers(b))
               \/ /\ Cardinality(askers(a)) = Cardinality(askers(b))
                  /\ Min(askers(a)) > Min(askers(b))
           few == {b \in ToSet(queued) : Cardinality(askers(b)) < MaxAskers}
           R == {r \in few \X few : before(r[1], r[2])}
<1>1. /\ Len(queued) \in Nat /\ DOMAIN queued = 1 .. Len(queued)
      /\ ToSet(queued) \subseteq Blocks
      /\ \A e \in ToSet(queued) : \E i \in 1 .. Len(queued) : e = queued[i]
  BY ToSetFacts, LenProperties
<1>2. IsFiniteSet(1 .. Len(queued))
  BY <1>1, FS_Interval
<1>3. ASSUME NEW b \in few
      PROVE  /\ Cardinality(askers(b)) \in Nat
             /\ Min(askers(b)) \in Nat /\ Min(askers(b)) \in askers(b)
  <2>1. askers(b) \in SUBSET (1 .. Len(queued)) /\ askers(b) # {}
    BY <1>1
  <2>2. IsFiniteSet(askers(b))
    BY <1>2, <2>1, FS_Subset
  <2>3. askers(b) \in SUBSET Nat
    BY <1>1, <2>1
  <2> HIDE DEF askers
  <2> QED
    BY <2>1, <2>2, <2>3, FS_CardinalityType, FirstOf
<1>4. ASSUME NEW a \in few, NEW b \in few, Min(askers(a)) = Min(askers(b))
      PROVE  a = b
  <2>1. queued[Min(askers(a))] = a /\ queued[Min(askers(b))] = b
    <3>1. \A c, i : i \in askers(c) => queued[i] = c
      OBVIOUS
    <3> HIDE DEF askers
    <3> QED
      BY <1>3, <3>1
  <2> QED
    BY <1>4, <2>1
<1>5. IsFiniteSet(few)
  <2>1. ToSet(queued) = {queued[i] : i \in 1 .. Len(queued)}
    BY ToSetFacts
  <2>2. IsFiniteSet(ToSet(queued))
    BY <1>2, <2>1, ImageFinite
  <2>3. few \in SUBSET ToSet(queued)
    OBVIOUS
  <2> QED
    BY <2>2, <2>3, FS_Subset
<1>6. Repeats(queued) = SortBy(few, R)
  BY Zenon DEF Repeats
<1>7. few \subseteq ToSet(queued)
  OBVIOUS
<1>8. \A a, b \in few : <<a, b>> \in R <=> before(a, b)
  BY Zenon
<1> HIDE DEF few, R, askers
<1>9. Orders(R, few)
  <2>1. \A a \in few : ~ before(a, a)
    BY <1>3
  <2>2. \A a, b, c \in few : before(a, b) /\ before(b, c) => before(a, c)
    BY <1>3
  <2>3. \A a, b \in few : a # b => before(a, b) \/ before(b, a)
    BY <1>3, <1>4
  <2> HIDE DEF before
  <2> QED
    BY <1>8, <2>1, <2>2, <2>3 DEF Orders
<1>10. SortBy(few, R) \in Seq(few) /\ ToSet(SortBy(few, R)) = few
  BY <1>5, <1>9, SortByFacts
<1>11. SortBy(few, R) \in Seq(Blocks)
  <2>1. \A i \in 1 .. Len(SortBy(few, R)) : SortBy(few, R)[i] \in Blocks
    BY <1>1, <1>7, <1>10, ElementOfSeq
  <2> QED
    BY <1>10, <2>1
<1> QED
  BY <1>6, <1>7, <1>10, <1>11

(* The offers of a round: none is empty, all are blocks of the window, and *)
(* the blocks of the window nobody is asked for are among them.            *)
LEMMA OffersFacts ==
    ASSUME NEW window \in Seq(Blocks), NEW queued \in Seq(Blocks),
           ToSet(queued) \subseteq ToSet(window)
    PROVE  LET offers == Offers(window, queued)
           IN  /\ offers \in Seq(Seq(Blocks))
               /\ \A k \in 1 .. Len(offers) :
                     offers[k] # <<>> /\ ToSet(offers[k]) \subseteq ToSet(window)
               /\ \A e \in ToSet(window) \ ToSet(queued) :
                     \E k \in 1 .. Len(offers) : e \in ToSet(offers[k])
<1> DEFINE waiting == Without(window, ToSet(queued))
           more == Repeats(queued)
           s == Portions(waiting, BatchSize)
           t == Portions(more, RetrySize)
           offers == s \o t
<1>1. waiting \in Seq(Blocks) /\ ToSet(waiting) = ToSet(window) \ ToSet(queued)
  BY WithoutFacts
<1>2. more \in Seq(Blocks) /\ ToSet(more) \subseteq ToSet(queued)
  BY RepeatsType
<1> HIDE DEF waiting, more
<1>3. /\ s \in Seq(Seq(Blocks))
      /\ \A k \in 1 .. Len(s) : s[k] # <<>> /\ ToSet(s[k]) \subseteq ToSet(waiting)
      /\ \A e \in ToSet(waiting) : \E k \in 1 .. Len(s) : e \in ToSet(s[k])
  BY <1>1, SizesPositive, PortionsFacts
<1>4. /\ t \in Seq(Seq(Blocks))
      /\ \A k \in 1 .. Len(t) : t[k] # <<>> /\ ToSet(t[k]) \subseteq ToSet(more)
  BY <1>2, SizesPositive, PortionsFacts
<1>5. Offers(window, queued) = offers
  BY DEF Offers, waiting, more
<1> HIDE DEF s, t
<1>6. /\ offers \in Seq(Seq(Blocks))
      /\ Len(s) \in Nat /\ Len(t) \in Nat
      /\ Len(offers) = Len(s) + Len(t)
      /\ \A k \in 1 .. Len(s) + Len(t) : offers[k] = IF k <= Len(s) THEN s[k] ELSE t[k - Len(s)]
  BY <1>3, <1>4, ConcatProperties, LenProperties
<1> HIDE DEF offers
<1>7. ASSUME NEW k \in 1 .. Len(offers)
      PROVE  offers[k] # <<>> /\ ToSet(offers[k]) \subseteq ToSet(window)
  <2>1. CASE k <= Len(s)
    <3>1. k \in 1 .. Len(s) /\ offers[k] = s[k]
      BY <1>6, <2>1
    <3> QED
      BY <1>1, <1>3, <3>1
  <2>2. CASE k > Len(s)
    <3>1. k - Len(s) \in 1 .. Len(t) /\ offers[k] = t[k - Len(s)]
      BY <1>6, <2>2
    <3> QED
      BY <1>2, <1>4, <3>1
  <2> QED
    BY <1>6, <2>1, <2>2
<1>8. ASSUME NEW e \in ToSet(window) \ ToSet(queued)
      PROVE  \E k \in 1 .. Len(offers) : e \in ToSet(offers[k])
  <2>1. PICK k \in 1 .. Len(s) : e \in ToSet(s[k])
    BY <1>1, <1>3
  <2>2. k \in 1 .. Len(offers) /\ offers[k] = s[k]
    BY <1>6, <2>1
  <2> QED
    BY <2>1, <2>2
<1> QED
  BY <1>5, <1>6, <1>7, <1>8

(* Who is offered what: the k-th idle connection the k-th offer. *)
LEMMA OfferToFacts ==
    ASSUME NEW idle \in Seq(Peers), NoRepeats(idle), NEW offers \in Seq(Seq(Blocks))
    PROVE  /\ \A p : \/ OfferTo(p, idle, offers) = <<>>
                     \/ \E k \in 1 .. Len(offers) : OfferTo(p, idle, offers) = offers[k]
           /\ \A k \in 1 .. Len(idle) :
                 k <= Len(offers) => OfferTo(idle[k], idle, offers) = offers[k]
<1> DEFINE turns(p) == {k \in DOMAIN idle : k <= Len(offers) /\ idle[k] = p}
<1>1. Len(idle) \in Nat /\ DOMAIN idle = 1 .. Len(idle) /\ Len(offers) \in Nat
  BY LenProperties
<1>2. \A p : OfferTo(p, idle, offers) = IF turns(p) = {} THEN <<>> ELSE offers[Min(turns(p))]
  BY DEF OfferTo
<1>3. ASSUME NEW p, turns(p) # {}
      PROVE  /\ Min(turns(p)) \in 1 .. Len(offers) /\ Min(turns(p)) \in turns(p)
  <2>1. turns(p) \in SUBSET Nat /\ turns(p) \subseteq 1 .. Len(offers)
    BY <1>1
  <2> HIDE DEF turns
  <2> QED
    BY <1>3, <2>1, FirstOf
<1>4. ASSUME NEW k \in 1 .. Len(idle), k <= Len(offers)
      PROVE  turns(idle[k]) = {k}
  BY <1>1, <1>4 DEF NoRepeats
<1> HIDE DEF turns
<1>5. ASSUME NEW k \in 1 .. Len(idle), k <= Len(offers)
      PROVE  OfferTo(idle[k], idle, offers) = offers[k]
  <2>1. turns(idle[k]) = {k}
    BY <1>4, <1>5
  <2>2. Min(turns(idle[k])) = k
    BY <1>3, <2>1
  <2> QED
    BY <1>2, <2>1, <2>2
<1> QED
  BY <1>2, <1>3, <1>5
-----------------------------------------------------------------------------
(* The inductive invariant.  A queue is filled from the window alone; that *)
(* the lists have the right elements needs the index to be in order, and   *)
(* that an offer reaches the connection whose turn it is needs the list of *)
(* connections to name each once, and that a round stops connections only  *)
(* needs the clock of a connection to be gone with it.                     *)
NoClock == \A p \in Peers : conn_status[p] = "Absent" => silence[p] = 0

Inv ==
    /\ IndexInv
    /\ TypeOK
    /\ NoRepeats(connections)
    /\ NoClock
    /\ QueuedInWindow

(* The window and the queues without what has arrived. *)
LEMMA RoundFacts ==
    ASSUME Inv
    PROVE  /\ NextWindow \in Seq(Blocks)
           /\ Idle \in Seq(Peers) /\ NoRepeats(Idle)
           /\ ToSet(Idle) = ToSet(connections) \ {p \in Peers : Kept(p) # <<>>}
           /\ \A p \in Peers :
                 /\ Kept(p) \in Seq(Blocks)
                 /\ ToSet(Kept(p)) \subseteq ToSet(NextWindow)
                 /\ ToSet(download_queue[p]) \ downloaded \subseteq ToSet(NextWindow)
           /\ Queued \in Seq(Blocks)
           /\ \A b : b \in ToSet(Queued) <=> \E p \in ToSet(connections) : b \in ToSet(Kept(p))
<1> DEFINE w == IF block_window = <<>> THEN DownloadCandidates ELSE block_window
<1>1. /\ block_window \in Seq(Blocks) /\ connections \in Seq(Peers)
      /\ download_queue \in [Peers -> Seq(Blocks)]
      /\ ToSet(connections) \subseteq Peers
  BY ToSetFacts DEF Inv, TypeOK
<1>2. w \in Seq(Blocks) /\ ToSet(block_window) \subseteq ToSet(w)
  <2>1. DownloadCandidates \in Seq(Blocks)
    BY CandidatesType DEF Inv
  <2>2. block_window = <<>> => ToSet(block_window) = {}
    BY <1>1, ToSetFacts
  <2> QED
    BY <1>1, <2>1, <2>2
<1>3. NextWindow = Without(w, downloaded)
  BY DEF NextWindow
<1> HIDE DEF w
<1>4. NextWindow \in Seq(Blocks) /\ ToSet(NextWindow) = ToSet(w) \ downloaded
  BY <1>2, <1>3, WithoutFacts
<1>5. \A p \in Peers : ToSet(download_queue[p]) \ downloaded \subseteq ToSet(NextWindow)
  BY <1>2, <1>4 DEF Inv, QueuedInWindow
<1>6. ASSUME NEW p \in Peers
      PROVE  Kept(p) \in Seq(Blocks) /\ ToSet(Kept(p)) \subseteq ToSet(NextWindow)
  <2>1. CASE Late(p)
    <3>1. Kept(p) = <<>> /\ <<>> \in Seq(Blocks)
      BY <2>1 DEF Kept
    <3> QED
      BY <3>1, ToSetFacts
  <2>2. CASE ~ Late(p)
    <3>1. download_queue[p] \in Seq(Blocks) /\ Kept(p) = Without(download_queue[p], downloaded)
      BY <1>1, <2>2 DEF Kept
    <3>2. Kept(p) \in Seq(Blocks) /\ ToSet(Kept(p)) = ToSet(download_queue[p]) \ downloaded
      BY <3>1, WithoutFacts
    <3> QED
      BY <1>5, <3>2
  <2> QED
    BY <2>1, <2>2
<1>7. /\ Idle \in Seq(Peers) /\ NoRepeats(Idle)
      /\ ToSet(Idle) = ToSet(connections) \ {p \in Peers : Kept(p) # <<>>}
  BY <1>1, WithoutFacts DEF Idle, Inv
<1>8. /\ Queued \in Seq(Blocks)
      /\ \A b : b \in ToSet(Queued) <=> \E p \in ToSet(connections) : b \in ToSet(Kept(p))
  <2> DEFINE seqs == [i \in DOMAIN connections |-> Kept(connections[i])]
  <2>1. /\ Len(connections) \in Nat /\ DOMAIN connections = 1 .. Len(connections)
        /\ \A i \in 1 .. Len(connections) : connections[i] \in ToSet(connections)
        /\ \A p \in ToSet(connections) : \E i \in 1 .. Len(connections) : p = connections[i]
    BY <1>1, ToSetFacts, LenProperties
  <2>2. /\ \A i \in 1 .. Len(connections) : /\ seqs[i] = Kept(connections[i])
                                            /\ seqs[i] \in Seq(Blocks)
    BY <1>1, <1>6, <2>1
  <2>3. seqs \in Seq(Seq(Blocks)) /\ Len(seqs) = Len(connections)
    <3>1. seqs \in [1 .. Len(connections) -> Seq(Blocks)]
      BY <2>1, <2>2
    <3> QED
      BY <2>1, <3>1, SeqDef, LenProperties
  <2>4. Queued = FlattenSeq(seqs)
    BY DEF Queued
  <2> HIDE DEF seqs
  <2>5. /\ Queued \in Seq(Blocks)
        /\ \A b : b \in ToSet(Queued) <=>
                      \E i \in 1 .. Len(connections) : b \in ToSet(Kept(connections[i]))
    BY <2>2, <2>3, <2>4, FlattenFacts
  <2>6. ASSUME NEW b
        PROVE  b \in ToSet(Queued) <=> \E p \in ToSet(connections) : b \in ToSet(Kept(p))
    BY <2>1, <2>5, Zenon
  <2> QED
    BY <2>5, <2>6
<1> QED
  BY <1>4, <1>5, <1>6, <1>7, <1>8

(* What the idle connections are offered. *)
LEMMA NewFacts ==
    ASSUME Inv
    PROVE  LET offers == Offers(NextWindow, Queued)
               new(p) == OfferTo(p, Idle, offers)
           IN  /\ Len(Idle) \in Nat /\ Len(offers) \in Nat
               /\ \A p \in Peers :
                     new(p) \in Seq(Blocks) /\ ToSet(new(p)) \subseteq ToSet(NextWindow)
               /\ \A k \in 1 .. Len(Idle) :
                     k <= Len(offers) => new(Idle[k]) = offers[k] /\ offers[k] # <<>>
               /\ \A b \in ToSet(NextWindow) \ ToSet(Queued) :
                     \E k \in 1 .. Len(offers) : b \in ToSet(offers[k])
<1> DEFINE offers == Offers(NextWindow, Queued)
           new(p) == OfferTo(p, Idle, offers)
<1>1. NextWindow \in Seq(Blocks) /\ Queued \in Seq(Blocks) /\ ToSet(Queued) \subseteq ToSet(NextWindow)
  <2>1. ToSet(connections) \subseteq Peers
    BY ToSetFacts DEF Inv, TypeOK
  <2> QED
    BY <2>1, RoundFacts
<1>2. /\ offers \in Seq(Seq(Blocks))
      /\ \A k \in 1 .. Len(offers) :
            offers[k] # <<>> /\ ToSet(offers[k]) \subseteq ToSet(NextWindow)
      /\ \A b \in ToSet(NextWindow) \ ToSet(Queued) :
            \E k \in 1 .. Len(offers) : b \in ToSet(offers[k])
  BY <1>1, OffersFacts
<1>3. Idle \in Seq(Peers) /\ NoRepeats(Idle)
  BY RoundFacts
<1>4. /\ Len(Idle) \in Nat /\ Len(offers) \in Nat
      /\ \A k \in 1 .. Len(offers) : offers[k] \in Seq(Blocks)
  BY <1>2, <1>3, LenProperties, ElementOfSeq
<1> HIDE DEF offers
<1>5. /\ \A p : \/ new(p) = <<>>
                \/ \E k \in 1 .. Len(offers) : new(p) = offers[k]
      /\ \A k \in 1 .. Len(Idle) : k <= Len(offers) => new(Idle[k]) = offers[k]
  BY <1>2, <1>3, OfferToFacts
<1> HIDE DEF new
<1>6. ASSUME NEW p \in Peers
      PROVE  new(p) \in Seq(Blocks) /\ ToSet(new(p)) \subseteq ToSet(NextWindow)
  <2>1. CASE new(p) = <<>>
    <3>1. <<>> \in Seq(Blocks)
      OBVIOUS
    <3> QED
      BY <2>1, <3>1, ToSetFacts
  <2>2. CASE \E k \in 1 .. Len(offers) : new(p) = offers[k]
    BY <1>2, <1>4, <2>2
  <2> QED
    BY <1>5, <2>1, <2>2
<1>7. \A k \in 1 .. Len(Idle) : k <= Len(offers) => new(Idle[k]) = offers[k] /\ offers[k] # <<>>
  <2>1. \A k \in 1 .. Len(Idle) : k <= Len(offers) => k \in 1 .. Len(offers)
    BY <1>4
  <2> QED
    BY <1>2, <1>5, <2>1
<1> QED
  BY <1>2, <1>4, <1>6, <1>7 DEF offers, new
-----------------------------------------------------------------------------
(* Each action preserves the invariant.                                    *)

LEMMA IndexTypes ==
    ASSUME IndexInv'
    PROVE  Index!TypeOK'
BY Zenon DEF IndexInv, IndexP!Inv, IndexP!TypeOK, Index!TypeOK, IndexP!Known, Index!Known,
             IndexP!Status, Index!Status

(* One that leaves the index alone. *)
LEMMA QuietStep ==
    ASSUME Inv, UNCHANGED indexVars
    PROVE  IndexInv' /\ Index!TypeOK' /\ UNCHANGED downloaded
<1>1. IndexInv'
  BY IndexStep DEF Inv
<1> QED
  BY <1>1, IndexTypes DEF indexVars

(* One that touches neither the lists of connections nor the queues. *)
LEMMA ListsKept ==
    ASSUME Inv, UNCHANGED <<connections, conn_status, download_queue>>
    PROVE  /\ connections' \in Seq(Peers) /\ NoRepeats(connections)'
           /\ \A p \in Peers : conn_status'[p] = "Absent" <=> p \notin ToSet(connections')
           /\ conn_status' \in [Peers -> ConnStatus]
           /\ download_queue' \in [Peers -> Seq(Blocks)]
BY DEF Inv, TypeOK, NoRepeats

LEMMA InitInv == Init => Inv
<1> SUFFICES ASSUME Init PROVE Inv
  OBVIOUS
<1>1. IndexInv
  BY IndexStart DEF Init
<1>2. <<>> \in Seq(Peers) /\ <<>> \in Seq(Blocks)
  OBVIOUS
<1>3. connections = <<>> /\ block_window = <<>> /\ ToSet(connections) = {}
  BY <1>2, ToSetFacts DEF Init
<1>4. NoRepeats(connections)
  BY <1>3 DEF NoRepeats
<1>5. TypeOK
  BY <1>1, <1>2, <1>3, IndexFacts DEF Init, TypeOK, NodeStatus, ConnStatus
<1>6. QueuedInWindow
  <2>1. \A p \in Peers : download_queue[p] = <<>>
    BY DEF Init
  <2>2. ToSet(<<>>) = {}
    BY <1>2, ToSetFacts
  <2> QED
    BY <2>1, <2>2 DEF QueuedInWindow
<1>7. NoClock
  BY DEF Init, NoClock
<1> QED
  BY <1>1, <1>4, <1>5, <1>6, <1>7 DEF Inv

(* The window is renewed and the round ends. *)
LEMMA KeepWaitingInv ==
    ASSUME Inv, KeepWaiting
    PROVE  Inv'
<1>1. /\ block_window' = NextWindow
      /\ UNCHANGED indexVars
      /\ UNCHANGED <<status, connections, conn_status, download_queue, pending_eviction,
                     silence, asked>>
  BY DEF KeepWaiting, connVars
<1>2. IndexInv' /\ Index!TypeOK' /\ UNCHANGED downloaded
  BY <1>1, QuietStep
<1>3. TypeOK'
  BY <1>1, <1>2, RoundFacts, ListsKept DEF Inv, TypeOK
<1>4. QueuedInWindow'
  BY <1>1, <1>2, RoundFacts DEF QueuedInWindow
<1> QED
  BY <1>1, <1>2, <1>3, <1>4, ListsKept DEF Inv, NoClock

(* The queues are filled from the window. *)
LEMMA AskForBlocksInv ==
    ASSUME Inv, AskForBlocks
    PROVE  Inv'
<1> DEFINE new(p) == OfferTo(p, Idle, Offers(NextWindow, Queued))
<1>1. /\ block_window' = NextWindow
      /\ pending_eviction' = [p \in Peers |-> pending_eviction[p] \/ Late(p)]
      /\ conn_status' = [p \in Peers |-> IF Overdue(p) THEN "Closed" ELSE conn_status[p]]
      /\ UNCHANGED indexVars
      /\ UNCHANGED <<status, connections, silence>>
  BY DEF AskForBlocks
<1>2. \A p \in Peers : /\ new(p) \in Seq(Blocks) /\ ToSet(new(p)) \subseteq ToSet(NextWindow)
                       /\ Kept(p) \in Seq(Blocks) /\ ToSet(Kept(p)) \subseteq ToSet(NextWindow)
  BY NewFacts, RoundFacts
<1>3. /\ download_queue' = [p \in Peers |-> Kept(p) \o new(p)]
      /\ asked' = [p \in Serving |->
                      IF conn_status'[p] = "Connected" THEN asked[p] \cup ToSet(new(p)) ELSE {}]
  <2>1. \A p \in Peers :
            [q \in Peers |-> OfferTo(q, Idle, Offers(NextWindow, Queued))][p] = new(p)
    OBVIOUS
  <2>2. Serving \subseteq Peers
    BY DownloadAssumption
  <2>3. /\ download_queue' = [p \in Peers |->
                Kept(p) \o [q \in Peers |-> OfferTo(q, Idle, Offers(NextWindow, Queued))][p]]
        /\ asked' = [p \in Serving |->
                IF conn_status'[p] = "Connected"
                THEN asked[p] \cup
                       ToSet([q \in Peers |-> OfferTo(q, Idle, Offers(NextWindow, Queued))][p])
                ELSE {}]
    BY DEF AskForBlocks
  <2> HIDE DEF new
  <2> QED
    BY <2>1, <2>2, <2>3
<1> HIDE DEF new
<1>4. IndexInv' /\ Index!TypeOK' /\ UNCHANGED downloaded
  BY <1>1, QuietStep
<1>5. \A p \in Peers : /\ download_queue'[p] = Kept(p) \o new(p)
                       /\ download_queue'[p] \in Seq(Blocks)
                       /\ ToSet(download_queue'[p]) = ToSet(Kept(p)) \cup ToSet(new(p))
  BY <1>2, <1>3, ToSetConcat
<1>6. QueuedInWindow'
  BY <1>1, <1>2, <1>5 DEF QueuedInWindow
<1>7. ToSet(NextWindow) \subseteq Blocks
  BY RoundFacts, ToSetFacts
<1>8. asked' \in [Serving -> SUBSET Blocks]
  <2>1. \A p \in Serving : p \in Peers /\ asked[p] \subseteq Blocks
    BY DownloadAssumption DEF Inv, TypeOK
  <2>2. \A p \in Serving : asked[p] \cup ToSet(new(p)) \subseteq Blocks
    BY <1>2, <1>7, <2>1
  <2> QED
    BY <1>3, <2>2
<1>9. /\ conn_status' \in [Peers -> ConnStatus]
      /\ \A p \in Peers : conn_status'[p] = "Absent" <=> p \notin ToSet(connections')
  <2>1. \A p \in Peers : Overdue(p) => conn_status[p] # "Absent"
    <3> SUFFICES ASSUME NEW p \in Peers, Overdue(p), conn_status[p] = "Absent" PROVE FALSE
      OBVIOUS
    <3> QED
      BY DEF Overdue, Inv, NoClock
  <2> QED
    BY <1>1, <2>1 DEF Inv, TypeOK, ConnStatus
<1>10. /\ download_queue' \in [Peers -> Seq(Blocks)]
       /\ pending_eviction' \in [Peers -> BOOLEAN]
       /\ block_window' \in Seq(Blocks)
  <2>1. block_window' \in Seq(Blocks)
    BY <1>1, RoundFacts
  <2>2. pending_eviction' \in [Peers -> BOOLEAN]
    BY <1>1, Zenon
  <2> QED
    BY <1>3, <1>5, <2>1, <2>2
<1>11. TypeOK' /\ NoRepeats(connections)' /\ NoClock'
  BY <1>1, <1>4, <1>8, <1>9, <1>10 DEF Inv, TypeOK, NoRepeats, NoClock
<1> QED
  BY <1>4, <1>6, <1>11 DEF Inv

(* A headers message. *)
LEMMA ReceiveHeaderInv ==
    ASSUME Inv, NEW h \in Blocks, ReceiveHeader(h)
    PROVE  Inv'
<1>1. /\ Index!AddHeader(h) \/ UNCHANGED indexVars
      /\ status' = IF status = "SyncingHeaders" THEN "HeaderSynced" ELSE status
      /\ UNCHANGED <<block_window, connections, conn_status, download_queue, pending_eviction,
                     silence, asked>>
  BY DEF ReceiveHeader, connVars
<1>2. IndexInv'
  BY <1>1, IndexStep DEF Inv
<1>3. UNCHANGED downloaded
  BY <1>1 DEF Index!AddHeader, indexVars
<1>4. TypeOK'
  BY <1>1, <1>2, IndexTypes, ListsKept DEF Inv, TypeOK, NodeStatus
<1> QED
  BY <1>1, <1>2, <1>3, <1>4, ListsKept DEF Inv, NoClock, QueuedInWindow

(* A block message is heard: nothing is added to a queue. *)
LEMMA HearFacts ==
    ASSUME Inv, NEW p \in Peers, NEW b \in Blocks, HearFrom(p, b)
    PROVE  /\ download_queue' \in [Peers -> Seq(Blocks)]
           /\ \A q \in Peers : ToSet(download_queue'[q]) \subseteq ToSet(download_queue[q])
           /\ silence' \in [Peers -> 0 .. 2] /\ \A q \in Peers : silence[q] = 0 => silence'[q] = 0
           /\ pending_eviction' \in [Peers -> BOOLEAN]
           /\ conn_status[p] = "Connected"
<1>1. /\ download_queue' = [download_queue EXCEPT ![p] = Without(download_queue[p], {b})]
      /\ silence' = [silence EXCEPT ![p] = 0]
      /\ pending_eviction' = [pending_eviction EXCEPT ![p] = FALSE]
      /\ conn_status[p] = "Connected"
  BY DEF HearFrom
<1>2. /\ Without(download_queue[p], {b}) \in Seq(Blocks)
      /\ ToSet(Without(download_queue[p], {b})) \subseteq ToSet(download_queue[p])
  <2>1. download_queue[p] \in Seq(Blocks)
    BY DEF Inv, TypeOK
  <2> QED
    BY <2>1, WithoutFacts
<1>3. /\ download_queue \in [Peers -> Seq(Blocks)] /\ silence \in [Peers -> 0 .. 2]
      /\ pending_eviction \in [Peers -> BOOLEAN]
  BY DEF Inv, TypeOK
<1>4. silence' \in [Peers -> 0 .. 2] /\ \A q \in Peers : silence[q] = 0 => silence'[q] = 0
  BY <1>1, <1>3
<1>5. /\ download_queue' \in [Peers -> Seq(Blocks)]
      /\ \A q \in Peers : ToSet(download_queue'[q]) \subseteq ToSet(download_queue[q])
  BY <1>1, <1>2, <1>3
<1> QED
  BY <1>1, <1>3, <1>4, <1>5

LEMMA ReceiveBlockInv ==
    ASSUME Inv, NEW p \in Peers, NEW b \in Blocks, ReceiveBlock(p, b)
    PROVE  Inv'
<1>1. /\ HearFrom(p, b)
      /\ asked' = [asked EXCEPT ![p] = asked[p] \ {b}]
      /\ UNCHANGED indexVars \/ Index!MarkDownloaded(b)
      /\ UNCHANGED <<status, block_window, connections, conn_status>>
  BY DEF ReceiveBlock
<1>2. IndexInv'
  BY <1>1, IndexStep DEF Inv
<1>3. downloaded \subseteq downloaded'
  BY <1>1 DEF indexVars, Index!MarkDownloaded
<1>4. asked' \in [Serving -> SUBSET Blocks]
  BY <1>1 DEF Inv, TypeOK
<1>5. TypeOK'
  BY <1>1, <1>2, <1>4, IndexTypes, HearFacts DEF Inv, TypeOK
<1>6. NoClock' /\ NoRepeats(connections)'
  BY <1>1, HearFacts DEF Inv, NoClock, NoRepeats
<1>7. QueuedInWindow'
  BY <1>1, <1>3, HearFacts DEF Inv, QueuedInWindow
<1> QED
  BY <1>2, <1>5, <1>6, <1>7 DEF Inv

LEMMA RejectBlockInv ==
    ASSUME Inv, NEW p \in Peers, NEW b \in Blocks, RejectBlock(p, b)
    PROVE  Inv'
<1>1. /\ HearFrom(p, b)
      /\ conn_status' = [conn_status EXCEPT ![p] = "Closed"]
      /\ UNCHANGED indexVars
      /\ UNCHANGED <<status, block_window, connections, asked>>
  BY DEF RejectBlock
<1>2. IndexInv' /\ Index!TypeOK' /\ UNCHANGED downloaded
  BY <1>1, QuietStep
<1>3. conn_status[p] = "Connected"
  BY <1>1, HearFacts
<1>4. /\ conn_status' \in [Peers -> ConnStatus]
      /\ \A q \in Peers : conn_status'[q] = "Absent" <=> conn_status[q] = "Absent"
  BY <1>1, <1>3 DEF Inv, TypeOK, ConnStatus
<1>5. TypeOK'
  BY <1>1, <1>2, <1>4, HearFacts DEF Inv, TypeOK
<1>6. NoClock' /\ NoRepeats(connections)'
  BY <1>1, <1>4, HearFacts DEF Inv, NoClock, NoRepeats
<1>7. QueuedInWindow'
  BY <1>1, <1>2, HearFacts DEF Inv, QueuedInWindow
<1> QED
  BY <1>2, <1>5, <1>6, <1>7 DEF Inv

(* update_chain, and the end of the sync. *)
LEMMA UpdateChainInv ==
    ASSUME Inv, UpdateChain
    PROVE  Inv'
<1>1. UNCHANGED <<block_window, connections, download_queue, pending_eviction, silence>>
  BY DEF UpdateChain
<1>2. NothingBetter \/ WaitForBlocks \/ SwitchBranch
  BY DEF UpdateChain
<1>3. IndexInv' /\ UNCHANGED downloaded
  <2>1. ASSUME Index!PopStale
        PROVE  IndexInv' /\ UNCHANGED downloaded
    BY <2>1, IndexStep DEF Inv, Index!PopStale
  <2>2. CASE NothingBetter
    BY <2>1, <2>2 DEF NothingBetter
  <2>3. CASE WaitForBlocks
    BY <2>1, <2>3 DEF WaitForBlocks
  <2>4. CASE SwitchBranch
    BY <2>4, SwitchStep DEF Inv
  <2> QED
    BY <1>2, <2>2, <2>3, <2>4
<1>4. FinishSync \/ UNCHANGED <<status, conn_status, asked>>
  BY <1>2 DEF NothingBetter, WaitForBlocks, SwitchBranch
<1>5. /\ status' \in NodeStatus /\ asked' \in [Serving -> SUBSET Blocks]
      /\ conn_status' \in [Peers -> ConnStatus]
      /\ \A q \in Peers : conn_status'[q] = "Absent" <=> conn_status[q] = "Absent"
  BY <1>4 DEF FinishSync, Inv, TypeOK, NodeStatus, ConnStatus
<1>6. TypeOK'
  BY <1>1, <1>3, <1>5, IndexTypes DEF Inv, TypeOK
<1> QED
  BY <1>1, <1>3, <1>5, <1>6 DEF Inv, NoClock, NoRepeats, QueuedInWindow

(* One more connection. *)
LEMMA AppendPeer ==
    ASSUME NEW s \in Seq(Peers), NoRepeats(s), NEW p \in Peers, p \notin ToSet(s)
    PROVE  /\ Append(s, p) \in Seq(Peers) /\ NoRepeats(Append(s, p))
           /\ ToSet(Append(s, p)) = ToSet(s) \cup {p}
<1>1. /\ Append(s, p) \in Seq(Peers)
      /\ Len(s) \in Nat
      /\ Len(Append(s, p)) = Len(s) + 1
      /\ \A i \in 1 .. Len(s) : Append(s, p)[i] = s[i]
      /\ Append(s, p)[Len(s) + 1] = p
  BY AppendProperties, LenProperties
<1>2. /\ ToSet(s) = {s[i] : i \in 1 .. Len(s)}
      /\ ToSet(Append(s, p)) = {Append(s, p)[i] : i \in 1 .. Len(s) + 1}
  BY <1>1, ToSetFacts
<1>3. ToSet(Append(s, p)) = ToSet(s) \cup {p}
  <2>1. 1 .. Len(s) + 1 = (1 .. Len(s)) \cup {Len(s) + 1}
    BY <1>1
  <2> QED
    BY <1>1, <1>2, <2>1
<1>4. NoRepeats(Append(s, p))
  <2> SUFFICES ASSUME NEW i \in 1 .. Len(s) + 1, NEW j \in 1 .. Len(s) + 1,
                      Append(s, p)[i] = Append(s, p)[j]
               PROVE  i = j
    BY <1>1 DEF NoRepeats
  <2>1. \A k \in 1 .. Len(s) + 1 : k \in 1 .. Len(s) \/ k = Len(s) + 1
    BY <1>1
  <2>2. \A k \in 1 .. Len(s) : Append(s, p)[k] # p
    BY <1>1, <1>2
  <2> QED
    BY <1>1, <2>1, <2>2 DEF NoRepeats
<1> QED
  BY <1>1, <1>3, <1>4

LEMMA OpenInv ==
    ASSUME Inv, NEW p \in Peers, Connect(p) \/ Accept(p)
    PROVE  Inv'
<1>1. /\ conn_status[p] = "Absent"
      /\ connections' = Append(connections, p)
      /\ conn_status' = [conn_status EXCEPT ![p] = "Open"]
      /\ UNCHANGED indexVars
      /\ UNCHANGED <<status, block_window, download_queue, pending_eviction, silence, asked>>
  BY DEF Connect, Accept
<1>2. IndexInv' /\ Index!TypeOK' /\ UNCHANGED downloaded
  BY <1>1, QuietStep
<1>3. /\ connections' \in Seq(Peers) /\ NoRepeats(connections')
      /\ ToSet(connections') = ToSet(connections) \cup {p}
  BY <1>1, AppendPeer DEF Inv, TypeOK
<1>4. /\ conn_status' \in [Peers -> ConnStatus]
      /\ \A q \in Peers : conn_status'[q] = IF q = p THEN "Open" ELSE conn_status[q]
  BY <1>1 DEF Inv, TypeOK, ConnStatus
<1>5. TypeOK'
  BY <1>1, <1>2, <1>3, <1>4 DEF Inv, TypeOK
<1>6. NoRepeats(connections)'
  BY <1>3 DEF NoRepeats
<1> QED
  BY <1>1, <1>2, <1>4, <1>5, <1>6 DEF Inv, NoClock, QueuedInWindow

(* A connection shakes hands or is stopped. *)
LEMMA StatusInv ==
    ASSUME Inv, NEW p \in Peers, Handshake(p) \/ Close(p)
    PROVE  Inv'
<1>1. /\ conn_status[p] # "Absent"
      /\ \E s \in ConnStatus \ {"Absent"} : conn_status' = [conn_status EXCEPT ![p] = s]
      /\ UNCHANGED indexVars
      /\ UNCHANGED <<status, block_window, connections, download_queue, pending_eviction,
                     silence, asked>>
  BY DEF Handshake, Close, ConnStatus
<1>2. IndexInv' /\ Index!TypeOK' /\ UNCHANGED downloaded
  BY <1>1, QuietStep
<1>3. /\ conn_status' \in [Peers -> ConnStatus]
      /\ \A q \in Peers : conn_status'[q] = "Absent" <=> conn_status[q] = "Absent"
  BY <1>1 DEF Inv, TypeOK
<1>4. TypeOK'
  BY <1>1, <1>2, <1>3 DEF Inv, TypeOK
<1> QED
  BY <1>1, <1>2, <1>3, <1>4 DEF Inv, NoClock, NoRepeats, QueuedInWindow

(* Closed connections go with all they hold. *)
LEMMA RemoveConnectionsInv ==
    ASSUME Inv, RemoveConnections
    PROVE  Inv'
<1>1. /\ connections' = Without(connections, Removable)
      /\ conn_status' = [p \in Peers |-> IF p \in Removable THEN "Absent" ELSE conn_status[p]]
      /\ download_queue' = [p \in Peers |-> IF p \in Removable THEN <<>> ELSE download_queue[p]]
      /\ pending_eviction' = [p \in Peers |-> p \notin Removable /\ pending_eviction[p]]
      /\ silence' = [p \in Peers |-> IF p \in Removable THEN 0 ELSE silence[p]]
      /\ UNCHANGED indexVars
      /\ UNCHANGED <<status, block_window, asked>>
  BY DEF RemoveConnections
<1>2. IndexInv' /\ Index!TypeOK' /\ UNCHANGED downloaded
  BY <1>1, QuietStep
<1>3. /\ connections' \in Seq(Peers) /\ NoRepeats(connections')
      /\ ToSet(connections') = ToSet(connections) \ Removable
  BY <1>1, WithoutFacts DEF Inv, TypeOK
<1>4. /\ conn_status' \in [Peers -> ConnStatus]
      /\ \A p \in Peers : conn_status'[p] = "Absent" <=> p \notin ToSet(connections')
  BY <1>1, <1>3 DEF Inv, TypeOK, ConnStatus
<1>5. /\ download_queue' \in [Peers -> Seq(Blocks)]
      /\ \A p \in Peers : ToSet(download_queue'[p]) \subseteq ToSet(download_queue[p])
  <2>1. <<>> \in Seq(Blocks)
    OBVIOUS
  <2>2. ToSet(<<>>) = {}
    BY <2>1, ToSetFacts
  <2> QED
    BY <1>1, <2>1, <2>2 DEF Inv, TypeOK
<1>6. silence' \in [Peers -> 0 .. 2]
  BY <1>1 DEF Inv, TypeOK
<1>7. pending_eviction' \in [Peers -> BOOLEAN]
  <2>1. pending_eviction \in [Peers -> BOOLEAN]
    BY DEF Inv, TypeOK
  <2> QED
    BY <1>1, <2>1, Zenon
<1>8. TypeOK'
  BY <1>1, <1>2, <1>3, <1>4, <1>5, <1>6, <1>7 DEF Inv, TypeOK
<1>9. NoRepeats(connections)' /\ NoClock'
  BY <1>1, <1>3 DEF Inv, NoRepeats, NoClock
<1>10. QueuedInWindow'
  BY <1>1, <1>2, <1>5 DEF Inv, QueuedInWindow
<1> QED
  BY <1>2, <1>8, <1>9, <1>10 DEF Inv

LEMMA ElapseInv ==
    ASSUME Inv, NEW p \in Peers, Elapse(p)
    PROVE  Inv'
<1>1. /\ conn_status[p] # "Absent" /\ silence[p] < 2
      /\ silence' = [silence EXCEPT ![p] = silence[p] + 1]
      /\ UNCHANGED indexVars
      /\ UNCHANGED <<status, block_window, connections, conn_status, download_queue,
                     pending_eviction, asked>>
  BY DEF Elapse
<1>2. IndexInv' /\ Index!TypeOK' /\ UNCHANGED downloaded
  BY <1>1, QuietStep
<1>3. silence' \in [Peers -> 0 .. 2] /\ \A q \in Peers : q # p => silence'[q] = silence[q]
  BY <1>1 DEF Inv, TypeOK
<1>4. TypeOK'
  BY <1>1, <1>2, <1>3 DEF Inv, TypeOK
<1> QED
  BY <1>1, <1>2, <1>3, <1>4 DEF Inv, NoClock, NoRepeats, QueuedInWindow

LEMMA NextInv == Inv /\ [Next]_vars => Inv'
<1> SUFFICES ASSUME Inv, [Next]_vars PROVE Inv'
  OBVIOUS
<1>1. CASE MainThread
  BY <1>1, KeepWaitingInv, AskForBlocksInv, UpdateChainInv, ReceiveHeaderInv, ReceiveBlockInv,
     RejectBlockInv, StatusInv DEF MainThread, BlockDownload
<1>2. CASE Network
  BY <1>2, RemoveConnectionsInv, OpenInv, StatusInv DEF Network
<1>3. CASE \E p \in Peers : Elapse(p)
  BY <1>3, ElapseInv
<1>4. CASE UNCHANGED vars
  <2>1. /\ UNCHANGED indexVars
        /\ UNCHANGED <<status, block_window, connections, conn_status, download_queue,
                       pending_eviction, silence, asked>>
    BY <1>4 DEF vars, connVars
  <2>2. IndexInv' /\ Index!TypeOK' /\ UNCHANGED downloaded
    BY <2>1, QuietStep
  <2>3. TypeOK'
    BY <2>1, <2>2 DEF Inv, TypeOK
  <2> QED
    BY <2>1, <2>2, <2>3 DEF Inv, NoClock, NoRepeats, QueuedInWindow
<1> QED
  BY <1>1, <1>2, <1>3, <1>4 DEF Next

(* A round that gets as far as the queues leaves nobody idle, or nothing.  *)
LEMMA RoundLeavesNoneIdle ==
    ASSUME Inv, AskForBlocks
    PROVE  \/ ToSet(block_window') \subseteq UNION {ToSet(download_queue'[p]) : p \in Peers}
           \/ \A p \in ToSet(connections) : download_queue'[p] # <<>>
<1> DEFINE offers == Offers(NextWindow, Queued)
           new(p) == OfferTo(p, Idle, offers)
<1>1. /\ Len(Idle) \in Nat /\ Len(offers) \in Nat
      /\ \A p \in Peers : new(p) \in Seq(Blocks)
      /\ \A k \in 1 .. Len(Idle) :
            k <= Len(offers) => new(Idle[k]) = offers[k] /\ offers[k] # <<>>
      /\ \A b \in ToSet(NextWindow) \ ToSet(Queued) :
            \E k \in 1 .. Len(offers) : b \in ToSet(offers[k])
  BY NewFacts
<1>2. /\ block_window' = NextWindow
      /\ download_queue' = [p \in Peers |-> Kept(p) \o new(p)]
  <2>1. \A p \in Peers :
            [q \in Peers |-> OfferTo(q, Idle, Offers(NextWindow, Queued))][p] = new(p)
    OBVIOUS
  <2>2. download_queue' = [p \in Peers |->
                Kept(p) \o [q \in Peers |-> OfferTo(q, Idle, Offers(NextWindow, Queued))][p]]
    BY DEF AskForBlocks
  <2>3. block_window' = NextWindow
    BY DEF AskForBlocks
  <2> HIDE DEF new
  <2> QED
    BY <2>1, <2>2, <2>3
<1> HIDE DEF new, offers
<1>3. ASSUME NEW p \in Peers
      PROVE  /\ ToSet(download_queue'[p]) = ToSet(Kept(p)) \cup ToSet(new(p))
             /\ Kept(p) # <<>> \/ new(p) # <<>> => download_queue'[p] # <<>>
  <2>1. Kept(p) \in Seq(Blocks) /\ new(p) \in Seq(Blocks) /\ download_queue'[p] = Kept(p) \o new(p)
    BY <1>1, <1>2, RoundFacts
  <2>2. /\ download_queue'[p] \in Seq(Blocks)
        /\ ToSet(download_queue'[p]) = ToSet(Kept(p)) \cup ToSet(new(p))
    BY <2>1, ToSetConcat
  <2>3. /\ Kept(p) = <<>> <=> ToSet(Kept(p)) = {}
        /\ new(p) = <<>> <=> ToSet(new(p)) = {}
        /\ download_queue'[p] = <<>> <=> ToSet(download_queue'[p]) = {}
    BY <2>1, <2>2, ToSetFacts
  <2> QED
    BY <2>2, <2>3
<1>4. /\ connections \in Seq(Peers) /\ ToSet(connections) \subseteq Peers
      /\ Idle \in Seq(Peers)
      /\ ToSet(Idle) = ToSet(connections) \ {p \in Peers : Kept(p) # <<>>}
      /\ \A b \in ToSet(Queued) : \E p \in ToSet(connections) : b \in ToSet(Kept(p))
  BY RoundFacts, ToSetFacts DEF Inv, TypeOK
<1>5. /\ \A p \in ToSet(Idle) : \E k \in 1 .. Len(Idle) : p = Idle[k]
      /\ \A k \in 1 .. Len(Idle) : Idle[k] \in Peers
  BY <1>4, ToSetFacts, ElementOfSeq
<1>6. CASE Len(offers) <= Len(Idle)
  <2>1. ASSUME NEW b \in ToSet(NextWindow)
        PROVE  \E p \in Peers : b \in ToSet(download_queue'[p])
    <3>1. CASE b \in ToSet(Queued)
      BY <1>3, <1>4, <3>1
    <3>2. CASE b \notin ToSet(Queued)
      <4>1. PICK k \in 1 .. Len(offers) : b \in ToSet(offers[k])
        BY <1>1, <3>2
      <4>2. k \in 1 .. Len(Idle) /\ k <= Len(offers)
        BY <1>1, <1>6, <4>1
      <4>3. Idle[k] \in Peers /\ b \in ToSet(new(Idle[k]))
        BY <1>1, <1>5, <4>1, <4>2
      <4> QED
        BY <1>3, <4>3
    <3> QED
      BY <3>1, <3>2
  <2> QED
    BY <1>2, <2>1
<1>7. CASE Len(Idle) < Len(offers)
  <2>1. ASSUME NEW p \in ToSet(connections)
        PROVE  download_queue'[p] # <<>>
    <3>1. CASE Kept(p) # <<>>
      BY <1>3, <1>4, <3>1
    <3>2. CASE Kept(p) = <<>>
      <4>1. PICK k \in 1 .. Len(Idle) : p = Idle[k]
        BY <1>4, <1>5, <3>2
      <4>2. k <= Len(offers)
        BY <1>1, <1>7, <4>1
      <4>3. new(p) # <<>>
        BY <1>1, <4>1, <4>2
      <4> QED
        BY <1>3, <1>4, <4>3
    <3> QED
      BY <3>1, <3>2
  <2> QED
    BY <2>1
<1> QED
  BY <1>1, <1>6, <1>7
-----------------------------------------------------------------------------
(* The invariant in every execution, and what it is for.                   *)

THEOREM Invariance == Spec => []Inv
BY InitInv, NextInv, PTL DEF Spec

(* The records of the manager and of the connections have their types, and *)
(* manager.connections lists exactly the connections there are.            *)
THEOREM TypeCorrect == Spec => []TypeOK
<1>1. Inv => TypeOK
  BY DEF Inv
<1> QED
  BY <1>1, Invariance, PTL

(* Whatever a connection is expected to send and is lost with it is still  *)
(* in block_window, to be asked for again.                                 *)
THEOREM QueuesHoldTheWindow == Spec => []QueuedInWindow
<1>1. Inv => QueuedInWindow
  BY DEF Inv
<1> QED
  BY <1>1, Invariance, PTL

(* block_download hands out every block of the window, or something to     *)
(* every connection that has nothing to do.                                *)
THEOREM NobodyIsLeftIdle == Spec => NoneIdle
<1>1. Inv /\ [Next]_vars =>
        [AskForBlocks =>
            \/ ToSet(block_window') \subseteq UNION {ToSet(download_queue'[p]) : p \in Peers}
            \/ \A p \in ToSet(connections) : download_queue'[p] # <<>>]_vars
  BY RoundLeavesNoneIdle
<1> QED
  BY <1>1, Invariance, PTL DEF Spec, NoneIdle
=============================================================================
