-------------------------- MODULE BlockIndexProofs --------------------------
(***************************************************************************)
(* The block index keeps its invariants whatever the tree, the works and   *)
(* the order of headers, blocks, switches and restarts.                    *)
(***************************************************************************)
EXTENDS BlockIndex, BlockTreeLemmas, FiniteSetTheorems

(* The conjunction is inductive: a fork is cut out of the header index     *)
(* correctly because the index is the best branch of known headers, and    *)
(* that a parent is always known is what makes it the best.                *)
Inv ==
    /\ TypeOK
    /\ AncestorsKnown
    /\ ActiveChainRecorded
    /\ HeaderIndexBest
    /\ CandidatesComplete
-----------------------------------------------------------------------------

(* The genesis header, written by __init__, is always among the known ones. *)
LEMMA GenesisKnown ==
    ASSUME Inv
    PROVE  /\ Genesis \in Known
           /\ Tip(active_chain) \in Blocks
           /\ Tip(header_index) \in Blocks
           /\ ChainWork \in Nat
           /\ Work[Tip(header_index)] \in Nat
<1>1. /\ active_chain \in Seq(Blocks) /\ IsBranch(active_chain)
      /\ header_index \in Seq(Blocks) /\ IsBranch(header_index)
      /\ InActiveChain = Elems(active_chain)
  BY DEF Inv, TypeOK, ActiveChainRecorded, HeaderIndexBest
<1>2. Genesis \in InActiveChain /\ Tip(active_chain) \in Blocks /\ Tip(header_index) \in Blocks
  BY <1>1, TipFacts
<1>3. Genesis \in Known
  BY <1>2 DEF InActiveChain, Known
<1> QED
  BY <1>2, <1>3, WorkAssumption DEF ChainWork

(* The strengthening holds of a fresh index. *)
LEMMA InitInv == Init => Inv
<1> SUFFICES ASSUME Init PROVE Inv
  OBVIOUS
<1>1. /\ Genesis \in Blocks
      /\ Path[Genesis] = <<Genesis>>
      /\ <<Genesis>> \in Seq(Blocks)
      /\ Len(<<Genesis>>) = 1
      /\ Tip(<<Genesis>>) = Genesis
      /\ Elems(<<Genesis>>) = {Genesis}
  BY PathAssumption DEF Tip, Elems
<1>2. Known = {Genesis} /\ InActiveChain = {Genesis}
  BY <1>1 DEF Init, Known, InActiveChain
<1>3. TypeOK
  BY <1>1, <1>2 DEF Init, TypeOK, Status
<1>4. AncestorsKnown
  BY <1>1, <1>2 DEF AncestorsKnown
<1>5. ActiveChainRecorded
  BY <1>1, <1>2 DEF Init, ActiveChainRecorded, IsBranch
<1>6. HeaderIndexBest
  BY <1>1, <1>2, WorkAssumption DEF Init, HeaderIndexBest, IsBranch
<1>7. CandidatesComplete
  BY <1>1, <1>2 DEF Init, CandidatesComplete
<1> QED
  BY <1>3, <1>4, <1>5, <1>6, <1>7 DEF Inv

(* One call of add_headers preserves it. *)
LEMMA AddHeaderInv ==
    ASSUME Inv, loading = {}, NEW h \in Blocks, AddHeader(h)
    PROVE  Inv'
<1> USE DEF AddHeader
<1>1. /\ Genesis \in Known
      /\ Tip(header_index) \in Blocks
      /\ Work[Tip(header_index)] \in Nat
  BY GenesisKnown
<1>2. h \in Blocks \ {Genesis} /\ Parent(h) \in Known /\ h \notin Known
  BY <1>1
<1>3. /\ header_dict \in [Blocks -> Status]
      /\ downloaded \subseteq Known
      /\ active_chain \in Seq(Blocks)
      /\ block_candidates \in Seq(Blocks)
      /\ header_index \in Seq(Blocks)
      /\ IsBranch(header_index)
  BY DEF Inv, TypeOK, HeaderIndexBest
<1>4. Known' = Known \cup {h} /\ InActiveChain' = InActiveChain
  BY <1>2, <1>3 DEF Known, InActiveChain, Status
<1>5. /\ \/ header_index' = header_index
         \/ header_index' = Path[h]
      /\ header_index' \in Seq(Blocks)
      /\ IsBranch(header_index')
      /\ Work[h] <= Work[Tip(header_index')]
      /\ Work[Tip(header_index)] <= Work[Tip(header_index')]
  <2>1. Work[Parent(h)] <= Work[Tip(header_index)]
    BY <1>2 DEF Inv, HeaderIndexBest
  <2> QED
    BY <1>2, <1>3, <2>1, HeaderIndexStep
<1>6. /\ block_candidates' \in Seq(Blocks)
      /\ Elems(block_candidates) \subseteq Elems(block_candidates')
      /\ Work[h] > ChainWork => h \in Elems(block_candidates')
  BY <1>3, ElemsAppend
<1>7. Elems(Path[h]) \subseteq Known'
  <2>1. Elems(Path[Parent(h)]) \subseteq Known
    BY <1>2 DEF Inv, AncestorsKnown
  <2>2. Path[Parent(h)] \in Seq(Blocks) /\ Path[h] = Append(Path[Parent(h)], h)
    BY <1>2, PathFacts, ParentFacts
  <2>3. Elems(Path[h]) = Elems(Path[Parent(h)]) \cup {h}
    BY <1>2, <2>2, ElemsAppend
  <2> QED
    BY <1>4, <2>1, <2>3
<1>8. TypeOK'
  BY <1>3, <1>4, <1>5, <1>6 DEF TypeOK, Status, Inv
<1>9. AncestorsKnown'
  BY <1>4, <1>7 DEF Inv, AncestorsKnown
<1>10. ActiveChainRecorded'
  BY <1>4 DEF Inv, ActiveChainRecorded
<1>11. HeaderIndexBest'
  <2>1. Elems(header_index') \subseteq Known'
    BY <1>4, <1>5, <1>7 DEF Inv, HeaderIndexBest
  <2>2. \A b \in Known \cup InActiveChain : Work[b] <= Work[Tip(header_index)]
    BY DEF Inv, HeaderIndexBest
  <2>3. \A b \in Known \cup InActiveChain : Work[b] \in Nat
    BY WorkAssumption DEF Known, InActiveChain
  <2>4. Work[Tip(header_index')] \in Nat
    BY <1>5, TipFacts, WorkAssumption
  <2>5. \A b \in Known \cup InActiveChain : Work[b] <= Work[Tip(header_index')]
    BY <1>1, <1>5, <2>2, <2>3, <2>4
  <2> QED
    BY <1>4, <1>5, <2>1, <2>5 DEF HeaderIndexBest
<1>12. CandidatesComplete'
  <2>1. ChainWork' = ChainWork /\ loading' = {}
    BY DEF ChainWork
  <2>2. \A b \in Known : header_dict'[b] = header_dict[b]
    BY <1>2, <1>3 DEF Known
  <2> QED
    BY <1>4, <1>6, <2>1, <2>2 DEF Inv, CandidatesComplete
<1> QED
  BY <1>8, <1>9, <1>10, <1>11, <1>12 DEF Inv

(* Setting the downloaded flag preserves it. *)
LEMMA MarkDownloadedInv ==
    ASSUME Inv, NEW b \in Blocks, MarkDownloaded(b)
    PROVE  Inv'
<1>1. /\ Known' = Known /\ InActiveChain' = InActiveChain /\ ChainWork' = ChainWork
      /\ downloaded' \subseteq Known
  BY DEF MarkDownloaded, Known, InActiveChain, ChainWork, Inv, TypeOK
<1> QED
  BY <1>1 DEF MarkDownloaded, Inv, TypeOK, AncestorsKnown, ActiveChainRecorded,
              HeaderIndexBest, CandidatesComplete

(* Marking a checked block as valid preserves it. *)
LEMMA ValidateInv ==
    ASSUME Inv, NEW b \in Blocks, Validate(b)
    PROVE  Inv'
<1>1. header_dict \in [Blocks -> Status]
  BY DEF Inv, TypeOK
<1>2. /\ header_dict' \in [Blocks -> Status]
      /\ header_dict'[b] = "valid"
      /\ \A a \in Blocks \ {b} : header_dict'[a] = header_dict[a]
      /\ header_dict[b] \in {"valid_header", "valid"}
  BY <1>1 DEF Validate, MarkValid, Status
<1>3. Known' = Known /\ InActiveChain' = InActiveChain /\ ChainWork' = ChainWork
  BY <1>2 DEF Validate, MarkValid, Known, InActiveChain, ChainWork
<1>4. CandidatesComplete'
  BY <1>2, <1>3 DEF Validate, MarkValid, Inv, CandidatesComplete, Known
<1> QED
  BY <1>2, <1>3, <1>4 DEF Validate, MarkValid, Inv, TypeOK, AncestorsKnown,
                          ActiveChainRecorded, HeaderIndexBest

(* Popping the stale front of the queue loses no candidate with more work. *)
LEMMA LiveFacts ==
    ASSUME block_candidates \in Seq(Blocks), ChainWork \in Nat
    PROVE  /\ LiveCandidates \in Seq(Blocks)
           /\ \A b \in Elems(block_candidates) :
                 Work[b] > ChainWork => b \in Elems(LiveCandidates)
<1> DEFINE q == block_candidates
           n == CHOOSE m \in StaleEntries : \A k \in StaleEntries : k <= m
<1>1. q \in Seq(Blocks) /\ Len(q) \in Nat /\ \A i \in 1 .. Len(q) : q[i] \in Blocks
  BY LenProperties, ElementOfSeq
<1>2. 0 \in StaleEntries /\ StaleEntries \in SUBSET (0 .. Len(q))
  BY <1>1 DEF StaleEntries
<1>3. \E m \in StaleEntries : \A k \in StaleEntries : k <= m
  BY <1>1, <1>2, MaxExists
<1>4. n \in StaleEntries
  BY <1>3
<1>5. n \in 0 .. Len(q) /\ \A i \in 1 .. n : Work[q[i]] < ChainWork
  BY <1>4 DEF StaleEntries
<1>6. LiveCandidates = SubSeq(q, n + 1, Len(q))
  BY DEF LiveCandidates
<1> HIDE DEF n
<1>7. /\ LiveCandidates \in Seq(Blocks)
      /\ Len(LiveCandidates) = Len(q) - n
      /\ \A i \in 1 .. Len(q) - n : LiveCandidates[i] = q[n + i]
  <2>1. \A i \in n + 1 .. Len(q) : q[i] \in Blocks
    BY <1>1, <1>5
  <2> QED
    BY <1>1, <1>5, <1>6, <2>1, SubSeqProperties
<1>8. ASSUME NEW b \in Elems(q), Work[b] > ChainWork
      PROVE  b \in Elems(LiveCandidates)
  <2>1. PICK i \in 1 .. Len(q) : b = q[i]
    BY DEF Elems
  <2>2. Work[b] \in Nat /\ ChainWork \in Nat
    BY <1>1, <2>1, WorkAssumption
  <2>3. ~ (i <= n)
    BY <1>1, <1>5, <1>8, <2>1, <2>2
  <2>4. i - n \in 1 .. Len(q) - n /\ n + (i - n) = i
    BY <1>1, <1>5, <2>3
  <2>5. b = LiveCandidates[i - n]
    BY <1>7, <2>1, <2>4
  <2> QED
    BY <1>7, <2>4, <2>5 DEF Elems
<1> QED
  BY <1>7, <1>8

(* Dropping a stale candidate preserves it. *)
LEMMA PopStaleInv ==
    ASSUME Inv, PopStale
    PROVE  Inv'
<1>1. Known' = Known /\ InActiveChain' = InActiveChain /\ ChainWork' = ChainWork
  BY DEF PopStale, Known, InActiveChain, ChainWork
<1>2. block_candidates' = LiveCandidates /\ LiveCandidates \in Seq(Blocks)
  BY LiveFacts, GenesisKnown DEF PopStale, Inv, TypeOK
<1>3. CandidatesComplete'
  BY <1>1, <1>2, LiveFacts, GenesisKnown DEF PopStale, Inv, TypeOK, CandidatesComplete
<1> QED
  BY <1>1, <1>2, <1>3 DEF PopStale, Inv, TypeOK, AncestorsKnown, ActiveChainRecorded,
                          HeaderIndexBest
-----------------------------------------------------------------------------

(* What a switch to b takes from the active chain and adds to it. *)
LEMMA SwitchFacts ==
    ASSUME Inv, NEW b \in Known, Work[b] > ChainWork
    PROVE  LET add    == ForkAdd(b, active_chain)
               remove == ForkRemove(b, active_chain)
           IN  /\ SubSeq(active_chain, 1, Len(active_chain) - Len(remove)) \o add = Path[b]
               /\ Elems(Path[b]) = (Elems(active_chain) \ Elems(remove)) \cup Elems(add)
               /\ Elems(remove) \subseteq Elems(active_chain)
               /\ Elems(remove) \cap Elems(add) = {}
<1>1. /\ active_chain \in Seq(Blocks) /\ IsBranch(active_chain)
      /\ b \in Blocks /\ Work[b] > Work[Tip(active_chain)]
  BY DEF Inv, TypeOK, ActiveChainRecorded, Known, ChainWork
<1> QED
  BY <1>1, HeavierForkFacts

(* The blocks a fork takes from the chain come from its end, in ascending   *)
(* order, so remove_from_active_chain accepts them if there is at most one. *)
LEMMA CanSwitchFacts ==
    ASSUME Inv, NEW b \in Known, Work[b] > ChainWork
    PROVE  CanSwitch(b) <=> Len(ForkRemove(b, active_chain)) <= 1
<1> DEFINE n == Len(active_chain)
           k == CommonLen(b, active_chain)
           remove == ForkRemove(b, active_chain)
<1>1. /\ active_chain \in Seq(Blocks) /\ IsBranch(active_chain)
      /\ b \in Blocks /\ Work[b] > Work[Tip(active_chain)]
  BY DEF Inv, TypeOK, ActiveChainRecorded, Known, ChainWork
<1>2. n \in Nat /\ k \in 1 .. n
  BY <1>1, HeavierForkFacts, PathFacts DEF IsBranch
<1>3. Len(remove) = n - k /\ \A i \in 1 .. Len(remove) : remove[i] = active_chain[k + i]
  BY <1>1, HeavierForkFacts
<1>4. ASSUME Len(remove) <= 1
      PROVE  CanSwitch(b)
  BY <1>2, <1>3, <1>4 DEF CanSwitch, CanMove
<1>5. ASSUME CanSwitch(b), ~ (Len(remove) <= 1)
      PROVE  FALSE
  <2>1. 1 \in 1 .. n - k /\ k + 1 # n /\ k + 1 \in 1 .. n /\ n \in 1 .. n
    BY <1>2, <1>3, <1>5
  <2>2. remove[1] = active_chain[n + 1 - 1]
    BY <1>3, <1>5, <2>1, Zenon DEF CanSwitch, CanMove
  <2>3. active_chain[k + 1] = active_chain[n]
    BY <1>2, <1>3, <2>1, <2>2
  <2>4. \A i, j \in 1 .. n : active_chain[i] = active_chain[j] => i = j
    <3>1. Tip(active_chain) \in Blocks /\ active_chain = Path[Tip(active_chain)]
      BY <1>1, TipFacts
    <3> QED
      BY <3>1, NoRepetition
  <2> QED
    BY <2>1, <2>3, <2>4
<1> QED
  BY <1>4, <1>5

(* The batch of a switch to a heavier fork preserves it, the stale          *)
(* candidates dropped or not.                                               *)
LEMMA MoveChainInv ==
    ASSUME Inv, loading = {}, NEW b \in Known, Work[b] > ChainWork, MoveChain(b),
           Elems(ForkAdd(b, active_chain)) \subseteq Known,
           UNCHANGED <<downloaded, header_index, loading>>,
           block_candidates' \in Seq(Blocks),
           \A a \in Elems(block_candidates) : Work[a] > Work[b] => a \in Elems(block_candidates')
    PROVE  Inv' /\ Known' = Known /\ ChainWork' = Work[b] /\ active_chain' = Path[b]
<1> DEFINE add == ForkAdd(b, active_chain)
           remove == ForkRemove(b, active_chain)
<1>1. /\ b \in Known /\ Work[b] > ChainWork
      /\ Elems(add) \subseteq Known
      /\ active_chain' = SubSeq(active_chain, 1, Len(active_chain) - Len(remove)) \o add
      /\ header_dict' = [a \in Blocks |->
                             CASE a \in Elems(add) -> "in_active_chain"
                               [] a \in Elems(remove) \ Elems(add) -> "valid"
                               [] OTHER -> header_dict[a]]
      /\ UNCHANGED <<downloaded, header_index, loading>>
  BY DEF MoveChain, Move
<1>2. /\ active_chain' = Path[b]
      /\ Elems(Path[b]) = (Elems(active_chain) \ Elems(remove)) \cup Elems(add)
      /\ Elems(remove) \subseteq Elems(active_chain)
      /\ Elems(remove) \cap Elems(add) = {}
  BY <1>1, SwitchFacts
<1>3. /\ header_dict \in [Blocks -> Status]
      /\ InActiveChain = Elems(active_chain)
      /\ b \in Blocks
  BY <1>1 DEF Inv, TypeOK, ActiveChainRecorded, Known
<1>4. Path[b] \in Seq(Blocks) /\ IsBranch(Path[b]) /\ Tip(Path[b]) = b
  BY <1>3, PathFacts DEF Tip
<1>5. Elems(Path[b]) \subseteq Blocks
  BY <1>3, <1>4, TipFacts
<1> HIDE DEF add, remove
<1>6. /\ header_dict' \in [Blocks -> Status]
      /\ \A a \in Elems(add) : header_dict'[a] = "in_active_chain"
      /\ \A a \in Elems(remove) : header_dict'[a] = "valid"
      /\ \A a \in Blocks : a \notin Elems(add) \cup Elems(remove) =>
            header_dict'[a] = header_dict[a]
  <2>1. Elems(add) \subseteq Blocks /\ Elems(remove) \subseteq Blocks
    BY <1>2, <1>3, <1>5 DEF InActiveChain
  <2>2. \A a \in Elems(remove) : a \notin Elems(add)
    BY <1>2
  <2>3. \A a \in Blocks : header_dict'[a] = CASE a \in Elems(add) -> "in_active_chain"
                                              [] a \in Elems(remove) \ Elems(add) -> "valid"
                                              [] OTHER -> header_dict[a]
    BY <1>1
  <2> QED
    BY <1>1, <1>3, <2>1, <2>2, <2>3 DEF Status
<1>7. InActiveChain' = Elems(Path[b])
  <2>1. \A a \in Blocks : header_dict'[a] = "in_active_chain" <=>
            a \in Elems(add) \/ (a \in InActiveChain /\ a \notin Elems(remove))
    BY <1>2, <1>6 DEF InActiveChain
  <2> QED
    BY <1>2, <1>3, <1>5, <2>1 DEF InActiveChain
<1>8. Known' = Known
  <2>1. \A a \in Elems(add) : header_dict[a] # "unknown"
    BY <1>1 DEF Known
  <2>2. \A a \in Elems(remove) : header_dict[a] # "unknown"
    BY <1>2, <1>3 DEF InActiveChain
  <2> QED
    BY <1>6, <2>1, <2>2 DEF Known
<1>9. ChainWork' = Work[b] /\ ChainWork \in Nat /\ Work[b] \in Nat
  BY <1>2, <1>3, <1>4, GenesisKnown, WorkAssumption DEF ChainWork
<1>10. TypeOK'
  BY <1>1, <1>2, <1>4, <1>6, <1>8 DEF Inv, TypeOK
<1>11. AncestorsKnown'
  BY <1>8 DEF Inv, AncestorsKnown
<1>12. ActiveChainRecorded'
  BY <1>2, <1>4, <1>7 DEF ActiveChainRecorded
<1>13. HeaderIndexBest'
  <2>1. InActiveChain' \subseteq Known
    BY <1>7, <1>8 DEF InActiveChain, Known
  <2>2. (Known \ loading) \cup InActiveChain = Known
    BY DEF Known, InActiveChain
  <2> QED
    BY <1>1, <1>8, <2>1, <2>2 DEF Inv, HeaderIndexBest
<1>14. CandidatesComplete'
  <2> SUFFICES ASSUME NEW a \in Known, header_dict'[a] = "valid_header", Work[a] > Work[b]
               PROVE  a \in Elems(block_candidates')
    BY <1>1, <1>8, <1>9 DEF CandidatesComplete
  <2>1. header_dict[a] = "valid_header"
    BY <1>6 DEF Known
  <2>2. Work[a] > ChainWork
    BY <1>1, <1>9, WorkAssumption DEF Known
  <2> QED
    BY <2>1, <2>2 DEF Inv, CandidatesComplete
<1> QED
  BY <1>2, <1>8, <1>9, <1>10, <1>11, <1>12, <1>13, <1>14 DEF Inv

(* A switch of the active chain to a heavier fork preserves it. *)
LEMMA SwitchInv ==
    ASSUME Inv, loading = {}, NEW b \in Blocks, Switch(b)
    PROVE  Inv' /\ Known' = Known /\ ChainWork' = Work[b]
<1>1. /\ b \in Known /\ Work[b] > ChainWork /\ MoveChain(b)
      /\ \A a \in Elems(ForkAdd(b, active_chain)) : a \in downloaded
      /\ UNCHANGED <<downloaded, block_candidates, header_index, loading>>
  BY DEF Switch, SwitchTo
<1>2. downloaded \subseteq Known /\ block_candidates' \in Seq(Blocks)
  BY <1>1 DEF Inv, TypeOK
<1> QED
  BY <1>1, <1>2, MoveChainInv
-----------------------------------------------------------------------------

(* A finite set of numbers has an n-th smallest, *)
LEMMA NthOfFinite ==
    ASSUME NEW S \in SUBSET Nat, IsFiniteSet(S), NEW n \in 1 .. Cardinality(S)
    PROVE  \E i \in S : Cardinality({j \in S : j < i}) = n - 1
<1> DEFINE below(i) == {j \in S : j < i}
           N == Cardinality(S)
           Nth == {m \in Nat : m < N => \E i \in S : Cardinality(below(i)) = m}
<1>1. N \in Nat /\ N > 0
  BY FS_CardinalityType
<1>2. S # {}
  BY <1>1, FS_EmptySet
<1>3. 0 \in Nth
  <2>1. PICK i \in S : \A j \in S : i <= j
    BY <1>2, MinExists
  <2>2. \A j \in S : ~ (j < i)
    BY <2>1
  <2>3. below(i) = {}
    BY <2>2
  <2> QED
    BY <2>3, FS_EmptySet
<1>4. ASSUME NEW m \in 0 .. N - 1, m \in Nth PROVE m + 1 \in Nth
  <2> SUFFICES ASSUME m + 1 < N PROVE \E i \in S : Cardinality(below(i)) = m + 1
    BY <1>1
  <2>1. PICK i \in S : Cardinality(below(i)) = m
    BY <1>1, <1>4
  <2> DEFINE upto == below(i) \cup {i}
  <2>2. IsFiniteSet(below(i)) /\ i \notin below(i)
    <3>1. below(i) \subseteq S /\ i \notin below(i)
      OBVIOUS
    <3> QED
      BY <3>1, FS_Subset
  <2>3. Cardinality(upto) = m + 1
    BY <2>1, <2>2, FS_AddElement
  <2>4. S \ upto # {}
    <3>1. upto \subseteq S
      OBVIOUS
    <3>2. S = upto => FALSE
      BY <1>1, <2>3
    <3> QED
      BY <3>1, <3>2
  <2>5. PICK k \in S \ upto : \A j \in S \ upto : k <= j
    <3>1. S \ upto \in SUBSET Nat
      OBVIOUS
    <3> QED
      BY <2>4, <3>1, MinExists
  <2>6. below(k) = upto
    <3>1. k > i
      BY <2>5
    <3>2. \A j \in S : j < k <=> j \in upto
      BY <2>5, <3>1
    <3> QED
      BY <3>2
  <2> QED
    BY <2>3, <2>5, <2>6
<1>5. 0 .. N \subseteq Nth
  <2> HIDE DEF Nth, N
  <2> QED
    BY <1>1, <1>3, <1>4, SetInduction
<1>6. n - 1 \in 0 .. N /\ n - 1 < N
  BY <1>1
<1> QED
  BY <1>5, <1>6

(* and a greatest. *)
LEMMA MaxOfFinite ==
    ASSUME NEW S \in SUBSET Nat, IsFiniteSet(S), S # {}
    PROVE  \E m \in S : \A i \in S : i <= m
<1> DEFINE N == Cardinality(S)
<1>1. N \in Nat /\ N # 0
  BY FS_CardinalityType, FS_EmptySet
<1>2. PICK m \in S : Cardinality({j \in S : j < m}) = N - 1
  BY <1>1, NthOfFinite
<1>3. ASSUME NEW z \in S, z > m PROVE FALSE
  <2> DEFINE below == {j \in S : j < m}
  <2>1. IsFiniteSet(S \ {z}) /\ Cardinality(S \ {z}) = N - 1
    BY FS_RemoveElement
  <2>2. below \subseteq S \ {z} /\ m \in S \ {z} /\ m \notin below
    BY <1>3
  <2>3. below = S \ {z}
    BY <1>2, <2>1, <2>2, FS_Subset
  <2> QED
    BY <2>2, <2>3
<1> QED
  BY <1>2, <1>3

(* Whatever the statuses are, what a new BlockIndex makes of them is a     *)
(* chain of blocks on record that begins with Genesis.                     *)
LEMMA AnyGeneratedChain ==
    ASSUME IsFiniteSet(InActiveChain), Genesis \in InActiveChain
    PROVE  /\ GeneratedChain \in Seq(Blocks) /\ GeneratedChain # <<>>
           /\ GeneratedChain[1] = Genesis
           /\ Elems(GeneratedChain) \subseteq InActiveChain
<1> DEFINE A == ActiveHeights
           N == Cardinality(A)
<1>1. ASSUME NEW b \in InActiveChain PROVE b \in Blocks /\ Height(b) \in Nat
  <2>1. b \in Blocks
    BY DEF InActiveChain
  <2>2. Len(Path[b]) \in Nat \ {0}
    BY <2>1, PathFacts
  <2> QED
    BY <2>1, <2>2 DEF Height
<1>2. A \in SUBSET Nat
  BY <1>1 DEF ActiveHeights
<1>3. IsFiniteSet(A)
  <2>1. A = {Height(b) : b \in InActiveChain}
    BY DEF ActiveHeights
  <2>2. ASSUME NEW D, IsFiniteSet(D), NEW f \in [D -> Nat] PROVE IsFiniteSet({f[x] : x \in D})
    <3>1. f \in Surjection(D, {f[x] : x \in D})
      BY DEF Surjection
    <3> QED
      BY <2>2, <3>1, FS_Surjection
  <2> DEFINE g == [b \in InActiveChain |-> Height(b)]
  <2>3. g \in [InActiveChain -> Nat]
    BY <1>1
  <2>4. A = {g[x] : x \in InActiveChain}
    BY <2>1
  <2> HIDE DEF g
  <2> QED
    BY <2>2, <2>3, <2>4
<1>4. Height(Genesis) = 0 /\ 0 \in A
  <2>1. Height(Genesis) = 0
    BY PathAssumption DEF Height
  <2> QED
    BY <2>1 DEF ActiveHeights
<1>5. N \in Nat \ {0}
  BY <1>3, <1>4, FS_CardinalityType, FS_EmptySet
<1>6. ASSUME NEW n \in 1 .. N
      PROVE  NthHeight(n) \in A /\ Cardinality({j \in A : j < NthHeight(n)}) = n - 1
  <2>1. \E i \in A : Cardinality({j \in A : j < i}) = n - 1
    BY <1>2, <1>3, NthOfFinite
  <2> QED
    BY <2>1, Zenon DEF NthHeight
<1>7. ASSUME NEW i \in A
      PROVE  LastAt(i) \in InActiveChain /\ Height(LastAt(i)) = i
  <2> DEFINE at == {b \in InActiveChain : Height(b) = i}
             R == {Rank[b] : b \in at}
  <2>1. IsFiniteSet(at) /\ at # {}
    <3>1. at # {}
      BY DEF ActiveHeights
    <3> QED
      BY <3>1, FS_Subset
  <2>2. IsFiniteSet(R)
    <3> DEFINE g == [b \in at |-> Rank[b]]
    <3>1. g \in Surjection(at, R)
      BY DEF Surjection
    <3> QED
      BY <2>1, <3>1, FS_Surjection
  <2>3. R \in SUBSET Nat /\ R # {}
    BY <1>1, <2>1, RankAssumption
  <2>4. PICK r \in R : \A x \in R : x <= r
    BY <2>2, <2>3, MaxOfFinite
  <2>5. PICK b \in at : r = Rank[b]
    OBVIOUS
  <2>6. \E c \in InActiveChain :
            /\ Height(c) = i
            /\ \A a \in InActiveChain : Height(a) = i => Rank[a] <= Rank[c]
    BY <2>4, <2>5
  <2> QED
    BY <2>6, Zenon DEF LastAt
<1>8. \A n \in 1 .. N : LastAt(NthHeight(n)) \in InActiveChain
  BY <1>6, <1>7
<1>9. /\ GeneratedChain = [n \in 1 .. N |-> LastAt(NthHeight(n))]
      /\ Len(GeneratedChain) = N /\ GeneratedChain \in Seq(Blocks)
  <2>1. GeneratedChain = [n \in 1 .. N |-> LastAt(NthHeight(n))]
    BY DEF GeneratedChain
  <2>2. GeneratedChain \in [1 .. N -> Blocks]
    BY <1>1, <1>8, <2>1
  <2> QED
    BY <1>5, <2>1, <2>2
<1>10. NthHeight(1) = 0
  <2>1. 1 \in 1 .. N /\ 1 - 1 = 0
    BY <1>5
  <2>2. /\ NthHeight(1) \in A
        /\ Cardinality({j \in A : j < NthHeight(1)}) = 0
    BY <1>6, <2>1
  <2>3. IsFiniteSet({j \in A : j < NthHeight(1)})
    BY <1>3, FS_Subset
  <2>4. {j \in A : j < NthHeight(1)} = {}
    BY <2>2, <2>3, FS_EmptySet
  <2> QED
    <3>1. ~ (0 < NthHeight(1)) /\ NthHeight(1) \in Nat
      BY <1>2, <1>4, <2>2, <2>4
    <3> QED
      BY <3>1
<1>11. GeneratedChain[1] = Genesis
  <2>1. LastAt(0) \in Blocks /\ Height(LastAt(0)) = 0
    BY <1>1, <1>4, <1>7
  <2>2. LastAt(0) = Genesis
    <3>1. ASSUME LastAt(0) # Genesis PROVE FALSE
      BY <2>1, <3>1, ParentFacts DEF Height
    <3> QED
      BY <3>1
  <2> QED
    BY <1>5, <1>9, <1>10, <2>2
<1>12. GeneratedChain # <<>>
  BY <1>5, <1>9
<1> QED
  BY <1>8, <1>9, <1>11, <1>12 DEF Elems

(* What a new BlockIndex makes of the statuses is the chain they record.   *)
LEMMA GeneratedChainFacts ==
    ASSUME Inv
    PROVE  GeneratedChain = active_chain
<1> DEFINE c == active_chain
           n == Len(c)
<1>1. /\ c \in Seq(Blocks) /\ InActiveChain = Elems(c)
      /\ n \in Nat \ {0} /\ c = Path[Tip(c)] /\ Tip(c) \in Blocks
  BY TipFacts DEF Inv, TypeOK, ActiveChainRecorded
<1>2. \A i \in 1 .. n : c[i] \in Blocks /\ c[i] \in InActiveChain /\ Height(c[i]) = i - 1
  <2> TAKE i \in 1 .. n
  <2>1. c[i] \in Blocks /\ c[i] \in Elems(c)
    BY <1>1, ElementOfSeq DEF Elems
  <2> QED
    BY <1>1, <2>1, PrefixFacts
<1>3. \A b \in InActiveChain : \E i \in 1 .. n : b = c[i]
  BY <1>1 DEF Elems
<1>4. ActiveHeights = 0 .. n - 1
  <2>1. \A x \in ActiveHeights : x \in 0 .. n - 1
    <3> TAKE x \in ActiveHeights
    <3>1. PICK b \in InActiveChain : x = Height(b)
      BY DEF ActiveHeights
    <3>2. PICK i \in 1 .. n : b = c[i]
      BY <1>3
    <3> QED
      BY <1>1, <1>2, <3>1, <3>2
  <2>2. \A x \in 0 .. n - 1 : x \in ActiveHeights
    <3> TAKE x \in 0 .. n - 1
    <3>1. x + 1 \in 1 .. n /\ (x + 1) - 1 = x
      BY <1>1
    <3>2. Height(c[x + 1]) = x /\ c[x + 1] \in InActiveChain
      BY <1>2, <3>1
    <3> QED
      BY <3>2, Zenon DEF ActiveHeights
  <2> QED
    BY <2>1, <2>2, Zenon
<1>5. Cardinality(ActiveHeights) = n
  BY <1>1, <1>4, FS_Interval
<1>6. \A m \in 1 .. n : NthHeight(m) = m - 1
  <2> TAKE m \in 1 .. n
  <2>1. \A i \in 0 .. n - 1 : Cardinality({j \in ActiveHeights : j < i}) = i
    <3> TAKE i \in 0 .. n - 1
    <3>1. {j \in ActiveHeights : j < i} = 0 .. i - 1
      BY <1>1, <1>4
    <3>2. 0 \in Int /\ i - 1 \in Int
      BY <1>1
    <3>3. Cardinality(0 .. i - 1) = IF 0 > i - 1 THEN 0 ELSE (i - 1) - 0 + 1
      BY <3>2, FS_Interval, Zenon
    <3>4. Cardinality(0 .. i - 1) = i
      BY <1>1, <3>3
    <3> QED
      BY <3>1, <3>4, Zenon
  <2>2. m - 1 \in ActiveHeights /\ Cardinality({j \in ActiveHeights : j < m - 1}) = m - 1
    BY <1>1, <1>4, <2>1
  <2>3. \A i \in ActiveHeights : Cardinality({j \in ActiveHeights : j < i}) = m - 1 => i = m - 1
    BY <1>4, <2>1
  <2> QED
    BY <2>2, <2>3 DEF NthHeight
<1>7. \A i \in 0 .. n - 1 : LastAt(i) = c[i + 1]
  <2> TAKE i \in 0 .. n - 1
  <2>1. i + 1 \in 1 .. n /\ (i + 1) - 1 = i
    BY <1>1
  <2>2. \A a \in InActiveChain : Height(a) = i => a = c[i + 1]
    <3> TAKE a \in InActiveChain
    <3>1. PICK j \in 1 .. n : a = c[j]
      BY <1>3
    <3>2. Height(a) = j - 1
      BY <1>2, <3>1
    <3> QED
      BY <1>1, <3>1, <3>2
  <2>3. c[i + 1] \in InActiveChain /\ Height(c[i + 1]) = i
    BY <1>2, <2>1
  <2>4. Rank[c[i + 1]] <= Rank[c[i + 1]]
    BY <1>2, <2>1, RankAssumption
  <2> QED
    BY <2>2, <2>3, <2>4 DEF LastAt
<1>8. GeneratedChain = [m \in 1 .. n |-> c[m]]
  <2>1. \A m \in 1 .. n : m - 1 \in 0 .. n - 1 /\ (m - 1) + 1 = m
    BY <1>1
  <2>2. \A m \in 1 .. n : LastAt(NthHeight(m)) = c[m]
    BY <1>6, <1>7, <2>1
  <2> QED
    BY <1>5, <2>2 DEF GeneratedChain
<1>9. c = [m \in 1 .. n |-> c[m]]
  BY <1>1, LenProperties
<1> QED
  BY <1>8, <1>9

(* A restart, which rebuilds the active chain from the stored headers, keeps that
   chain and preserves the conjunction. *)
LEMMA RestartInv ==
    ASSUME Inv, Restart
    PROVE  Inv' /\ active_chain' = active_chain
<1>1. /\ active_chain' = active_chain
      /\ header_index' = active_chain
      /\ block_candidates' = <<>>
      /\ loading' = Known
      /\ UNCHANGED <<header_dict, downloaded>>
  BY GeneratedChainFacts DEF Restart
<1>2. Known' = Known /\ InActiveChain' = InActiveChain
  BY <1>1 DEF Known, InActiveChain
<1>3. /\ active_chain \in Seq(Blocks) /\ IsBranch(active_chain)
      /\ InActiveChain = Elems(active_chain)
      /\ Len(active_chain) \in Nat \ {0} /\ active_chain = Path[Tip(active_chain)]
      /\ Tip(active_chain) \in Blocks
  BY TipFacts DEF Inv, TypeOK, ActiveChainRecorded
<1>4. TypeOK'
  BY <1>1, <1>2, <1>3 DEF Inv, TypeOK
<1>5. ActiveChainRecorded'
  BY <1>1, <1>2, <1>3 DEF ActiveChainRecorded
<1>6. HeaderIndexBest'
  <2>1. \A b \in InActiveChain : Work[b] <= Work[Tip(active_chain)]
    <3> TAKE b \in InActiveChain
    <3>1. PICK i \in 1 .. Len(active_chain) : b = active_chain[i]
      BY <1>3 DEF Elems
    <3>2. CASE i = Len(active_chain)
      BY <1>3, <3>1, <3>2, WorkAssumption DEF Tip
    <3>3. CASE i # Len(active_chain)
      <4>1. /\ i \in 1 .. Len(Path[Tip(active_chain)])
            /\ Len(active_chain) \in 1 .. Len(Path[Tip(active_chain)])
            /\ i < Len(active_chain)
        BY <1>3, <3>3
      <4>2. Work[active_chain[i]] < Work[Tip(active_chain)]
        BY <1>3, <4>1, WorkGrows DEF Tip
      <4>3. Work[b] \in Nat /\ Work[Tip(active_chain)] \in Nat
        BY <1>3, WorkAssumption DEF InActiveChain
      <4> QED
        BY <3>1, <4>2, <4>3
    <3> QED
      BY <3>2, <3>3
  <2>2. InActiveChain \subseteq Known
    BY DEF InActiveChain, Known
  <2> QED
    BY <1>1, <1>2, <1>3, <2>1, <2>2 DEF HeaderIndexBest
<1>7. CandidatesComplete' /\ AncestorsKnown'
  BY <1>1, <1>2 DEF CandidatesComplete, Inv, AncestorsKnown
<1> QED
  BY <1>1, <1>4, <1>5, <1>6, <1>7 DEF Inv

(* Loading one more header in init_from_db preserves it. *)
LEMMA LoadNextInv ==
    ASSUME Inv, NEW h \in Blocks, LoadNext(h)
    PROVE  Inv'
<1> USE DEF LoadNext
<1>1. /\ header_dict \in [Blocks -> Status]
      /\ block_candidates \in Seq(Blocks)
      /\ header_index \in Seq(Blocks) /\ IsBranch(header_index)
      /\ loading \subseteq Known
      /\ h \in loading /\ h \in Known
  BY DEF Inv, TypeOK, HeaderIndexBest, IsFirst
<1>2. Known' = Known /\ InActiveChain' = InActiveChain /\ ChainWork' = ChainWork
  BY DEF Known, InActiveChain, ChainWork
<1>3. /\ header_index' \in Seq(Blocks) /\ IsBranch(header_index')
      /\ header_index' = header_index \/ header_index' = Path[h]
      /\ Work[h] <= Work[Tip(header_index')]
      /\ Work[Tip(header_index)] <= Work[Tip(header_index')]
  <2>1. /\ Tip(header_index) \in Blocks /\ Work[Tip(header_index)] \in Nat
        /\ Len(header_index) \in Nat /\ header_index = Path[Tip(header_index)]
        /\ Genesis \in Elems(header_index)
    BY <1>1, TipFacts, WorkAssumption
  <2>2. CASE h \in Elems(header_index)
    <3>1. PICK i \in 1 .. Len(header_index) : h = header_index[i]
      BY <2>2 DEF Elems
    <3>2. Work[h] <= Work[Tip(header_index)]
      <4>1. CASE i = Len(header_index)
        BY <2>1, <3>1, <4>1 DEF Tip
      <4>2. CASE i # Len(header_index)
        <5>1. /\ i \in 1 .. Len(Path[Tip(header_index)])
              /\ Len(header_index) \in 1 .. Len(Path[Tip(header_index)])
              /\ i < Len(header_index)
          BY <2>1, <4>2
        <5>2. Work[header_index[i]] < Work[Tip(header_index)]
          BY <2>1, <5>1, WorkGrows DEF Tip
        <5> QED
          BY <2>1, <3>1, <5>2, WorkAssumption
      <4> QED
        BY <4>1, <4>2
    <3>3. header_index' = header_index
      BY <2>2
    <3> QED
      BY <1>1, <2>1, <3>2, <3>3
  <2>3. CASE h \notin Elems(header_index)
    <3>1. h \in Blocks \ {Genesis} /\ header_index' = ExtendHeaderIndex(header_index, h)
      BY <2>1, <2>3
    <3>2. Parent(h) \in Known
      <4>1. /\ Len(Path[h]) \in Nat /\ Len(Path[h]) > 1 /\ Elems(Path[h]) \subseteq Known
        BY <1>1, <3>1, PathFacts, ParentFacts DEF Inv, AncestorsKnown
      <4> QED
        BY <4>1 DEF Parent, Elems
    <3>3. Parent(h) \notin loading
      <4>1. Height(Parent(h)) < Height(h) /\ Height(Parent(h)) \in Int /\ Height(h) \in Int
        <5>1. Len(Path[Parent(h)]) = Len(Path[h]) - 1 /\ Len(Path[h]) \in Nat
          BY <3>1, ParentFacts, PathFacts
        <5> QED
          BY <5>1 DEF Height
      <4>2. \A b \in loading : Height(h) < Height(b) \/ Height(h) = Height(b)
        BY DEF IsFirst
      <4> QED
        BY <4>1, <4>2
    <3>4. Work[Parent(h)] <= Work[Tip(header_index)]
      BY <3>2, <3>3 DEF Inv, HeaderIndexBest
    <3> QED
      BY <1>1, <3>1, <3>4, HeaderIndexStep
  <2> QED
    BY <2>2, <2>3
<1>4. /\ block_candidates' \in Seq(Blocks)
      /\ Elems(block_candidates) \subseteq Elems(block_candidates')
      /\ header_dict[h] = "valid_header" /\ Work[h] > ChainWork
            => h \in Elems(block_candidates')
  BY <1>1, ElemsAppend
<1>5. TypeOK'
  BY <1>2, <1>3, <1>4 DEF Inv, TypeOK
<1>6. HeaderIndexBest'
  <2>1. Elems(header_index') \subseteq Known
    BY <1>1, <1>3 DEF Inv, HeaderIndexBest, AncestorsKnown
  <2>2. \A b \in (Known \ loading) \cup InActiveChain : Work[b] <= Work[Tip(header_index)]
    BY DEF Inv, HeaderIndexBest
  <2>3. Work[Tip(header_index)] \in Nat /\ Work[Tip(header_index')] \in Nat
    BY <1>1, <1>3, TipFacts, WorkAssumption
  <2>4. \A b \in (Known \ loading) \cup InActiveChain : Work[b] \in Nat
    BY WorkAssumption DEF Known, InActiveChain
  <2>5. \A b \in (Known \ loading) \cup InActiveChain : Work[b] <= Work[Tip(header_index')]
    BY <1>3, <2>2, <2>3, <2>4
  <2>6. \A b \in (Known \ (loading \ {h})) \cup InActiveChain :
            b \in (Known \ loading) \cup InActiveChain \/ b = h
    OBVIOUS
  <2> QED
    BY <1>2, <1>3, <2>1, <2>5, <2>6 DEF HeaderIndexBest
<1>7. CandidatesComplete'
  BY <1>2, <1>4 DEF Inv, CandidatesComplete
<1>8. AncestorsKnown' /\ ActiveChainRecorded'
  BY <1>2 DEF Inv, AncestorsKnown, ActiveChainRecorded
<1> QED
  BY <1>5, <1>6, <1>7, <1>8 DEF Inv
-----------------------------------------------------------------------------

(* Every step of block_index.py preserves it. *)
LEMMA NextInv == Inv /\ [Next]_indexVars => Inv'
<1> SUFFICES ASSUME Inv, [Next]_indexVars PROVE Inv'
  OBVIOUS
<1>1. CASE Use
  <2>1. CASE \E b \in Blocks : AddHeader(b)
    BY <1>1, <2>1, AddHeaderInv DEF Use
  <2>2. CASE \E b \in Blocks : MarkDownloaded(b)
    BY <2>2, MarkDownloadedInv
  <2>3. CASE \E b \in Blocks : Validate(b)
    BY <2>3, ValidateInv
  <2>4. CASE \E b \in Blocks : Switch(b)
    BY <1>1, <2>4, SwitchInv DEF Use
  <2>5. CASE PopStale
    BY <2>5, PopStaleInv
  <2> QED
    BY <1>1, <2>1, <2>2, <2>3, <2>4, <2>5 DEF Use
<1>2. CASE Restart
  BY <1>2, RestartInv
<1>3. CASE \E b \in Blocks : LoadNext(b)
  BY <1>3, LoadNextInv
<1>4. CASE UNCHANGED indexVars
  <2>1. Known' = Known /\ InActiveChain' = InActiveChain /\ ChainWork' = ChainWork
    BY <1>4 DEF indexVars, Known, InActiveChain, ChainWork
  <2> QED
    BY <1>4, <2>1 DEF indexVars, Inv, TypeOK, AncestorsKnown, ActiveChainRecorded,
                      HeaderIndexBest, CandidatesComplete
<1> QED
  BY <1>1, <1>2, <1>3, <1>4 DEF Next

(* While the index is used a header that beats the active chain is never   *)
(* forgotten; a restart forgets those already found valid.                 *)
BetterWait == \A b \in Known : Work[b] > ChainWork => b \in Elems(block_candidates)

LEMMA BetterWaitStep ==
    ASSUME Inv, BetterWait, loading = {}, loading' = {}, [Next]_indexVars
    PROVE  BetterWait'
<1>1. CASE \E b \in Blocks : AddHeader(b)
  <2>1. PICK h \in Blocks : AddHeader(h)
    BY <1>1
  <2>2. block_candidates \in Seq(Blocks) /\ header_dict \in [Blocks -> Status]
    BY DEF Inv, TypeOK
  <2>3. /\ Elems(block_candidates) \subseteq Elems(block_candidates')
        /\ Work[h] > ChainWork => h \in Elems(block_candidates')
    BY <2>1, <2>2, ElemsAppend DEF AddHeader
  <2>4. Known' = Known \cup {h} /\ ChainWork' = ChainWork
    BY <2>1, <2>2 DEF AddHeader, Known, ChainWork
  <2> QED
    BY <2>3, <2>4 DEF BetterWait
<1>2. CASE \E b \in Blocks : MarkDownloaded(b)
  BY <1>2 DEF MarkDownloaded, Known, ChainWork, BetterWait
<1>3. CASE \E b \in Blocks : Validate(b)
  <2>1. header_dict \in [Blocks -> Status]
    BY DEF Inv, TypeOK
  <2>2. Known' = Known /\ ChainWork' = ChainWork /\ block_candidates' = block_candidates
    BY <1>3, <2>1 DEF Validate, MarkValid, Known, ChainWork
  <2> QED
    BY <2>2 DEF BetterWait
<1>4. CASE \E b \in Blocks : Switch(b)
  <2>1. PICK b \in Blocks : Switch(b)
    BY <1>4
  <2>2. /\ Known' = Known /\ ChainWork' = Work[b] /\ Work[b] > ChainWork
        /\ block_candidates' = block_candidates
    BY <2>1, SwitchInv DEF Switch, SwitchTo
  <2>3. \A a \in Known : Work[a] > Work[b] => Work[a] > ChainWork
    BY <2>2, GenesisKnown, WorkAssumption DEF Known
  <2> QED
    BY <2>2, <2>3 DEF BetterWait
<1>5. CASE PopStale
  <2>1. Known' = Known /\ ChainWork' = ChainWork /\ block_candidates' = LiveCandidates
    BY <1>5 DEF PopStale, Known, ChainWork
  <2> QED
    BY <2>1, LiveFacts, GenesisKnown DEF BetterWait, Inv, TypeOK
<1>6. ~ Restart /\ ~ \E b \in Blocks : LoadNext(b)
  BY GenesisKnown DEF Restart, LoadNext, IsFirst
<1>7. CASE UNCHANGED indexVars
  BY <1>7 DEF indexVars, Known, ChainWork, BetterWait
<1> QED
  BY <1>1, <1>2, <1>3, <1>4, <1>5, <1>6, <1>7 DEF Next, Use
-----------------------------------------------------------------------------

(* The conjunction holds in every execution of block_index.py. *)
THEOREM Invariance == Spec => []Inv
BY InitInv, NextInv, PTL DEF Spec

(* The types of block_index.py's records and lists, in every execution. *)
THEOREM TypeCorrect == Spec => []TypeOK
<1>1. Inv => TypeOK
  BY DEF Inv
<1> QED
  BY <1>1, Invariance, PTL

(* The statuses put by insert_block_info are those of one branch, which is *)
(* the active chain.                                                       *)
THEOREM ActiveChainIsRecorded == Spec => []ActiveChainRecorded
<1>1. Inv => ActiveChainRecorded
  BY DEF Inv
<1> QED
  BY <1>1, Invariance, PTL

(* header_index is the best branch of known headers: add_headers and       *)
(* generate_header_index never slice it with [:-0].                        *)
THEOREM HeaderIndexIsBest == Spec => []HeaderIndexBest
<1>1. Inv => HeaderIndexBest
  BY DEF Inv
<1> QED
  BY <1>1, Invariance, PTL

(* No header still to be validated that beats the active chain is missing  *)
(* from block_candidates, whatever is popped or rebuilt.                   *)
THEOREM CandidatesAreComplete == Spec => []CandidatesComplete
<1>1. Inv => CandidatesComplete
  BY DEF Inv
<1> QED
  BY <1>1, Invariance, PTL

(* A new BlockIndex on the database has the active chain of the old one.   *)
THEOREM RestartKeepsTheChain == Spec => RestartKeepsChain
<1>1. Inv /\ [Next]_indexVars => [Restart => active_chain' = active_chain]_indexVars
  BY RestartInv
<1> QED
  BY <1>1, Invariance, PTL DEF Spec, RestartKeepsChain
=============================================================================
