------------------------ MODULE DelPaginationProofs ------------------------
(***************************************************************************)
(* Proofs about get_hyper_index of                                         *)
(* src/0x00-pagination/3-hypermedia_del_pagination.py, for every dataset   *)
(* size, every page size and every sequence of deletions.                  *)
(***************************************************************************)
EXTENDS DelPagination, FiniteSetTheorems, SequenceTheorems, WellFoundedInduction,
        TLAPS

(***************************************************************************)
(* PageFullUnlessLast speaks of resp alone; a request replaces resp by the *)
(* answer to the client's next index, which is a position (or None) only   *)
(* because every earlier answer's next_index was one.  PageInv adds that,  *)
(* and that the key set is a set of positions.                             *)
(***************************************************************************)
PageInv ==
    /\ indexed = None \/ indexed \subseteq Positions
    /\ want \in Nat \cup {None}
    /\ size \in PageSizes
    /\ PageFullUnlessLast

(***************************************************************************)
(* SeenInOrder is not inductive either: the next page must start beyond    *)
(* every record the walk already holds.  OrderInv says that every record   *)
(* received lies below the cursor want, and that a walk that has not       *)
(* started holds nothing.                                                  *)
(***************************************************************************)
\* IsSorted(s, <) of SequencesExt, with the order written out.
Increasing(s) == \A i, j \in 1..Len(s) : i < j => s[i] < s[j]

OrderInv ==
    /\ TypeOK
    /\ want \in Nat \cup {None}
    /\ Increasing(seen)
    /\ want # None => \A i \in 1..Len(seen) : seen[i] < want
    /\ want = None /\ ~done => seen = <<>>

-----------------------------------------------------------------------------
\* A non-empty set of naturals has a least element.
LEMMA LeastNat ==
    ASSUME NEW T \in SUBSET Nat, T # {}
    PROVE  \E m \in T : \A y \in T : ~(y < m)
<1>1. \E m \in T : \A y \in T : ~(<<y, m>> \in OpToRel(<, Nat))
  BY NatLessThanWellFounded, WFMin
<1>. QED
  BY <1>1 DEF OpToRel

\* The keys a loop from s has passed before reaching c form a finite set.
LEMMA CollectedFinite ==
    ASSUME NEW idx, IsFiniteSet(idx), NEW s, NEW c
    PROVE  /\ IsFiniteSet(Collected(idx, s, c))
           /\ Cardinality(Collected(idx, s, c)) \in Nat
<1>1. Collected(idx, s, c) \subseteq idx
  BY DEF Collected
<1>. QED
  BY <1>1, FS_Subset, FS_CardinalityType

\* One more turn of the loop appends at most one record.
LEMMA CollectedStep ==
    ASSUME NEW idx \in SUBSET Int, IsFiniteSet(idx), NEW s \in Int, NEW c \in Int
    PROVE  Cardinality(Collected(idx, s, c + 1))
               <= Cardinality(Collected(idx, s, c)) + 1
<1> DEFINE C0 == Collected(idx, s, c)
           C1 == Collected(idx, s, c + 1)
<1>1. IsFiniteSet(C0) /\ Cardinality(C0) \in Nat
  BY CollectedFinite DEF C0
<1>2. CASE c \in idx /\ s <= c
  <2>1. \A p \in idx : (s <= p /\ p < c + 1) <=> ((s <= p /\ p < c) \/ p = c)
    BY <1>2, SMT
  <2>2. C1 = C0 \cup {c}
    BY <1>2, <2>1, Zenon DEF Collected, C0, C1
  <2>3. c \notin C0
    BY SMT DEF Collected, C0
  <2>4. Cardinality(C1) = Cardinality(C0) + 1
    BY <1>1, <2>2, <2>3, FS_AddElement
  <2>. QED
    BY <1>1, <2>4 DEF C0, C1
<1>3. CASE ~(c \in idx /\ s <= c)
  <2>1. \A p \in idx : (s <= p /\ p < c + 1) <=> (s <= p /\ p < c)
    BY <1>3, SMT
  <2>2. C1 = C0
    BY <2>1, Zenon DEF Collected, C0, C1
  <2>. QED
    BY <1>1, <2>2 DEF C0, C1
<1>. QED
  BY <1>2, <1>3

(***************************************************************************)
(* The while loop of get_hyper_index stops: its exit cursor LoopExit is    *)
(* the first cursor value from s on at which the loop condition is false.  *)
(***************************************************************************)
LEMMA LoopExitFacts ==
    ASSUME NEW idx \in SUBSET Nat, IsFiniteSet(idx), NEW s \in Nat, NEW ps \in Int
    PROVE  /\ LoopExit(idx, s, ps) \in Nat
           /\ s <= LoopExit(idx, s, ps)
           /\ ~LoopContinues(idx, s, LoopExit(idx, s, ps), ps)
           /\ \A d \in s..(LoopExit(idx, s, ps) - 1) : LoopContinues(idx, s, d, ps)
<1> DEFINE B == IF s < Cardinality(idx) THEN Cardinality(idx) ELSE s
           Exit(c) == /\ ~LoopContinues(idx, s, c, ps)
                      /\ \A d \in s..(c - 1) : LoopContinues(idx, s, d, ps)
           T == {c \in s..B : ~LoopContinues(idx, s, c, ps)}
<1>1. Cardinality(idx) \in Nat
  BY FS_CardinalityType
<1>2. B \in T
  BY <1>1 DEF LoopContinues
<1>3. T \in SUBSET Nat /\ T # {}
  BY <1>1, <1>2
<1>4. PICK m \in T : \A y \in T : ~(y < m)
  BY <1>3, LeastNat
<1>5. \A d \in s..(m - 1) : LoopContinues(idx, s, d, ps)
  <2> SUFFICES ASSUME NEW d \in s..(m - 1), ~LoopContinues(idx, s, d, ps)
               PROVE  FALSE
    OBVIOUS
  <2>1. d \in T
    BY <1>1, <1>4
  <2>. QED
    BY <1>4, <2>1
<1>6. m \in s..B /\ Exit(m)
  BY <1>4, <1>5
<1>7. LoopExit(idx, s, ps) \in s..B /\ Exit(LoopExit(idx, s, ps))
  BY <1>6 DEF LoopExit
<1>. QED
  BY <1>1, <1>7

(***************************************************************************)
(* The answer of get_hyper_index for a page size that is not negative:    *)
(* next_index is a position or None, and a page followed by another one    *)
(* holds page_size records.  The loop stops short of page_size records     *)
(* only when the cursor reaches len(indexed_data), and then next_index is  *)
(* None.                                                                   *)
(***************************************************************************)
LEMMA PageFull ==
    ASSUME NEW idx \in SUBSET Nat, IsFiniteSet(idx),
           NEW index \in Nat \cup {None}, NEW ps \in Nat
    PROVE  LET r == HyperIndex(idx, index, ps)
           IN  /\ r.next_index \in Nat \cup {None}
               /\ r.next_index # None => r.page_size = r.asked
<1> DEFINE s == IF index # None THEN index ELSE 0
           c == LoopExit(idx, s, ps)
           K == Cardinality(Collected(idx, s, c))
<1> USE DEF s, c, K
<1>1. s \in Nat
  OBVIOUS
<1>2. /\ c \in Nat
      /\ s <= c
      /\ ~LoopContinues(idx, s, c, ps)
      /\ \A d \in s..(c - 1) : LoopContinues(idx, s, d, ps)
  <2>1. IsFiniteSet(idx) /\ ps \in Int
    OBVIOUS
  <2>. QED
    BY <1>1, <2>1, LoopExitFacts
<1>3. /\ HyperIndex(idx, index, ps).next_index
             = IF c < Cardinality(idx) THEN c ELSE None
      /\ HyperIndex(idx, index, ps).page_size = K
      /\ HyperIndex(idx, index, ps).asked = ps
  BY DEF HyperIndex
<1>4. ASSUME c < Cardinality(idx) PROVE K = ps
  <2>1. K \in Nat /\ K >= ps
    BY <1>2, <1>4, CollectedFinite DEF LoopContinues
  <2>2. CASE c = s
    <3>0. \A p \in idx : ~(s <= p /\ p < c)
      BY <1>1, <2>2, SMT
    <3>1. Collected(idx, s, c) = {}
      BY <3>0, Zenon DEF Collected
    <3>. QED
      BY <2>1, <3>1, FS_EmptySet
  <2>3. CASE c # s
    <3>1. c - 1 \in s..(c - 1) /\ c - 1 \in Int
      BY <1>1, <1>2, <2>3
    <3>2. Cardinality(Collected(idx, s, c - 1)) < ps
      BY <1>2, <3>1 DEF LoopContinues
    <3>3. K <= Cardinality(Collected(idx, s, c - 1)) + 1
      <4>1. Collected(idx, s, (c - 1) + 1) = Collected(idx, s, c)
        <5>1. (c - 1) + 1 = c
          BY <1>2, SMT
        <5>. QED
          BY <5>1
      <4>. QED
        BY <1>1, <3>1, <4>1, CollectedStep
    <3>4. Cardinality(Collected(idx, s, c - 1)) \in Nat
      BY CollectedFinite
    <3>. QED
      BY <2>1, <3>2, <3>3, <3>4
  <2>. QED
    BY <2>2, <2>3
<1>5. c # None
  BY <1>2, NoneAssumption
<1>. QED
  BY <1>2, <1>3, <1>4, <1>5

-----------------------------------------------------------------------------
\* The key set of the indexed dataset is a finite set of positions.
LEMMA IndexedFinite ==
    ASSUME NEW idx \in SUBSET Positions
    PROVE  idx \in SUBSET Nat /\ IsFiniteSet(idx)
<1>1. IsFiniteSet(Positions) /\ Positions \subseteq Nat
  BY NAssumption, FS_Interval DEF Positions
<1>. QED
  BY <1>1, FS_Subset

THEOREM InitPage == PageSizes \subseteq Nat /\ Init => PageInv
BY DEF Init, PageInv, PageFullUnlessLast

LEMMA RequestPage ==
    ASSUME PageSizes \subseteq Nat, PageInv, Request
    PROVE  PageInv'
<1> DEFINE r == HyperIndex(IndexedDataset, want, size)
<1>1. IndexedDataset \subseteq Positions
  BY DEF PageInv, IndexedDataset
<1>2. IndexedDataset \in SUBSET Nat /\ IsFiniteSet(IndexedDataset)
  BY <1>1, IndexedFinite
<1>3. want \in Nat \cup {None} /\ size \in Nat
  BY DEF PageInv
<1>4. /\ r.next_index \in Nat \cup {None}
      /\ r.next_index # None => r.page_size = r.asked
  BY <1>2, <1>3, PageFull
<1>5. /\ indexed' = IndexedDataset
      /\ resp' = r
      /\ want' = r.next_index
      /\ size' = size
  BY DEF Request
<1>. QED
  BY <1>1, <1>4, <1>5 DEF PageInv, PageFullUnlessLast

THEOREM NextPage ==
    PageSizes \subseteq Nat /\ PageInv /\ [Next]_vars => PageInv'
<1> SUFFICES ASSUME PageSizes \subseteq Nat, PageInv, [Next]_vars
             PROVE  PageInv'
  OBVIOUS
<1>1. CASE Request
  BY <1>1, RequestPage
<1>2. CASE Restart
  BY <1>2 DEF Restart, PageInv, PageFullUnlessLast
<1>3. CASE \E i \in Positions : Delete(i)
  BY <1>3 DEF Delete, PageInv, PageFullUnlessLast
<1>4. CASE UNCHANGED vars
  BY <1>4 DEF vars, PageInv, PageFullUnlessLast
<1>. QED
  BY <1>1, <1>2, <1>3, <1>4 DEF Next

(***************************************************************************)
(* For every dataset size, every sequence of deletions between requests    *)
(* and every page size that is not negative, a page of get_hyper_index     *)
(* that is followed by another one holds page_size records: deleted keys   *)
(* do not shorten it.  A negative page_size is not covered, and rightly:   *)
(* get_hyper_index does not check it, and then answers an empty page with  *)
(* a next_index.                                                           *)
(***************************************************************************)
THEOREM PagesFull == PageSizes \subseteq Nat => (Spec => []PageFullUnlessLast)
<1> SUFFICES ASSUME PageSizes \subseteq Nat
             PROVE  Spec => []PageFullUnlessLast
  OBVIOUS
<1>1. Init => PageInv
  BY InitPage
<1>2. PageInv /\ [Next]_vars => PageInv'
  BY NextPage
<1>3. PageInv => PageFullUnlessLast
  BY DEF PageInv
<1>. QED
  BY <1>1, <1>2, <1>3, PTL DEF Spec

-----------------------------------------------------------------------------
(***************************************************************************)
(* With a positive page size the while loop runs at least once when the    *)
(* cursor starts below len(indexed_data), so a next_index that is not      *)
(* None lies beyond the start.                                             *)
(***************************************************************************)
LEMMA Advance ==
    ASSUME NEW idx \in SUBSET Nat, IsFiniteSet(idx),
           NEW index \in Nat \cup {None}, NEW ps \in Nat \ {0}
    PROVE  LET s == IF index # None THEN index ELSE 0
           IN  HyperIndex(idx, index, ps).next_index # None =>
                   HyperIndex(idx, index, ps).next_index > s
<1> DEFINE s == IF index # None THEN index ELSE 0
           c == LoopExit(idx, s, ps)
<1> USE DEF s, c
<1>1. s \in Nat
  OBVIOUS
<1>2. /\ c \in Nat
      /\ s <= c
      /\ ~LoopContinues(idx, s, c, ps)
  <2>1. IsFiniteSet(idx) /\ ps \in Int
    OBVIOUS
  <2>. QED
    BY <1>1, <2>1, LoopExitFacts
<1>3. HyperIndex(idx, index, ps).next_index
        = IF c < Cardinality(idx) THEN c ELSE None
  BY DEF HyperIndex
<1>4. ASSUME c < Cardinality(idx) PROVE c > s
  <2>1. Collected(idx, s, s) = {}
    <3>1. \A p \in idx : ~(s <= p /\ p < s)
      BY <1>1, SMT
    <3>. QED
      BY <3>1, Zenon DEF Collected
  <2>2. Cardinality(Collected(idx, s, s)) = 0
    BY <2>1, FS_EmptySet
  <2>3. c = s => LoopContinues(idx, s, c, ps)
    BY <1>4, <2>2 DEF LoopContinues
  <2>. QED
    BY <1>2, <2>3
<1>. QED
  BY <1>3, <1>4

\* A request keeps PageInv and moves the cursor forward.
LEMMA RequestAdvances ==
    ASSUME PageSizes \subseteq Nat \ {0}, PageInv, Request
    PROVE  want' # None => want' > (IF want # None THEN want ELSE 0)
<1>1. IndexedDataset \in SUBSET Nat /\ IsFiniteSet(IndexedDataset)
  <2>1. IndexedDataset \subseteq Positions
    BY DEF PageInv, IndexedDataset
  <2>. QED
    BY <2>1, IndexedFinite
<1>2. want \in Nat \cup {None} /\ size \in Nat \ {0}
  BY DEF PageInv
<1>3. want' = HyperIndex(IndexedDataset, want, size).next_index
  BY DEF Request
<1>. QED
  BY <1>1, <1>2, <1>3, Advance

(***************************************************************************)
(* For every dataset size, every sequence of deletions and every positive  *)
(* page size, each get_hyper_index call that does not end the walk returns *)
(* a next_index beyond the index it was given.  Page size 0 is excluded,   *)
(* and must be: then next_index = index (the run del_zero_size).           *)
(***************************************************************************)
THEOREM CursorAdvancesProved ==
    PageSizes \subseteq Nat \ {0} => (Spec => CursorAdvances)
<1> SUFFICES ASSUME PageSizes \subseteq Nat \ {0}
             PROVE  Spec => CursorAdvances
  OBVIOUS
<1>1. Init => PageInv
  BY InitPage
<1>2. PageInv /\ [Next]_vars => PageInv'
  BY NextPage
<1>3. PageInv /\ [Next]_vars =>
        [Request /\ want' # None => want' > (IF want # None THEN want ELSE 0)]_vars
  BY RequestAdvances
<1>. QED
  BY <1>1, <1>2, <1>3, PTL DEF Spec, CursorAdvances


-----------------------------------------------------------------------------
(***************************************************************************)
(* The page's data: InKeyOrder(S) is a strictly increasing list of the     *)
(* elements of S.  The rank of a key (the number of keys below it) maps S  *)
(* one-to-one into 0..Cardinality(S) - 1, hence onto it, so each position  *)
(* of the list has its key, and ranks grow with keys.                      *)
(***************************************************************************)
\* The number of elements of S below x.
Rank(S, x) == Cardinality({y \in S : y < x})

LEMMA RankFacts ==
    ASSUME NEW S \in SUBSET Int, IsFiniteSet(S), NEW x \in S
    PROVE  Rank(S, x) \in 0..(Cardinality(S) - 1)
<1>1. {y \in S : y < x} \subseteq S \ {x}
  BY SMT
<1>2. IsFiniteSet(S \ {x}) /\ Cardinality(S \ {x}) = Cardinality(S) - 1
  BY FS_RemoveElement
<1>3. Cardinality({y \in S : y < x}) \in Nat
      /\ Cardinality({y \in S : y < x}) <= Cardinality(S \ {x})
  BY <1>1, <1>2, FS_Subset, FS_CardinalityType
<1>. QED
  BY <1>2, <1>3 DEF Rank

LEMMA RankMono ==
    ASSUME NEW S \in SUBSET Int, IsFiniteSet(S), NEW x \in S, NEW y \in S, x < y
    PROVE  Rank(S, x) < Rank(S, y)
<1> DEFINE A == {z \in S : z < x}
           B == {z \in S : z < y}
<1> USE DEF A, B
<1>1. A \subseteq B /\ x \in B /\ x \notin A
  <2>1. (\A z \in S : z < x => z < y) /\ ~(x < x)
    BY SMT
  <2>. QED
    BY <2>1, Zenon
<1>2. IsFiniteSet(A) /\ IsFiniteSet(B) /\ Cardinality(B) \in Nat
      /\ Cardinality(A) \in Nat
  BY FS_Subset, FS_CardinalityType
<1>3. Cardinality(A) <= Cardinality(B) /\ (Cardinality(B) = Cardinality(A) => B = A)
  BY <1>1, <1>2, FS_Subset
<1>. QED
  BY <1>1, <1>2, <1>3 DEF Rank

LEMMA InKeyOrderFacts ==
    ASSUME NEW S \in SUBSET Int, IsFiniteSet(S)
    PROVE  /\ InKeyOrder(S) \in Seq(S)
           /\ \A i, j \in 1..Len(InKeyOrder(S)) :
                  i < j => InKeyOrder(S)[i] < InKeyOrder(S)[j]
<1> DEFINE n == Cardinality(S)
           r == [x \in S |-> Rank(S, x)]
           q == InKeyOrder(S)
<1> USE DEF n, r, q
<1>1. n \in Nat
  BY FS_CardinalityType
<1>2. r \in Injection(S, 0..(n - 1))
  <2>1. r \in [S -> 0..(n - 1)]
    BY RankFacts
  <2>2. \A x, y \in S : x # y => Rank(S, x) # Rank(S, y)
    <3> SUFFICES ASSUME NEW x \in S, NEW y \in S, x # y
                 PROVE  Rank(S, x) # Rank(S, y)
      OBVIOUS
    <3>1. x < y \/ y < x
      BY SMT
    <3>2. Rank(S, x) \in Nat /\ Rank(S, y) \in Nat
      BY RankFacts
    <3>3. CASE x < y
      BY <3>2, <3>3, RankMono
    <3>4. CASE y < x
      BY <3>2, <3>4, RankMono
    <3>. QED
      BY <3>1, <3>3, <3>4
  <2>. QED
    BY <2>1, <2>2 DEF Injection, IsInjective
<1>3. r \in Surjection(S, 0..(n - 1))
  <2>1. IsFiniteSet(0..(n - 1)) /\ Cardinality(0..(n - 1)) = n
    BY <1>1, FS_Interval
  <2>. QED
    BY <1>2, <2>1, FS_Injection
<1>4. \A i \in 1..n : \E x \in S : Rank(S, x) = i - 1
  <2> SUFFICES ASSUME NEW i \in 1..n PROVE \E x \in S : Rank(S, x) = i - 1
    OBVIOUS
  <2>1. i - 1 \in 0..(n - 1)
    BY <1>1
  <2>2. \E x \in S : r[x] = i - 1
    BY <1>3, <2>1 DEF Surjection
  <2>. QED
    BY <2>2
<1>5. \A i \in 1..n : q[i] \in S /\ Rank(S, q[i]) = i - 1
  BY <1>4 DEF InKeyOrder, Rank
<1>6. q \in Seq(S) /\ Len(q) = n
  <2>1. q \in [1..n -> S]
    BY <1>5 DEF InKeyOrder
  <2>. QED
    BY <1>1, <2>1
<1>7. \A i, j \in 1..n : i < j => q[i] < q[j]
  <2> SUFFICES ASSUME NEW i \in 1..n, NEW j \in 1..n, i < j
               PROVE  q[i] < q[j]
    OBVIOUS
  <2>1. q[i] \in S /\ q[j] \in S /\ Rank(S, q[i]) = i - 1 /\ Rank(S, q[j]) = j - 1
    BY <1>5
  <2>2. ~(q[j] < q[i])
    <3>1. q[j] < q[i] => Rank(S, q[j]) < Rank(S, q[i])
      BY <2>1, RankMono
    <3>. QED
      BY <2>1, <3>1, SMT
  <2>3. q[i] # q[j]
    BY <2>1, SMT
  <2>4. q[i] \in Int /\ q[j] \in Int
    BY <2>1
  <2>. QED
    BY <2>2, <2>3, <2>4, SMT
<1>. QED
  BY <1>6, <1>7

LEMMA SortedIsIncreasing ==
    ASSUME NEW s
    PROVE  IsSorted(s, <) <=> Increasing(s)
BY Zenon DEF IsSorted, Increasing

\* Two increasing lists, the first wholly below the second, concatenate to
\* an increasing list.
LEMMA IncreasingConcat ==
    ASSUME NEW a \in Seq(Int), NEW b \in Seq(Int),
           Increasing(a), Increasing(b),
           \A i \in 1..Len(a), j \in 1..Len(b) : a[i] < b[j]
    PROVE  Increasing(a \o b)
<1> SUFFICES ASSUME NEW i \in 1..Len(a \o b), NEW j \in 1..Len(a \o b), i < j
             PROVE  (a \o b)[i] < (a \o b)[j]
  BY DEF Increasing
<1>0. /\ Len(a \o b) = Len(a) + Len(b)
      /\ \A k \in 1..(Len(a) + Len(b)) :
             (a \o b)[k] = IF k <= Len(a) THEN a[k] ELSE b[k - Len(a)]
  BY ConcatProperties
<1>1. \A k, l \in 1..Len(a) : k < l => a[k] < a[l]
  BY DEF Increasing
<1>2. \A k, l \in 1..Len(b) : k < l => b[k] < b[l]
  BY DEF Increasing
<1>3. CASE j <= Len(a)
  BY <1>0, <1>1, <1>3
<1>4. CASE i <= Len(a) /\ j > Len(a)
  <2>1. j - Len(a) \in 1..Len(b) /\ i \in 1..Len(a)
    BY <1>0, <1>4
  <2>. QED
    BY <1>0, <1>4, <2>1
<1>5. CASE i > Len(a)
  <2>1. i - Len(a) \in 1..Len(b) /\ j - Len(a) \in 1..Len(b) /\ i - Len(a) < j - Len(a)
    BY <1>0, <1>5
  <2>2. b[i - Len(a)] < b[j - Len(a)]
    BY <1>2, <2>1
  <2>3. (a \o b)[i] = b[i - Len(a)] /\ (a \o b)[j] = b[j - Len(a)]
    BY <1>0, <1>5
  <2>. QED
    BY <2>2, <2>3
<1>. QED
  BY <1>3, <1>4, <1>5

(***************************************************************************)
(* The answer of get_hyper_index, for any page size: a response of the     *)
(* type Responses whose data is an increasing list of keys from the start  *)
(* s on and below next_index, which is not before s.                       *)
(***************************************************************************)
LEMMA PageData ==
    ASSUME NEW idx \in SUBSET Positions, NEW index \in Nat \cup {None},
           NEW ps \in Int
    PROVE  LET r == HyperIndex(idx, index, ps)
               s == IF index # None THEN index ELSE 0
           IN  /\ r \in Responses
               /\ r.next_index \in Nat \cup {None}
               /\ Increasing(r.data)
               /\ \A i \in 1..Len(r.data) :
                      /\ s <= r.data[i]
                      /\ r.next_index # None => r.data[i] < r.next_index
               /\ r.next_index # None => s <= r.next_index
<1> DEFINE s == IF index # None THEN index ELSE 0
           c == LoopExit(idx, s, ps)
           C == Collected(idx, s, c)
           r == HyperIndex(idx, index, ps)
<1> USE DEF s, c, C, r
<1>1. idx \in SUBSET Nat /\ IsFiniteSet(idx) /\ s \in Nat
  BY IndexedFinite
<1>2. c \in Nat /\ s <= c
  BY <1>1, LoopExitFacts
<1>3. C \subseteq idx /\ IsFiniteSet(C) /\ Cardinality(C) \in Nat
      /\ \A p \in C : s <= p /\ p < c
  <2>1. IsFiniteSet(C) /\ Cardinality(C) \in Nat
    BY <1>1, CollectedFinite
  <2>. QED
    BY <2>1 DEF Collected
<1>4. /\ InKeyOrder(C) \in Seq(C)
      /\ \A i, j \in 1..Len(InKeyOrder(C)) :
             i < j => InKeyOrder(C)[i] < InKeyOrder(C)[j]
  BY <1>1, <1>3, InKeyOrderFacts
<1>5. r = [index |-> index,
           next_index |-> IF c < Cardinality(idx) THEN c ELSE None,
           page_size |-> Cardinality(C),
           data |-> InKeyOrder(C),
           asked |-> ps]
  BY DEF HyperIndex
<1>6. InKeyOrder(C) \in Seq(Positions)
  BY <1>3, <1>4
<1>7. r \in Responses
  BY <1>2, <1>3, <1>5, <1>6 DEF Responses
<1>8. Increasing(r.data)
  BY <1>4, <1>5 DEF Increasing
<1>9. \A i \in 1..Len(r.data) : s <= r.data[i] /\ r.data[i] < c
  BY <1>3, <1>4, <1>5
<1>10. c # None
  BY <1>2, NoneAssumption
<1>. QED
  BY <1>2, <1>5, <1>7, <1>8, <1>9, <1>10

-----------------------------------------------------------------------------
THEOREM InitOrder == Init => OrderInv
<1> SUFFICES ASSUME Init PROVE OrderInv
  OBVIOUS
<1>1. TypeOK
  <2>1. <<>> \in Seq(Positions)
    BY EmptySeq
  <2>. QED
    BY <2>1, PageSizesAssumption DEF Init, TypeOK
<1>2. Increasing(seen) /\ want = None /\ seen = <<>>
  BY DEF Init, Increasing
<1>. QED
  BY <1>1, <1>2 DEF OrderInv

LEMMA RequestOrder ==
    ASSUME OrderInv, Request
    PROVE  OrderInv'
<1> DEFINE idx == IndexedDataset
           r == HyperIndex(idx, want, size)
           s == IF want # None THEN want ELSE 0
<1> USE DEF idx, r, s
<1>1. idx \in SUBSET Positions /\ want \in Nat \cup {None} /\ size \in Int
  BY PageSizesAssumption DEF OrderInv, TypeOK, IndexedDataset
<1>2. /\ r \in Responses
      /\ r.next_index \in Nat \cup {None}
      /\ Increasing(r.data)
      /\ \A i \in 1..Len(r.data) :
             /\ s <= r.data[i]
             /\ r.next_index # None => r.data[i] < r.next_index
      /\ r.next_index # None => s <= r.next_index
  BY <1>1, PageData
<1>3. /\ indexed' = idx
      /\ resp' = r
      /\ seen' = seen \o r.data
      /\ want' = r.next_index
      /\ done' = (r.next_index = None)
      /\ size' = size
      /\ ~done
  BY DEF Request
<1>4. seen \in Seq(Positions) /\ r.data \in Seq(Positions) /\ Increasing(seen)
  BY <1>2 DEF OrderInv, TypeOK, Responses
<1>4b. seen \in Seq(Int) /\ r.data \in Seq(Int)
  <2>1. Positions \subseteq Int
    BY DEF Positions
  <2>. QED
    BY <1>4, <2>1, SeqMonotonic
<1>5. \A i \in 1..Len(seen) : seen[i] < s
  <2>1. CASE want # None
    BY <2>1 DEF OrderInv
  <2>2. CASE want = None
    BY <1>3, <2>2 DEF OrderInv
  <2>. QED
    BY <2>1, <2>2
<1>6. /\ seen' \in Seq(Positions)
      /\ Len(seen') = Len(seen) + Len(r.data)
      /\ \A k \in 1..Len(seen') :
             seen'[k] = IF k <= Len(seen) THEN seen[k] ELSE r.data[k - Len(seen)]
  BY <1>3, <1>4, ConcatProperties
<1>7. Increasing(seen')
  <2>1. \A i \in 1..Len(seen), j \in 1..Len(r.data) : seen[i] < r.data[j]
    BY <1>1, <1>2, <1>4b, <1>5
  <2>. QED
    BY <1>2, <1>3, <1>4, <1>4b, <2>1, IncreasingConcat
<1>8. want' # None => \A k \in 1..Len(seen') : seen'[k] < want'
  <2> SUFFICES ASSUME want' # None, NEW k \in 1..Len(seen')
               PROVE  seen'[k] < want'
    OBVIOUS
  <2>1. want' \in Nat /\ s <= want' /\ s \in Nat
    BY <1>1, <1>2, <1>3
  <2>2. CASE k <= Len(seen)
    <3>0. k \in 1..Len(seen)
      BY <1>4b, <1>6, <2>2
    <3>1. seen'[k] = seen[k] /\ seen[k] < s /\ seen[k] \in Int
      BY <1>4b, <1>5, <1>6, <3>0
    <3>. QED
      BY <2>1, <3>1
  <2>3. CASE ~(k <= Len(seen))
    <3>1. k - Len(seen) \in 1..Len(r.data)
      BY <1>4, <1>6, <2>3
    <3>2. seen'[k] = r.data[k - Len(seen)]
      BY <1>6, <2>3
    <3>. QED
      BY <1>2, <1>3, <3>1, <3>2
  <2>. QED
    BY <2>2, <2>3
<1>9. TypeOK'
  BY <1>1, <1>2, <1>3, <1>6 DEF OrderInv, TypeOK
<1>10. want' \in Nat \cup {None} /\ (want' = None => done')
  BY <1>2, <1>3
<1>. QED
  BY <1>7, <1>8, <1>9, <1>10 DEF OrderInv

THEOREM NextOrder == OrderInv /\ [Next]_vars => OrderInv'
<1> SUFFICES ASSUME OrderInv, [Next]_vars PROVE OrderInv'
  OBVIOUS
<1>1. CASE Request
  BY <1>1, RequestOrder
<1>2. CASE Restart
  <2>1. seen' \in Seq(Positions) /\ Len(seen') = 0
    BY <1>2, EmptySeq DEF Restart
  <2>2. Increasing(seen')
    BY <2>1 DEF Increasing
  <2>3. TypeOK'
    BY <1>2, <2>1 DEF Restart, OrderInv, TypeOK
  <2>4. want' = None /\ ~done'
    BY <1>2 DEF Restart
  <2>. QED
    BY <2>1, <2>2, <2>3, <2>4 DEF OrderInv
<1>3. CASE \E i \in Positions : Delete(i)
  BY <1>3 DEF Delete, OrderInv, TypeOK
<1>4. CASE UNCHANGED vars
  BY <1>4 DEF vars, OrderInv, TypeOK
<1>. QED
  BY <1>1, <1>2, <1>3, <1>4 DEF Next

(***************************************************************************)
(* For every dataset size, every page size (negative and zero included)    *)
(* and every sequence of deletions, a walk that follows next_index         *)
(* receives records in strictly increasing position order, so never the    *)
(* same record twice, across all its pages.                                *)
(***************************************************************************)
THEOREM SeenSorted == Spec => []SeenInOrder
<1>1. OrderInv => SeenInOrder
  BY SortedIsIncreasing DEF OrderInv, SeenInOrder
<1>. QED
  BY InitOrder, NextOrder, <1>1, PTL DEF Spec

(***************************************************************************)
(* The state of the server and the client keeps its types: the indexed     *)
(* dataset's keys are positions, every response is a dictionary of the     *)
(* four fields (and the page size asked), every page a list of positions.  *)
(***************************************************************************)
THEOREM TypeCorrectDel == Spec => []TypeOK
<1>1. OrderInv => TypeOK
  BY DEF OrderInv
<1>. QED
  BY InitOrder, NextOrder, <1>1, PTL DEF Spec
=============================================================================
