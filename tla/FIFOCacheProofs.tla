-------------------------- MODULE FIFOCacheProofs --------------------------
(***************************************************************************)
(* Proofs, for every value of the constants, of the invariants that        *)
(* MC_FIFOCache.cfg checks for three keys and capacity 2.                   *)
(*                                                                         *)
(* None of CapacityBound, LiveInOrder, FullAfterEviction is inductive on   *)
(* its own: the eviction branch of put reads Head(order), which exists     *)
(* only because every live key is listed in order (LiveInOrder) and the    *)
(* dictionary is non-empty when full; and the count after an eviction is   *)
(* MAX_ITEMS only because it was at most MAX_ITEMS before (CapacityBound). *)
(* IInv is their conjunction with TypeOK, and it is inductive.             *)
(***************************************************************************)
EXTENDS FIFOCache, FiniteSetTheorems, TLAPS

IInv == TypeOK /\ CapacityBound /\ LiveInOrder /\ FullAfterEviction

-----------------------------------------------------------------------------
(* Lemmas about the dictionary and list operations put is built from.      *)

LEMMA StoreFacts ==
    ASSUME NEW f, NEW S, f \in [S -> Items], NEW k, NEW v \in Items
    PROVE  /\ DOMAIN Store(f, k, v) = S \cup {k}
           /\ Store(f, k, v) \in [S \cup {k} -> Items]
BY DEF Store

LEMMA DeleteFacts ==
    ASSUME NEW f, NEW S, f \in [S -> Items], NEW k
    PROVE  /\ DOMAIN Delete(f, k) = S \ {k}
           /\ Delete(f, k) \in [S \ {k} -> Items]
BY DEF Delete

\* Replacing one member of a finite set by a non-member keeps its size.
LEMMA SwapCardinality ==
    ASSUME NEW S, IsFiniteSet(S), NEW h \in S, NEW k, k \notin S
    PROVE  /\ IsFiniteSet((S \ {h}) \cup {k})
           /\ Cardinality((S \ {h}) \cup {k}) = Cardinality(S)
<1>1. IsFiniteSet(S \ {h}) /\ Cardinality(S \ {h}) = Cardinality(S) - 1
  BY FS_RemoveElement
<1>2. k \notin S \ {h}
  OBVIOUS
<1>3. IsFiniteSet((S \ {h}) \cup {k})
      /\ Cardinality((S \ {h}) \cup {k}) = Cardinality(S \ {h}) + 1
  BY <1>1, <1>2, FS_AddElement
<1>4. Cardinality(S) \in Nat
  BY FS_CardinalityType
<1>. QED
  BY <1>1, <1>3, <1>4

\* The set of keys present is finite.
LEMMA LiveFinite ==
    ASSUME TypeOK
    PROVE  IsFiniteSet(Live) /\ Cardinality(Live) \in Nat
BY KeysAssumption, FS_Subset, FS_CardinalityType DEF TypeOK

(***************************************************************************)
(* When put takes its eviction branch the list order is not empty, so      *)
(* order[0] (Head(order)) exists and is a key.                              *)
(***************************************************************************)
LEMMA HeadExists ==
    ASSUME TypeOK, LiveInOrder, Cardinality(Live) >= MAX_ITEMS
    PROVE  /\ Len(order) >= 1
           /\ Head(order) \in Keys
<1>1. Live # {}
  <2>1. IsFiniteSet(Live) /\ Cardinality(Live) \in Nat
    BY LiveFinite
  <2>2. Cardinality(Live) # 0
    BY MaxAssumption
  <2>. QED
    BY <2>1, <2>2, FS_EmptySet
<1>2. PICK k \in Live : TRUE
  BY <1>1
<1>3. \E i \in DOMAIN order : order[i] = k
  BY <1>2 DEF LiveInOrder, RangeOf
<1>4. Len(order) >= 1
  BY <1>3 DEF TypeOK
<1>. QED
  BY <1>4 DEF TypeOK

-----------------------------------------------------------------------------
THEOREM InitIInv == Init => IInv
BY FS_EmptySet, MaxAssumption
   DEF Init, IInv, TypeOK, CapacityBound, LiveInOrder, FullAfterEviction, Live, RangeOf

(* A skipped put changes nothing the invariant mentions. *)
LEMMA SkipIInv ==
    ASSUME IInv, NEW key, NEW item, PutSkip(key, item)
    PROVE  IInv'
BY DEF IInv, PutSkip, TypeOK, CapacityBound, LiveInOrder, FullAfterEviction, Live

LEMMA InsertIInv ==
    ASSUME IInv, NEW key \in Keys \cup {None}, NEW item \in Items \cup {None},
           PutInsert(key, item)
    PROVE  IInv'
<1>. USE DEF IInv
<1>1. key \in Keys /\ item \in Items
  BY DEF PutInsert
<1>2. Live' = Live \cup {key} /\ cache_data' \in [Live \cup {key} -> Items]
  <2>1. cache_data \in [Live -> Items]
    BY DEF TypeOK
  <2>2. /\ DOMAIN Store(cache_data, key, item) = Live \cup {key}
        /\ Store(cache_data, key, item) \in [Live \cup {key} -> Items]
    BY <1>1, <2>1, StoreFacts
  <2>. QED
    BY <2>2 DEF PutInsert, Live
<1>3. TypeOK'
  BY <1>1, <1>2 DEF PutInsert, TypeOK, Live
<1>4. CapacityBound'
  <2>1. IsFiniteSet(Live) /\ Cardinality(Live) \in Nat
    BY LiveFinite
  <2>2. CASE key \in Live
    BY <1>2, <2>2 DEF CapacityBound
  <2>3. CASE key \notin Live
    <3>1. Cardinality(Live) < MAX_ITEMS
      BY <2>1, <2>3, MaxAssumption DEF PutInsert, Evicts
    <3>2. Cardinality(Live \cup {key}) = Cardinality(Live) + 1
      BY <2>1, <2>3, FS_AddElement
    <3>. QED
      BY <1>2, <2>1, <3>1, <3>2, MaxAssumption DEF CapacityBound
  <2>. QED
    BY <2>2, <2>3
<1>5. LiveInOrder'
  BY <1>2 DEF PutInsert, LiveInOrder, RangeOf, TypeOK
<1>6. FullAfterEviction'
  <2>1. CASE discarded # None
    <3>1. Cardinality(Live) = MAX_ITEMS
      BY <2>1 DEF FullAfterEviction
    <3>2. key \in Live
      BY <3>1, LiveFinite, MaxAssumption DEF PutInsert, Evicts
    <3>. QED
      BY <1>2, <3>1, <3>2 DEF PutInsert, FullAfterEviction
  <2>. QED
    BY <2>1 DEF PutInsert, FullAfterEviction
<1>. QED
  BY <1>3, <1>4, <1>5, <1>6

LEMMA EvictIInv ==
    ASSUME IInv, NEW key \in Keys \cup {None}, NEW item \in Items \cup {None},
           PutEvict(key, item)
    PROVE  IInv'
<1>. USE DEF IInv
<1>1. key \in Keys /\ item \in Items /\ key \notin Live
  BY DEF PutEvict, Evicts
<1>2. Len(order) >= 1 /\ Head(order) \in Keys /\ Head(order) \in Live
  BY HeadExists DEF PutEvict, Evicts
<1> DEFINE h == Head(order)
<1>3. Live' = (Live \ {h}) \cup {key}
      /\ cache_data' \in [(Live \ {h}) \cup {key} -> Items]
  <2>1. Delete(cache_data, h) \in [Live \ {h} -> Items]
        /\ DOMAIN Delete(cache_data, h) = Live \ {h}
    BY DeleteFacts DEF TypeOK, Live
  <2>2. /\ DOMAIN Store(Delete(cache_data, h), key, item) = (Live \ {h}) \cup {key}
        /\ Store(Delete(cache_data, h), key, item) \in [(Live \ {h}) \cup {key} -> Items]
    BY <1>1, <2>1, StoreFacts
  <2>. QED
    BY <2>2 DEF PutEvict, Live
<1>4. Cardinality(Live) = MAX_ITEMS
  BY LiveFinite, MaxAssumption DEF PutEvict, Evicts, CapacityBound
<1>5. Cardinality(Live') = MAX_ITEMS
  BY <1>1, <1>2, <1>3, <1>4, LiveFinite, SwapCardinality
<1>6. TypeOK'
  BY <1>1, <1>2, <1>3 DEF PutEvict, TypeOK, Live
<1>7. LiveInOrder'
  <2>1. SUFFICES ASSUME NEW k \in Live'
                 PROVE  \E j \in DOMAIN order' : order'[j] = k
    BY DEF LiveInOrder, RangeOf
  <2>2. CASE k = key
    BY <1>2, <2>2 DEF PutEvict, TypeOK
  <2>3. CASE k # key
    <3>1. k \in Live /\ k # h
      BY <1>3, <2>3
    <3>2. PICK i \in DOMAIN order : order[i] = k
      BY <3>1 DEF LiveInOrder, RangeOf
    <3>3. i # 1
      BY <3>1, <3>2, <1>2
    <3>4. i - 1 \in DOMAIN order' /\ order'[i - 1] = k
      BY <1>2, <3>2, <3>3 DEF PutEvict, TypeOK
    <3>. QED
      BY <3>4
  <2>. QED
    BY <2>2, <2>3
<1>8. CapacityBound' /\ FullAfterEviction'
  BY <1>5, MaxAssumption DEF CapacityBound, FullAfterEviction
<1>. QED
  BY <1>6, <1>7, <1>8

LEMMA KeyErrorIInv ==
    ASSUME IInv, NEW key \in Keys \cup {None}, NEW item \in Items \cup {None},
           PutKeyError(key, item)
    PROVE  IInv'
<1>. USE DEF IInv
<1>1. Head(order) \in Keys
  BY HeadExists DEF PutKeyError, Evicts
<1>2. Cardinality(Live) = MAX_ITEMS
  BY LiveFinite, MaxAssumption DEF PutKeyError, Evicts, CapacityBound
<1>. QED
  BY <1>1, <1>2 DEF PutKeyError, TypeOK, CapacityBound, LiveInOrder,
                    FullAfterEviction, Live

THEOREM NextIInv == IInv /\ [Next]_vars => IInv'
<1> SUFFICES ASSUME IInv, [Next]_vars PROVE IInv'
  OBVIOUS
<1>1. CASE UNCHANGED vars
  BY <1>1 DEF vars, IInv, TypeOK, CapacityBound, LiveInOrder,
              FullAfterEviction, Live
<1>2. CASE Next
  <2>1. PICK key \in Keys \cup {None}, item \in Items \cup {None} : Put(key, item)
    BY <1>2 DEF Next
  <2>. QED
    BY <2>1, SkipIInv, InsertIInv, EvictIInv, KeyErrorIInv DEF Put
<1>. QED
  BY <1>1, <1>2

THEOREM IInvariant == Spec => []IInv
BY InitIInv, NextIInv, PTL DEF Spec

-----------------------------------------------------------------------------
(* The invariants of the run fifo_safety, for every instance. *)

\* The model's state always has the shapes TypeOK gives it.
THEOREM TypeCorrect == Spec => []TypeOK
BY IInvariant, PTL DEF IInv

\* The dictionary never holds more than MAX_ITEMS entries (put, line 28).
THEOREM Capacity == Spec => []CapacityBound
BY IInvariant, PTL DEF IInv

\* Every key present is listed in order: the eviction pops what it deletes.
THEOREM LiveListed == Spec => []LiveInOrder
BY IInvariant, PTL DEF IInv

\* After the first eviction (line 29) the dictionary stays full.
THEOREM FullOnceEvicted == Spec => []FullAfterEviction
BY IInvariant, PTL DEF IInv
-----------------------------------------------------------------------------
(***************************************************************************)
(* The refinement of the run fifo_unbounded, for every instance whose      *)
(* capacity covers the key set: the eviction test of put (line 28) can    *)
(* then never hold, because a new key and the keys present all fit in     *)
(* Keys, so every put is a BasicCache.put of the same key and item (the   *)
(* skip a stutter of the dictionary, the insertion a store).               *)
(***************************************************************************)
LEMMA NeverEvicts ==
    ASSUME TypeOK, MAX_ITEMS >= Cardinality(Keys), NEW key \in Keys
    PROVE  ~Evicts(key)
<1> SUFFICES ASSUME Evicts(key) PROVE FALSE
  OBVIOUS
<1>1. key \notin Live /\ Cardinality(Live) >= MAX_ITEMS
  BY DEF Evicts
<1>2. IsFiniteSet(Live) /\ Cardinality(Live) \in Nat
  BY LiveFinite
<1>3. Cardinality(Live \cup {key}) = Cardinality(Live) + 1
  BY <1>1, <1>2, FS_AddElement
<1>4. Cardinality(Live \cup {key}) <= Cardinality(Keys)
  BY KeysAssumption, FS_Subset DEF TypeOK
<1>5. Cardinality(Keys) \in Nat
  BY KeysAssumption, FS_CardinalityType
<1>. QED
  BY <1>1, <1>2, <1>3, <1>4, <1>5, MaxAssumption

LEMMA StepIsBasic ==
    ASSUME IInv, MAX_ITEMS >= Cardinality(Keys), [Next]_vars
    PROVE  [Basic!Next]_cache_data
<1>1. CASE UNCHANGED vars
  BY <1>1 DEF vars
<1>2. CASE Next
  <2>1. PICK key \in Keys \cup {None}, item \in Items \cup {None} : Put(key, item)
    BY <1>2 DEF Next
  <2>2. CASE PutSkip(key, item)
    BY <2>2 DEF PutSkip
  <2>3. CASE PutInsert(key, item)
    <3>1. key # None /\ item # None
          /\ cache_data' = [k \in DOMAIN cache_data \cup {key} |->
                               IF k = key THEN item ELSE cache_data[k]]
      BY <2>3 DEF PutInsert, Store
    <3>2. Basic!Put(key, item)
      BY <3>1 DEF Basic!Put
    <3>. QED
      BY <3>2 DEF Basic!Next
  <2>4. CASE PutEvict(key, item) \/ PutKeyError(key, item)
    <3>1. key \in Keys /\ Evicts(key)
      BY <2>4 DEF PutEvict, PutKeyError
    <3>. QED
      BY <3>1, NeverEvicts DEF IInv
  <2>. QED
    BY <2>1, <2>2, <2>3, <2>4 DEF Put
<1>. QED
  BY <1>1, <1>2

\* With capacity for every key, FIFOCache implements BasicCache.
THEOREM Unbounded == MAX_ITEMS >= Cardinality(Keys) => (Spec => UnboundedIsBasic)
<1> SUFFICES ASSUME MAX_ITEMS >= Cardinality(Keys) PROVE Spec => Basic!Spec
  BY DEF UnboundedIsBasic
<1>1. Init => Basic!Init
  BY DEF Init, Basic!Init
<1>2. IInv /\ [Next]_vars => [Basic!Next]_cache_data
  BY StepIsBasic
<1>. QED
  BY <1>1, <1>2, IInvariant, PTL DEF Spec, Basic!Spec
=============================================================================
