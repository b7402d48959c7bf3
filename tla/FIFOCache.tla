----------------------------- MODULE FIFOCache -----------------------------
(***************************************************************************)
(* FIFOCache of src/0x01-caching/1-fifo_cache.py, on top of the BaseCaching *)
(* class (base_caching.py, not in src/: its cache_data dictionary and its  *)
(* MAX_ITEMS class constant are modelled from the spec).                    *)
(*                                                                         *)
(* cache_data is the dictionary, as a function whose domain is the set of  *)
(* keys present.  order is the list self.order.  discarded is the key the  *)
(* last eviction printed ("DISCARD: ..."), the eviction notification.  exc *)
(* is the exception the last put raised, or None.                          *)
(***************************************************************************)
EXTENDS Naturals, Sequences, FiniteSets

CONSTANTS
    Keys,       \* the keys a client may use
    Items,      \* the items a client may store
    None,       \* Python's None
    MAX_ITEMS,  \* BaseCaching.MAX_ITEMS
    ORDER_BOUND \* model bound on the appends that grow order (unbounded in the code)

ASSUME KeysAssumption == IsFiniteSet(Keys) /\ Keys # {}
ASSUME NoneAssumption == None \notin Keys \cup Items
ASSUME MaxAssumption == MAX_ITEMS \in Nat \ {0}
ASSUME BoundAssumption == ORDER_BOUND \in Nat

VARIABLES cache_data, order, discarded, exc

vars == <<cache_data, order, discarded, exc>>

\* The keys present in the dictionary.
Live == DOMAIN cache_data

\* The set of entries of a list.
RangeOf(s) == {s[i] : i \in DOMAIN s}

\* cache_data[key] = item: update in place or insert.
Store(f, key, item) == [k \in DOMAIN f \cup {key} |-> IF k = key THEN item ELSE f[k]]

\* del cache_data[key]
Delete(f, key) == [k \in DOMAIN f \ {key} |-> f[k]]

(***************************************************************************)
(* BaseCaching.__init__ and FIFOCache.__init__: an empty dictionary and an *)
(* empty order list.                                                        *)
(***************************************************************************)
Init ==
    /\ cache_data = [k \in {} |-> None]
    /\ order = <<>>
    /\ discarded = None
    /\ exc = None

(***************************************************************************)
(* FIFOCache.put(key, item).  A None key or item is skipped.  Otherwise,   *)
(* when the dictionary holds MAX_ITEMS entries and key is new, the key at  *)
(* the head of order is printed and deleted from the dictionary (a         *)
(* KeyError if it is no longer there: nothing else changes) and popped.    *)
(* In every other case key is appended to order, whether it is new or      *)
(* already present, and stored.                                            *)
(***************************************************************************)
\* Faults the properties are tested against (see PROJECT.json "mutants").
EvictsLate(key) == Cardinality(Live) > MAX_ITEMS /\ key \notin Live
EvictsEarly(key) == Cardinality(Live) + 1 >= MAX_ITEMS /\ key \notin Live

\* Line 28: the dictionary is full and key is new.
Evicts(key) == Cardinality(Live) >= MAX_ITEMS /\ key \notin Live

PutInsertNoneItem(key, item) ==
    /\ key # None
    /\ Len(order) < ORDER_BOUND
    /\ ~Evicts(key)
    /\ order' = Append(order, key)
    /\ cache_data' = Store(cache_data, key, item)
    /\ exc' = None
    /\ UNCHANGED discarded
PutEvictPopLast(key, item) ==
    /\ key # None /\ item # None
    /\ Evicts(key)
    /\ Head(order) \in Live
    /\ discarded' = Head(order)
    /\ order' = Append(SubSeq(order, 1, Len(order) - 1), key)
    /\ cache_data' = Store(Delete(cache_data, Head(order)), key, item)
    /\ exc' = None

\* Line 23: a None key or item is skipped.
PutSkip(key, item) ==
    /\ key = None \/ item = None
    /\ exc' = None
    /\ UNCHANGED <<cache_data, order, discarded>>

\* Lines 27-28 false, then 32-33: append to order and store.
PutInsert(key, item) ==
    /\ key # None /\ item # None
    /\ Len(order) < ORDER_BOUND
    /\ ~Evicts(key)
    /\ order' = Append(order, key)
    /\ cache_data' = Store(cache_data, key, item)
    /\ exc' = None
    /\ UNCHANGED discarded

\* Lines 28-33 when order[0] is still in the dictionary.
PutEvict(key, item) ==
    /\ key # None /\ item # None
    /\ Evicts(key)
    /\ Head(order) \in Live
    /\ discarded' = Head(order)
    /\ order' = Append(Tail(order), key)
    /\ cache_data' = Store(Delete(cache_data, Head(order)), key, item)
    /\ exc' = None

\* Lines 28-30 when order[0] is no longer in the dictionary: the print
\* happens, then del raises KeyError before anything else changes.
PutKeyError(key, item) ==
    /\ key # None /\ item # None
    /\ Evicts(key)
    /\ Head(order) \notin Live
    /\ discarded' = Head(order)
    /\ exc' = "KeyError"
    /\ UNCHANGED <<cache_data, order>>

Put(key, item) ==
    \/ PutSkip(key, item)
    \/ PutInsert(key, item)
    \/ PutEvict(key, item)
    \/ PutKeyError(key, item)

(***************************************************************************)
(* FIFOCache.get(key): a pure read, no state change.                       *)
(***************************************************************************)
Get(key) == IF key # None /\ key \in Live THEN cache_data[key] ELSE None

Next == \E key \in Keys \cup {None}, item \in Items \cup {None} : Put(key, item)

Spec == Init /\ [][Next]_vars

-----------------------------------------------------------------------------
TypeOK ==
    /\ Live \subseteq Keys
    /\ cache_data \in [Live -> Items]
    /\ order \in Seq(Keys)
    /\ discarded \in Keys \cup {None}
    /\ exc \in {None, "KeyError"}

(***************************************************************************)
(* The dictionary never holds more than MAX_ITEMS entries, after any       *)
(* sequence of puts (including overwrites and failed evictions).           *)
(***************************************************************************)
CapacityBound == Cardinality(Live) <= MAX_ITEMS

(***************************************************************************)
(* Every key in the dictionary is still listed in order: the eviction in  *)
(* put pops exactly the key it deletes, so no live key is ever forgotten  *)
(* by the order list (it can only be listed too often).                    *)
(***************************************************************************)
LiveInOrder == Live \subseteq RangeOf(order)

(***************************************************************************)
(* Once put has printed an eviction, the dictionary is full and stays     *)
(* full: an eviction only happens at MAX_ITEMS entries and every eviction *)
(* is followed by an insertion.                                            *)
(***************************************************************************)
FullAfterEviction == discarded # None => Cardinality(Live) = MAX_ITEMS

(***************************************************************************)
(* The spec (section 4.1, failure semantics): put raises no exception     *)
(* under capacity pressure.                                                 *)
(***************************************************************************)
NoKeyError == exc = None

Basic == INSTANCE BasicCache

(***************************************************************************)
(* With MAX_ITEMS at least the number of keys, FIFOCache.put behaves as    *)
(* BasicCache.put: it never evicts and stores exactly what was put.         *)
(***************************************************************************)
UnboundedIsBasic == Basic!Spec
=============================================================================
