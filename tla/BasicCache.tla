---------------------------- MODULE BasicCache ----------------------------
(***************************************************************************)
(* BasicCache of src/0x01-caching/0-basic_cache.py: the BaseCaching        *)
(* dictionary with no capacity limit.  It is also what the spec calls the  *)
(* degenerate "unbounded" policy.                                          *)
(***************************************************************************)
CONSTANTS Keys, Items, None

VARIABLE cache_data

\* BaseCaching.__init__: an empty dictionary.
Init == cache_data = [k \in {} |-> None]

(***************************************************************************)
(* BasicCache.put(key, item): a None key or item is skipped, otherwise     *)
(* cache_data[key] = item.                                                 *)
(***************************************************************************)
Put(key, item) ==
    \/ /\ key = None \/ item = None
       /\ UNCHANGED cache_data
    \/ /\ key # None /\ item # None
       /\ cache_data' = [k \in DOMAIN cache_data \cup {key} |->
                            IF k = key THEN item ELSE cache_data[k]]

\* BasicCache.get(key): the stored item, or None.
Get(key) == IF key # None /\ key \in DOMAIN cache_data THEN cache_data[key] ELSE None

Next == \E key \in Keys \cup {None}, item \in Items \cup {None} : Put(key, item)

Spec == Init /\ [][Next]_cache_data
=============================================================================
