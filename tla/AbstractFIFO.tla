--------------------------- MODULE AbstractFIFO ---------------------------
(***************************************************************************)
(* What the spec (section 4.1) says a FIFO cache promises, independent of  *)
(* how the order is tracked: the keys present form one queue in insertion  *)
(* order, each key once; overwriting a present key changes its item and    *)
(* not its place; a new key put into a full cache evicts, and announces,   *)
(* the oldest key still present, and never fails.                          *)
(***************************************************************************)
EXTENDS Naturals, Sequences

CONSTANTS Keys, Items, None, MAX_ITEMS

VARIABLES data, queue, discarded

Init ==
    /\ data = [k \in {} |-> None]
    /\ queue = <<>>
    /\ discarded = None

Set(f, key, item) == [k \in DOMAIN f \cup {key} |-> IF k = key THEN item ELSE f[k]]

Overwrite(key, item) ==
    /\ key \in DOMAIN data
    /\ data' = Set(data, key, item)
    /\ UNCHANGED <<queue, discarded>>

Insert(key, item) ==
    /\ key \notin DOMAIN data
    /\ Len(queue) < MAX_ITEMS
    /\ data' = Set(data, key, item)
    /\ queue' = Append(queue, key)
    /\ UNCHANGED discarded

EvictOldest(key, item) ==
    /\ key \notin DOMAIN data
    /\ Len(queue) >= MAX_ITEMS
    /\ discarded' = Head(queue)
    /\ queue' = Append(Tail(queue), key)
    /\ data' = Set([k \in DOMAIN data \ {Head(queue)} |-> data[k]], key, item)

Next ==
    \E key \in Keys, item \in Items :
        Overwrite(key, item) \/ Insert(key, item) \/ EvictOldest(key, item)

Spec == Init /\ [][Next]_<<data, queue, discarded>>
=============================================================================
