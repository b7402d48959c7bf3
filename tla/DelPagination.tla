--------------------------- MODULE DelPagination ---------------------------
(***************************************************************************)
(* Deletion-resilient hypermedia pagination:                               *)
(* Server.indexed_dataset and Server.get_hyper_index of                    *)
(* src/0x00-pagination/3-hypermedia_del_pagination.py, with a client that *)
(* walks the dataset by following next_index, and deletions of records    *)
(* from the indexed dataset between requests.                              *)
(*                                                                         *)
(* The dataset (the CSV rows after the header) is the constant list of N  *)
(* records; a record is represented by its position 0..N-1, so a page is  *)
(* the list of positions it returns.  indexed is the domain of the         *)
(* dictionary Server.__indexed_dataset (None until the first request).     *)
(* Deleting a record is "del indexed_dataset[i]" on that dictionary, done  *)
(* by whoever holds the server between two requests.                       *)
(***************************************************************************)
EXTENDS Integers, SequencesExt, FiniteSets

CONSTANTS
    N,          \* len(dataset()): number of records after the header
    PageSizes,  \* the page_size arguments a client passes
    None        \* Python's None

ASSUME NAssumption == N \in Nat
ASSUME PageSizesAssumption == PageSizes \subseteq Int /\ PageSizes # {}
ASSUME NoneAssumption == None \notin Int

VARIABLES
    indexed,    \* keys of Server.__indexed_dataset, or None before it is built
    want,       \* the index argument of the client's next call
    seen,       \* every record the client received in this walk, in order
    done,       \* the client has received next_index = None
    resp,       \* the dictionary the last get_hyper_index call returned
    size        \* the page_size the client passes on every call of this walk

vars == <<indexed, want, seen, done, resp, size>>

Positions == 0..(N - 1)

\* The response dictionary of get_hyper_index, plus the page_size argument.
Responses == [index : Int \cup {None}, next_index : Int \cup {None},
              page_size : Nat, data : Seq(Positions), asked : Int]

(***************************************************************************)
(* The while loop of get_hyper_index (lines 125-131), over the dictionary  *)
(* with key set idx, started at s with page size ps.  After the cursor has *)
(* reached c, the loop has appended the records of the keys in s..c-1     *)
(* (indexed_data.get returns None for a deleted key).  The loop runs while *)
(* fewer than ps records were collected and the cursor is below            *)
(* len(indexed_data), the number of keys left in the dictionary.  It exits *)
(* at the first cursor value for which that condition is false.            *)
(***************************************************************************)
Collected(idx, s, c) == {p \in idx : s <= p /\ p < c}

\* Fault: counting positions walked instead of records collected.
LoopContinuesCountsGaps(idx, s, c, ps) == c - s < ps /\ c < Cardinality(idx)

LoopContinues(idx, s, c, ps) ==
    Cardinality(Collected(idx, s, c)) < ps /\ c < Cardinality(idx)

(***************************************************************************)
(* The records the loop appends, in the order it appends them: its cursor  *)
(* only increases, so it meets the keys of S in increasing order, and the  *)
(* i-th record appended is that of the key with i - 1 keys of S below it.  *)
(***************************************************************************)
InKeyOrder(S) ==
    [i \in 1..Cardinality(S) |-> CHOOSE x \in S : Cardinality({y \in S : y < x}) = i - 1]

LoopExit(idx, s, ps) ==
    CHOOSE c \in s..(IF s < Cardinality(idx) THEN Cardinality(idx) ELSE s) :
        /\ ~LoopContinues(idx, s, c, ps)
        /\ \A d \in s..(c - 1) : LoopContinues(idx, s, d, ps)

(***************************************************************************)
(* Server.indexed_dataset (lines 97-102): built once, on the first call,   *)
(* with every position of the dataset as a key.                            *)
(***************************************************************************)
\* Fault: range(len(dataset) + 1).
IndexedDatasetOffByOne == IF indexed = None THEN 0..N ELSE indexed

IndexedDataset == IF indexed = None THEN Positions ELSE indexed

(***************************************************************************)
(* The dictionary get_hyper_index(index, page_size) returns (lines         *)
(* 123-140), on the dictionary with key set idx.                           *)
(***************************************************************************)
\* Faults: the loop starts at 0 whatever index is; the next page restarts
\* one record early; the end test is <=.
HyperIndexFromZero(idx, index, ps) ==
    LET s == 0
        c == LoopExit(idx, s, ps)
    IN  [index |-> index,
         next_index |-> IF c < Cardinality(idx) THEN c ELSE None,
         page_size |-> Cardinality(Collected(idx, s, c)),
         data |-> InKeyOrder(Collected(idx, s, c)),
         asked |-> ps]
HyperIndexNextBack(idx, index, ps) ==
    LET s == IF index # None THEN index ELSE 0
        c == LoopExit(idx, s, ps)
    IN  [index |-> index,
         next_index |-> IF c < Cardinality(idx) THEN c - 1 ELSE None,
         page_size |-> Cardinality(Collected(idx, s, c)),
         data |-> InKeyOrder(Collected(idx, s, c)),
         asked |-> ps]
HyperIndexEndLe(idx, index, ps) ==
    LET s == IF index # None THEN index ELSE 0
        c == LoopExit(idx, s, ps)
    IN  [index |-> index,
         next_index |-> IF c <= Cardinality(idx) THEN c ELSE None,
         page_size |-> Cardinality(Collected(idx, s, c)),
         data |-> InKeyOrder(Collected(idx, s, c)),
         asked |-> ps]

HyperIndex(idx, index, ps) ==
    LET s == IF index # None THEN index ELSE 0
        c == LoopExit(idx, s, ps)
    IN  [index |-> index,
         next_index |-> IF c < Cardinality(idx) THEN c ELSE None,
         page_size |-> Cardinality(Collected(idx, s, c)),
         data |-> InKeyOrder(Collected(idx, s, c)),
         asked |-> ps]

Init ==
    /\ indexed = None
    /\ want = None
    /\ seen = <<>>
    /\ done = FALSE
    /\ resp = None
    /\ size \in PageSizes

(***************************************************************************)
(* The client calls get_hyper_index(want, size); the call builds the index *)
(* dataset if needed and answers from it.  The client appends the page to  *)
(* what it has seen and passes next_index to its next call; next_index =   *)
(* None ends the walk.                                                     *)
(***************************************************************************)
Request ==
    LET r == HyperIndex(IndexedDataset, want, size)
    IN  /\ ~done
        /\ indexed' = IndexedDataset
        /\ resp' = r
        /\ seen' = seen \o r.data
        /\ want' = r.next_index
        /\ done' = (r.next_index = None)
        /\ UNCHANGED size

\* The client starts a new walk from the beginning (index None), with a
\* page size of its choice.
Restart ==
    /\ done
    /\ size' \in PageSizes
    /\ want' = None
    /\ seen' = <<>>
    /\ done' = FALSE
    /\ UNCHANGED <<indexed, resp>>

\* del server._Server__indexed_dataset[i], between two requests.
Delete(i) ==
    /\ indexed # None
    /\ i \in indexed
    /\ indexed' = indexed \ {i}
    /\ UNCHANGED <<want, seen, done, resp, size>>

Next ==
    \/ Request
    \/ Restart
    \/ \E i \in Positions : Delete(i)

(***************************************************************************)
(* The client keeps calling while next_index is not None (the walk of the  *)
(* caller's loop); deletions and restarts are the environment's choice.    *)
(***************************************************************************)
Spec == Init /\ [][Next]_vars /\ WF_vars(Request)

-----------------------------------------------------------------------------
TypeOK ==
    /\ indexed = None \/ indexed \subseteq Positions
    /\ want \in Int \cup {None}
    /\ seen \in Seq(Positions)
    /\ done \in BOOLEAN
    /\ resp = None \/ resp \in Responses
    /\ size \in PageSizes

(***************************************************************************)
(* Across the pages of one walk, with deletions between the calls, the    *)
(* client never receives a record twice and receives records in dataset   *)
(* order: each call starts where the previous one stopped (next_index).    *)
(***************************************************************************)
SeenInOrder == IsSorted(seen, <)

(***************************************************************************)
(* Gaps left by deleted records do not shorten a page: a page holds       *)
(* page_size records unless it is the last one (next_index is None).       *)
(***************************************************************************)
PageFullUnlessLast ==
    resp # None /\ resp.next_index # None => resp.page_size = resp.asked

(***************************************************************************)
(* The spec (sections 3 and 4.2): positions never shift, and a walk runs  *)
(* to the snapshot's upper bound, so when a walk ends the client has       *)
(* received every record that was never deleted.                           *)
(***************************************************************************)
WalkComplete == done => \A p \in indexed : p \in ToSet(seen)


(***************************************************************************)
(* Each call of get_hyper_index in a walk that does not end it returns a   *)
(* next_index beyond the index it was given (0 for None): the while loop   *)
(* advances current_index at least once, whatever was deleted.            *)
(***************************************************************************)
CursorAdvances ==
    [][Request /\ want' # None => want' > (IF want # None THEN want ELSE 0)]_vars

(***************************************************************************)
(* A client that keeps following next_index reaches the end of the data.   *)
(***************************************************************************)
WalkTerminates == []<>done
=============================================================================
