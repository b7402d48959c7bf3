---------------------------- MODULE MC_FIFOCache ----------------------------
(***************************************************************************)
(* Model-checking instance of FIFOCache, and the two refinements it is     *)
(* checked against (the other, BasicCache, is in FIFOCache).                                                        *)
(***************************************************************************)
EXTENDS FIFOCache, TLC

CONSTANTS a, b, c, i1, i2

MCKeys == {a, b, c}
MCItems == {i1, i2}
MCSymmetry == Permutations(MCKeys) \cup Permutations(MCItems)

(***************************************************************************)
(* Refinement mapping to AbstractFIFO: the abstract queue lists each key   *)
(* present in the dictionary once, at its first place in order.  When     *)
(* order holds no duplicates this is order itself.                         *)
(***************************************************************************)
FirstPlaces == {i \in DOMAIN order :
                    /\ order[i] \in Live
                    /\ \A j \in 1..(i - 1) : order[j] # order[i]}
AbsQueue == [n \in 1..Cardinality(FirstPlaces) |->
                order[CHOOSE i \in FirstPlaces :
                        Cardinality({j \in FirstPlaces : j < i}) = n - 1]]

FIFO == INSTANCE AbstractFIFO WITH data <- cache_data, queue <- AbsQueue

(***************************************************************************)
(* The spec's FIFO contract (section 4.1): every put of FIFOCache is a     *)
(* put of the abstract FIFO cache, in particular the key put evicts is the *)
(* oldest key still present and overwrites keep their place.               *)
(***************************************************************************)
FIFOContract == FIFO!Spec

=============================================================================
