------------------------- MODULE PaginationProofs -------------------------
(***************************************************************************)
(* Proof, for every dataset length and every page size, that the          *)
(* get_hyper of src/0x00-pagination/2-hypermedia_pagination.py answers     *)
(* with consistent links: HyperLinksConsistent, which the run              *)
(* hyper_links_0x00 checks for datasets of up to 6 records.                *)
(*                                                                         *)
(* HyperLinksConsistent is not inductive: it speaks of resp alone, while a *)
(* step replaces resp by the answer to new arguments.  LinksInv says that  *)
(* the last answer is an exception or is GetHyper00 of the last call's     *)
(* arguments, which were valid (the link fields LinksOf of that answer);  *)
(* the property follows from it by the arithmetic of math.ceil (CeilDiv).  *)
(***************************************************************************)
EXTENDS Pagination, WellFoundedInduction, TLAPS

\* The link fields of a get_hyper answer r to page p and page size s.
LinksOf(r, p, s) ==
    /\ r.page = p
    /\ r.total_pages = (L + s - 1) \div s
    /\ r.next_page = IF p * s < L THEN p + 1 ELSE None
    /\ r.prev_page = IF p > 1 THEN p - 1 ELSE None

LinksInv ==
    /\ impl \in {"0x00", "simple"}
    /\ L \in Nat
    /\ size \in PageSizes
    /\ want \in Nat \ {0}
    /\ \/ resp = None
       \/ resp \in Errors
       \/ DOMAIN resp = {"data"}
       \/ /\ call \in [page : Nat \ {0}, size : Nat \ {0}]
          /\ LinksOf(resp, call.page, call.size)

-----------------------------------------------------------------------------
(***************************************************************************)
(* ArgsRejected for the servers whose get_page asserts come first: the     *)
(* 0x00 hypermedia server and the simple one.  The property relates resp   *)
(* to call, and every step that changes one sets both, so it is inductive  *)
(* once the types of call, want and size are known.                        *)
(***************************************************************************)
ArgsInv ==
    /\ impl \in {"0x00", "simple"}
    /\ size \in PageSizes
    /\ want \in Nat \ {0}
    /\ call = None \/ call \in [page : Int, size : Int]
    /\ ArgsRejected


-----------------------------------------------------------------------------
(***************************************************************************)
(* WalkReproducesDataset, for the three servers.  The property speaks    *)
(* only of the end of a walk; WalkInv says what a walk has received at     *)
(* every point:                                                            *)
(* the first min((want - 1) * size, len) records while it runs, all of     *)
(* them once it is done.                                                   *)
(***************************************************************************)
\* The first k records of the dataset, as the walk receives them.
Records(k) == [i \in 1..k |-> i - 1]

WalkInv ==
    /\ impl \in {"0x00", "root", "simple"}
    /\ L \in Nat
    /\ size \in Nat \ {0}
    /\ want \in Nat \ {0}
    /\ ~done => seen = Records(MinOf((want - 1) * size, L))
    /\ done => seen = Records(L)

-----------------------------------------------------------------------------
(***************************************************************************)
(* math.ceil(n / s) for positive s is the first page number p with         *)
(* p * s >= n: page p has a successor exactly when p * s < n.              *)
(***************************************************************************)
LEMMA CeilDiv ==
    ASSUME NEW n \in Nat, NEW s \in Nat \ {0}, NEW p \in Int
    PROVE  (p * s < n) <=> (p < (n + s - 1) \div s)
<1> DEFINE t == (n + s - 1) \div s
<1>1. t \in Int /\ t * s <= n + s - 1 /\ n + s - 1 < t * s + s
  BY SMT
<1>2. n <= t * s /\ (t - 1) * s < n
  BY <1>1, SMT
<1>3. ASSUME p < t PROVE p * s < n
  <2>1. p * s <= (t - 1) * s
    BY <1>1, <1>3, SMT
  <2>. QED
    BY <1>2, <2>1, SMT
<1>4. ASSUME p >= t PROVE ~(p * s < n)
  <2>1. p * s >= t * s
    BY <1>1, <1>4, SMT
  <2>. QED
    BY <1>2, <2>1, SMT
<1>. QED
  BY <1>3, <1>4

\* An exception is not a get_hyper dictionary.
LEMMA ErrorNotHyper ==
    ASSUME NEW r \in Errors
    PROVE  r \notin Hyper
<1>1. DOMAIN r = {"error"}
  BY DEF Errors, Raise
<1>2. \A h \in Hyper : "page" \in DOMAIN h
  BY DEF Hyper
<1>. QED
  BY <1>1, <1>2

\* The server of the model is the 0x00 one.
LEMMA ServeIs00 ==
    ASSUME impl = "0x00", NEW p, NEW s
    PROVE  Serve(p, s) = GetHyper00(p, s)
BY Zenon DEF Serve

\* get_hyper of 0x00: an AssertionError on invalid arguments, else the links.
LEMMA Answer00 ==
    ASSUME NEW p \in Int, NEW s \in Int
    PROVE  /\ PageArgsValid(p, s) => LinksOf(GetHyper00(p, s), p, s)
           /\ ~PageArgsValid(p, s) => GetHyper00(p, s) \in Errors
BY DEF GetHyper00, PageArgsValid, LinksOf, Errors

-----------------------------------------------------------------------------
THEOREM InitLinks == Impls \subseteq {"0x00", "simple"} /\ Init => LinksInv
BY MaxLenAssumption, PageSizesAssumption DEF Init, LinksInv

LEMMA WalkLinks ==
    ASSUME LinksInv, Walk
    PROVE  LinksInv'
<1>1. PageArgsValid(want, size) /\ want \in Nat \ {0} /\ size \in Nat \ {0}
  BY PageSizesAssumption DEF LinksInv, PageArgsValid
<1>2. UNCHANGED <<impl, L, size>> /\ impl = "0x00"
  BY DEF Walk, LinksInv
<1>3. resp' = GetHyper00(want, size) /\ call' = [page |-> want, size |-> size]
  BY <1>2, ServeIs00 DEF Walk
<1>4. LinksOf(resp', want, size)
  BY <1>1, <1>3, Answer00
<1>5. want' = IF resp'.next_page = None THEN want ELSE resp'.next_page
  BY <1>2, ServeIs00 DEF Walk
<1>6. want' \in Nat \ {0}
  BY <1>1, <1>4, <1>5 DEF LinksOf
<1>. QED
  BY <1>1, <1>2, <1>3, <1>4, <1>6 DEF LinksInv, LinksOf

LEMMA ProbeLinks ==
    ASSUME LinksInv, NEW page \in ProbePages, NEW ps \in ProbeSizes, Probe(page, ps)
    PROVE  LinksInv'
<1>1. page \in Int /\ ps \in Int
  BY ProbeAssumption
<1>3. UNCHANGED <<impl, L, size, want>>
  BY DEF Probe
<1>6. CASE impl = "simple"
  <2>0. Serve(page, ps) = ServeSimple(page, ps)
    BY <1>6, Zenon DEF Serve
  <2>1. resp' = ServeSimple(page, ps)
    BY <2>0 DEF Probe
  <2>2. resp' \in Errors \/ DOMAIN resp' = {"data"}
    BY <2>1 DEF ServeSimple, Errors, Raise
  <2>. QED
    BY <1>3, <2>2 DEF LinksInv
<1>7. CASE impl = "0x00"
  <2>1. resp' = GetHyper00(page, ps) /\ call' = [page |-> page, size |-> ps]
    BY <1>7, ServeIs00 DEF Probe
  <2>2. CASE PageArgsValid(page, ps)
    <3>1. LinksOf(resp', page, ps) /\ page \in Nat \ {0} /\ ps \in Nat \ {0}
      BY <1>1, <2>1, <2>2, Answer00 DEF PageArgsValid
    <3>. QED
      BY <1>3, <2>1, <3>1 DEF LinksInv, LinksOf
  <2>3. CASE ~PageArgsValid(page, ps)
    <3>1. resp' \in Errors
      BY <1>1, <2>1, <2>3, Answer00
    <3>. QED
      BY <1>3, <3>1 DEF LinksInv
  <2>. QED
    BY <2>2, <2>3
<1>. QED
  BY <1>6, <1>7 DEF LinksInv

\* A walk on the simple server receives lists, not get_hyper dictionaries.
LEMMA WalkPagesLinks ==
    ASSUME LinksInv, WalkPages
    PROVE  LinksInv'
<1>1. impl = "simple" /\ UNCHANGED <<impl, L, size>>
      /\ want \in Nat \ {0} /\ size \in Nat \ {0}
  BY PageSizesAssumption DEF WalkPages, LinksInv
<1>2. Serve(want, size) = [data |-> GetPage("simple", want, size)]
  <2>1. Serve(want, size) = ServeSimple(want, size)
    BY <1>1, Zenon DEF Serve
  <2>. QED
    BY <1>1, <2>1 DEF ServeSimple, PageArgsValid
<1>3. DOMAIN resp' = {"data"}
  BY <1>2 DEF WalkPages
<1>4. want' \in Nat \ {0}
  BY <1>1, <1>2 DEF WalkPages
<1>. QED
  BY <1>1, <1>3, <1>4 DEF LinksInv

THEOREM NextLinks == LinksInv /\ [Next]_vars => LinksInv'
<1> SUFFICES ASSUME LinksInv, [Next]_vars PROVE LinksInv'
  OBVIOUS
<1>1. CASE Walk
  BY <1>1, WalkLinks
<1>2. CASE WalkPages
  BY <1>2, WalkPagesLinks
<1>3. CASE \E page \in ProbePages, ps \in ProbeSizes : Probe(page, ps)
  BY <1>3, ProbeLinks
<1>4. CASE Restart
  BY <1>4, PageSizesAssumption DEF Restart, LinksInv, LinksOf
<1>5. CASE UNCHANGED vars
  BY <1>5 DEF vars, LinksInv, LinksOf
<1>. QED
  BY <1>1, <1>2, <1>3, <1>4, <1>5 DEF Next

\* The invariant implies the property, by CeilDiv.
LEMMA LinksInvConsistent == LinksInv => HyperLinksConsistent
<1> SUFFICES ASSUME LinksInv, resp # None, resp \in Hyper
             PROVE  LET total == (L + call.size - 1) \div call.size
                    IN  /\ resp.total_pages = total
                        /\ (resp.next_page = None) = (resp.page >= total)
                        /\ (resp.prev_page = None) = (resp.page = 1)
  BY DEF HyperLinksConsistent
<1>1. resp \notin Errors /\ DOMAIN resp # {"data"}
  BY ErrorNotHyper DEF Hyper
<1> DEFINE p == call.page
           s == call.size
<1>2. p \in Nat \ {0} /\ s \in Nat \ {0} /\ L \in Nat /\ LinksOf(resp, p, s)
  BY <1>1 DEF LinksInv
<1>3. (p * s < L) <=> (p < (L + s - 1) \div s)
  BY <1>2, CeilDiv
<1>4. p + 1 # None /\ p - 1 # None
  BY <1>2, NoneAssumption
<1>. QED
  BY <1>2, <1>3, <1>4 DEF LinksOf

\* For the 0x00 hypermedia server (and beside it the simple one, which has
\* no get_hyper), every answer of get_hyper has total_pages =
\* ceil(len / page_size), next_page None exactly from the last page on and
\* prev_page None exactly on page 1, for every dataset and every page size.
THEOREM LinksCorrect00 ==
    Impls \subseteq {"0x00", "simple"} => (Spec => []HyperLinksConsistent)
<1> SUFFICES ASSUME Impls \subseteq {"0x00", "simple"}
             PROVE  Spec => []HyperLinksConsistent
  OBVIOUS
<1>1. Init => LinksInv
  BY InitLinks
<1>. QED
  BY <1>1, NextLinks, LinksInvConsistent, PTL DEF Spec


-----------------------------------------------------------------------------
(***************************************************************************)
(* The loop index_range of 0-simple_helper_function.py, used by the root  *)
(* server.  IndexRangeLoop is the recursive function r over 0..page, and   *)
(* r[page] is the pair the loop holds after page turns.  Its value needs  *)
(* no induction scheme with an operator parameter: the pairs of the       *)
(* formula solve the defining equation (a witness), and any solution      *)
(* equals them at every index, since a least index where it would differ  *)
(* (LeastNatural) repeats the previous one, where the two agree.          *)
(***************************************************************************)
\* Every non-empty set of naturals has a least element.
LEMMA LeastNatural ==
    ASSUME NEW T \in SUBSET Nat, T # {}
    PROVE  \E m \in T : \A y \in T : ~(y < m)
<1>1. \E m \in T : \A y \in T : ~(<<y, m>> \in OpToRel(<, Nat))
  BY NatLessThanWellFounded, WFMin
<1>. QED
  BY <1>1 DEF OpToRel

\* After page turns, the loop holds the formula's ((page - 1) * ps, page * ps).
LEMMA IndexRangeLoopValue ==
    ASSUME NEW page \in Nat \ {0}, NEW ps \in Int
    PROVE  IndexRangeLoop(page, ps) = IndexRangeFormula(page, ps)
<1> DEFINE G == [i \in 0..page |-> <<IF i = 0 THEN 0 ELSE (i - 1) * ps, i * ps>>]
<1> DEFINE Turn(f, i) == IF i = 0 THEN <<0, 0>> ELSE <<f[i - 1][2], f[i - 1][2] + ps>>
<1> DEFINE IsLoop(f) == f = [i \in 0..page |-> Turn(f, i)]
<1>1. IsLoop(G)
  <2>1. ASSUME NEW i \in 0..page PROVE G[i] = Turn(G, i)
    <3>1. CASE i = 0
      BY <3>1
    <3>2. CASE i # 0
      <4>1. i - 1 \in 0..page /\ G[i - 1][2] = (i - 1) * ps
        BY <3>2
      <4>2. (i - 1) * ps + ps = i * ps
        BY SMT
      <4>. QED
        BY <3>2, <4>1, <4>2
    <3>. QED
      BY <3>1, <3>2
  <2>. QED
    BY <2>1, Zenon DEF IsLoop
<1>2. ASSUME NEW f, IsLoop(f) PROVE f = G
  <2> SUFFICES ASSUME f # G PROVE FALSE
    OBVIOUS
  <2> DEFINE T == {i \in 0..page : f[i] # G[i]}
  <2>1. T \in SUBSET Nat /\ T # {}
    <3>1. f = [i \in 0..page |-> f[i]] /\ G = [i \in 0..page |-> G[i]]
      BY <1>2 DEF IsLoop
    <3>2. \E i \in 0..page : f[i] # G[i]
      <4> SUFFICES ASSUME \A i \in 0..page : f[i] = G[i] PROVE FALSE
        OBVIOUS
      <4>1. [i \in 0..page |-> f[i]] = [i \in 0..page |-> G[i]]
        OBVIOUS
      <4>. QED
        BY <3>1, <4>1
    <3>3. T # {}
      BY <3>2, Zenon DEF T
    <3>4. T \in SUBSET Nat
      BY DEF T
    <3>. QED
      BY <3>3, <3>4
  <2>2. PICK m \in T : \A y \in T : ~(y < m)
    BY <2>1, LeastNatural
  <2>3. f[m] = Turn(f, m)
    BY <1>2, <2>2 DEF IsLoop
  <2>4. CASE m = 0
    BY <2>2, <2>3, <2>4
  <2>5. CASE m # 0
    <3>1. m - 1 \in 0..page /\ m - 1 < m
      BY <2>2, <2>5 DEF T
    <3>4. ~(m - 1 \in T)
      BY <2>2, <3>1
    <3>2. f[m - 1] = G[m - 1]
      BY <3>1, <3>4 DEF T
    <3>3. G[m] = Turn(G, m)
      BY <1>1 DEF IsLoop
    <3>. QED
      BY <2>2, <2>3, <2>5, <3>2, <3>3
  <2>. QED
    BY <2>4, <2>5
<1>3. IndexRangeLoop(page, ps) = G[page]
  BY <1>1, <1>2 DEF IndexRangeLoop
<1>. QED
  BY <1>3 DEF IndexRangeFormula


\* index_range of the 0x00 and the simple server: ((page - 1) * ps, page * ps).
LEMMA IndexRangeOf ==
    ASSUME NEW im \in {"0x00", "simple"}, NEW p \in Int, NEW s \in Int
    PROVE  IndexRange(im, p, s) = <<(p - 1) * s, p * s>>
<1>1. CASE im = "0x00"
  <2>1. IndexRange(im, p, s) = IndexRangeFormula(p, s)
    BY <1>1, Zenon DEF IndexRange
  <2>. QED
    BY <2>1 DEF IndexRangeFormula
<1>2. CASE im = "simple"
  <2>1. IndexRange(im, p, s) = IndexRangeSimple(p, s)
    BY <1>2, Zenon DEF IndexRange
  <2>2. (p - 1) * s + s = p * s
    BY SMT
  <2>. QED
    BY <2>1, <2>2 DEF IndexRangeSimple
<1>. QED
  BY <1>1, <1>2

\* index_range of all three servers, for a positive page.
LEMMA IndexRangeAll ==
    ASSUME NEW im \in {"0x00", "root", "simple"}, NEW p \in Nat \ {0},
           NEW s \in Int
    PROVE  IndexRange(im, p, s) = <<(p - 1) * s, p * s>>
<1>1. CASE im = "root"
  <2>1. IndexRange(im, p, s) = IndexRangeLoop(p, s)
    BY <1>1, Zenon DEF IndexRange
  <2>. QED
    BY <2>1, IndexRangeLoopValue DEF IndexRangeFormula
<1>2. CASE im \in {"0x00", "simple"}
  BY <1>2, IndexRangeOf
<1>. QED
  BY <1>1, <1>2

\* The records a..b-1 appended to the first a records are the first b.
LEMMA RecordsSlice ==
    ASSUME NEW a \in Nat, NEW b \in Nat, a <= b
    PROVE  Records(a) \o [i \in 1..(b - a) |-> a + i - 1] = Records(b)
<1> DEFINE t == [i \in 1..(b - a) |-> a + i - 1]
<1>1. Records(a) \in Seq(Int) /\ t \in Seq(Int) /\ Len(Records(a)) = a
      /\ Len(t) = b - a
  BY DEF Records
<1>2. Len(Records(a) \o t) = b
  BY <1>1
<1>3. \A i \in 1..b : (Records(a) \o t)[i] = i - 1
  BY <1>1 DEF Records
<1>. QED
  BY <1>1, <1>2, <1>3 DEF Records

(***************************************************************************)
(* One page of any of the three servers on valid arguments: it holds      *)
(* the records from (page - 1) * ps up to min(page * ps, len), and is      *)
(* empty exactly when (page - 1) * ps >= len.                              *)
(***************************************************************************)
LEMMA PageStep ==
    ASSUME NEW im \in {"0x00", "root", "simple"}, NEW p \in Nat \ {0},
           NEW s \in Nat \ {0}, L \in Nat
    PROVE  /\ Records(MinOf((p - 1) * s, L)) \o GetPage(im, p, s)
                = Records(MinOf(p * s, L))
           /\ GetPage(im, p, s) = <<>> <=> (p - 1) * s >= L
<1> DEFINE a == (p - 1) * s
           b == MinOf(p * s, L)
<1> USE DEF a, b
<1>1. a \in Nat /\ p * s \in Nat /\ a < p * s
  BY SMT
<1>2. GetPage(im, p, s)
        = IF a >= L THEN <<>> ELSE [i \in 1..(b - a) |-> a + i - 1]
  <2>0. IndexRange(im, p, s) = <<(p - 1) * s, p * s>>
    <3>1. s \in Int
      OBVIOUS
    <3>. QED
      BY <3>1, IndexRangeAll, Zenon
  <2>1. IndexRange(im, p, s)[1] = a /\ IndexRange(im, p, s)[2] = p * s
    BY <2>0
  <2>. QED
    BY <2>1 DEF GetPage
<1>3. CASE a >= L
  <2>1. MinOf(a, L) = L /\ b = L
    BY <1>1, <1>3 DEF MinOf
  <2>2. Records(L) \in Seq(Int)
    BY DEF Records
  <2>. QED
    BY <1>2, <1>3, <2>1, <2>2
<1>4. CASE ~(a >= L)
  <2>1. MinOf(a, L) = a /\ b \in Nat /\ a < b
    BY <1>1, <1>4 DEF MinOf
  <2>2. Records(a) \o [i \in 1..(b - a) |-> a + i - 1] = Records(b)
    <3>1. a \in Nat /\ b \in Nat /\ a <= b
      BY <1>1, <2>1
    <3>. QED
      BY <3>1, RecordsSlice, Zenon
  <2>3. [i \in 1..(b - a) |-> a + i - 1] # <<>>
    BY <2>1
  <2>. QED
    BY <1>2, <1>4, <2>1, <2>2, <2>3
<1>. QED
  BY <1>3, <1>4

-----------------------------------------------------------------------------
\* The simple server answers with its get_page.
LEMMA ServeIsSimple ==
    ASSUME impl = "simple", NEW p, NEW s
    PROVE  Serve(p, s) = ServeSimple(p, s)
BY Zenon DEF Serve

\* An answer that is a dictionary or a list of records is no exception.
LEMMA AnswerNotError ==
    ASSUME NEW r, DOMAIN r # {"error"}
    PROVE  r \notin Errors
BY DEF Errors, Raise

\* The asserts of get_page decide alone whether the call fails, and with what.
LEMMA AnswerArgs ==
    ASSUME impl \in {"0x00", "simple"}, NEW p \in Int, NEW s \in Int
    PROVE  /\ Serve(p, s) \in Errors <=> ~(p >= 1 /\ s >= 1)
           /\ Serve(p, s) \in Errors => Serve(p, s) = Raise("AssertionError")
<1>1. PageArgsValid(p, s) <=> (p >= 1 /\ s >= 1)
  BY DEF PageArgsValid
<1>2. CASE impl = "0x00"
  <2>1. Serve(p, s) = GetHyper00(p, s)
    BY <1>2, ServeIs00
  <2>2. PageArgsValid(p, s) => DOMAIN GetHyper00(p, s) # {"error"}
    BY DEF GetHyper00
  <2>3. ~PageArgsValid(p, s) => GetHyper00(p, s) = Raise("AssertionError")
    BY DEF GetHyper00
  <2>. QED
    BY <1>1, <2>1, <2>2, <2>3, AnswerNotError DEF Errors
<1>3. CASE impl = "simple"
  <2>1. Serve(p, s) = ServeSimple(p, s)
    BY <1>3, ServeIsSimple
  <2>2. PageArgsValid(p, s) => DOMAIN ServeSimple(p, s) # {"error"}
    BY DEF ServeSimple
  <2>3. ~PageArgsValid(p, s) => ServeSimple(p, s) = Raise("AssertionError")
    BY DEF ServeSimple
  <2>. QED
    BY <1>1, <2>1, <2>2, <2>3, AnswerNotError DEF Errors
<1>. QED
  BY <1>2, <1>3

\* A call that sets resp to Serve of its arguments keeps ArgsInv.
LEMMA CallArgs ==
    ASSUME ArgsInv, NEW p \in Int, NEW s \in Int,
           resp' = Serve(p, s), call' = [page |-> p, size |-> s],
           UNCHANGED <<impl, size>>, want' \in Nat \ {0}
    PROVE  ArgsInv'
<1>1. /\ resp' \in Errors <=> ~(p >= 1 /\ s >= 1)
      /\ resp' \in Errors => resp' = Raise("AssertionError")
  BY AnswerArgs DEF ArgsInv
<1>2. call'.page = p /\ call'.size = s /\ call' \in [page : Int, size : Int]
  OBVIOUS
<1>. QED
  BY <1>1, <1>2 DEF ArgsInv, ArgsRejected

THEOREM InitArgs == Impls \subseteq {"0x00", "simple"} /\ Init => ArgsInv
BY PageSizesAssumption DEF Init, ArgsInv, ArgsRejected

LEMMA WalkArgs ==
    ASSUME ArgsInv, Walk
    PROVE  ArgsInv'
<1>1. impl = "0x00" /\ want \in Nat \ {0} /\ size \in Nat \ {0}
  BY PageSizesAssumption DEF Walk, ArgsInv
<1>2. resp' = GetHyper00(want, size)
  BY <1>1, ServeIs00 DEF Walk
<1>3. LinksOf(resp', want, size)
  BY <1>1, <1>2, Answer00 DEF PageArgsValid
<1>4. want' = IF resp'.next_page = None THEN want ELSE resp'.next_page
  BY <1>1, ServeIs00 DEF Walk
<1>5. want' \in Nat \ {0}
  BY <1>1, <1>3, <1>4 DEF LinksOf
<1>. QED
  BY <1>1, <1>5, CallArgs DEF Walk

LEMMA WalkPagesArgs ==
    ASSUME ArgsInv, WalkPages
    PROVE  ArgsInv'
<1>1. want \in Nat \ {0} /\ size \in Nat \ {0}
  BY PageSizesAssumption DEF ArgsInv
<1>2. want' \in Nat \ {0}
  BY <1>1 DEF WalkPages
<1>. QED
  BY <1>1, <1>2, CallArgs DEF WalkPages

THEOREM NextArgs == ArgsInv /\ [Next]_vars => ArgsInv'
<1> SUFFICES ASSUME ArgsInv, [Next]_vars PROVE ArgsInv'
  OBVIOUS
<1>1. CASE Walk
  BY <1>1, WalkArgs
<1>2. CASE WalkPages
  BY <1>2, WalkPagesArgs
<1>3. CASE \E page \in ProbePages, ps \in ProbeSizes : Probe(page, ps)
  <2>1. PICK page \in ProbePages, ps \in ProbeSizes : Probe(page, ps)
    BY <1>3
  <2>2. page \in Int /\ ps \in Int
    BY ProbeAssumption
  <2>. QED
    BY <2>1, <2>2, CallArgs DEF Probe, ArgsInv
<1>4. CASE Restart
  BY <1>4, PageSizesAssumption DEF Restart, ArgsInv, ArgsRejected
<1>5. CASE UNCHANGED vars
  BY <1>5 DEF vars, ArgsInv, ArgsRejected
<1>. QED
  BY <1>1, <1>2, <1>3, <1>4, <1>5 DEF Next

\* On the 0x00 hypermedia server and on the simple server, a call fails
\* exactly when its page or page_size is not positive, and then with the
\* AssertionError of get_page's asserts, for every dataset and every
\* argument; the walk never fails.
THEOREM ArgsRejectedFirst ==
    Impls \subseteq {"0x00", "simple"} => (Spec => []ArgsRejected)
<1> SUFFICES ASSUME Impls \subseteq {"0x00", "simple"}
             PROVE  Spec => []ArgsRejected
  OBVIOUS
<1>1. Init => ArgsInv
  BY InitArgs
<1>2. ArgsInv => ArgsRejected
  BY DEF ArgsInv
<1>. QED
  BY <1>1, <1>2, NextArgs, PTL DEF Spec


\* A walk that asks page 1 has received nothing yet.
LEMMA FirstPageStart ==
    ASSUME NEW n \in Nat, NEW ps \in Int
    PROVE  MinOf((1 - 1) * ps, n) = 0
BY DEF MinOf

-----------------------------------------------------------------------------
THEOREM InitWalk == Init => WalkInv
<1> SUFFICES ASSUME Init PROVE WalkInv
  OBVIOUS
<1>0. impl \in {"0x00", "root", "simple"}
  BY ImplsAssumption DEF Init
<1>1. MinOf((1 - 1) * size, L) = 0 /\ size \in Nat \ {0} /\ L \in Nat
  BY PageSizesAssumption, MaxLenAssumption DEF Init, MinOf
<1>2. Records(0) = <<>>
  BY DEF Records
<1>. QED
  BY <1>0, <1>1, <1>2 DEF Init, WalkInv

(***************************************************************************)
(* len // page_size + 1 is a page count too large by at most one: when the *)
(* root get_hyper gives no next page, the page asked already reaches len.  *)
(***************************************************************************)
LEMMA RootLastPage ==
    ASSUME NEW n \in Nat, NEW s \in Nat \ {0}, NEW p \in Nat,
           ~(p + 1 <= n \div s + 1)
    PROVE  p * s >= n
<1>1. n \div s + 1 <= p
  BY SMT
<1>2. n < (n \div s + 1) * s
  BY SMT
<1>3. (n \div s + 1) * s <= p * s
  BY <1>1, SMT
<1>. QED
  BY <1>2, <1>3, SMT

\* A walk on the root server follows its next_page.
LEMMA WalkRootWalk ==
    ASSUME WalkInv, Walk, impl = "root"
    PROVE  WalkInv'
<1>1. ~done /\ UNCHANGED <<impl, L, size>>
  BY DEF Walk
<1>2. want \in Nat \ {0} /\ size \in Nat \ {0} /\ L \in Nat
  BY DEF WalkInv
<1> DEFINE r == GetHyperRoot(want, size)
<1>3. /\ seen' = seen \o r.data
      /\ want' = IF r.next_page = None THEN want ELSE r.next_page
      /\ done' = (r.next_page = None)
  <2>1. Serve(want, size) = r
    BY Zenon DEF Serve
  <2>. QED
    BY <2>1 DEF Walk
<1>4. r.data = GetPage("root", want, size)
      /\ r.next_page = IF want + 1 <= L \div size + 1 THEN want + 1 ELSE None
  <2>1. size # 0 /\ AssertPositive(want) /\ AssertPositive(size)
    BY <1>2 DEF AssertPositive
  <2>. QED
    BY <2>1 DEF GetHyperRoot
<1>5. seen' = Records(MinOf(want * size, L))
  <2>1. seen = Records(MinOf((want - 1) * size, L))
    BY <1>1 DEF WalkInv
  <2>2. Records(MinOf((want - 1) * size, L)) \o GetPage("root", want, size)
          = Records(MinOf(want * size, L))
    BY <1>2, PageStep
  <2>. QED
    BY <1>3, <1>4, <2>1, <2>2
<1>6. want + 1 # None
  BY <1>2, NoneAssumption
<1>7. CASE want + 1 <= L \div size + 1
  <2>0. want' = want + 1 /\ done' = FALSE
    BY <1>3, <1>4, <1>6, <1>7
  <2>1. (want' - 1) * size = want * size
    BY <1>2, <2>0
  <2>. QED
    BY <1>1, <1>2, <1>5, <2>0, <2>1 DEF WalkInv
<1>8. CASE ~(want + 1 <= L \div size + 1)
  <2>1. want' = want /\ done' = TRUE
    BY <1>3, <1>4, <1>8
  <2>2. want * size >= L
    BY <1>2, <1>8, RootLastPage
  <2>3. MinOf(want * size, L) = L
    BY <1>2, <2>2 DEF MinOf
  <2>. QED
    BY <1>1, <1>2, <1>5, <2>1, <2>3 DEF WalkInv
<1>. QED
  BY <1>7, <1>8

\* A walk on the 0x00 hypermedia server follows its next_page.
LEMMA WalkWalk ==
    ASSUME WalkInv, Walk, impl = "0x00"
    PROVE  WalkInv'
<1>1. impl = "0x00" /\ ~done /\ UNCHANGED <<impl, L, size>>
  BY DEF Walk
<1>2. want \in Nat \ {0} /\ size \in Nat \ {0} /\ L \in Nat
  BY DEF WalkInv
<1> DEFINE r == GetHyper00(want, size)
<1>3. /\ seen' = seen \o r.data
      /\ want' = IF r.next_page = None THEN want ELSE r.next_page
      /\ done' = (r.next_page = None)
  BY <1>1, ServeIs00 DEF Walk
<1>4. r.data = GetPage("0x00", want, size)
      /\ r.next_page = IF want * size < L THEN want + 1 ELSE None
  BY <1>2 DEF GetHyper00, PageArgsValid
<1>5. seen' = Records(MinOf(want * size, L))
  <2>1. seen = Records(MinOf((want - 1) * size, L))
    BY <1>1 DEF WalkInv
  <2>2. Records(MinOf((want - 1) * size, L)) \o GetPage("0x00", want, size)
          = Records(MinOf(want * size, L))
    BY <1>2, PageStep
  <2>. QED
    BY <1>3, <1>4, <2>1, <2>2
<1>6. want + 1 # None
  BY <1>2, NoneAssumption
<1>7. CASE want * size < L
  <2>0. want' = want + 1 /\ done' = FALSE
    BY <1>3, <1>4, <1>6, <1>7
  <2>1. want' = want + 1 /\ done' = FALSE /\ (want' - 1) * size = want * size
    BY <1>2, <2>0
  <2>. QED
    BY <1>1, <1>2, <1>5, <2>1 DEF WalkInv
<1>8. CASE ~(want * size < L)
  <2>1. want' = want /\ done' = TRUE /\ MinOf(want * size, L) = L
    BY <1>3, <1>4, <1>8 DEF MinOf
  <2>. QED
    BY <1>1, <1>2, <1>5, <2>1 DEF WalkInv
<1>. QED
  BY <1>7, <1>8

LEMMA WalkPagesWalk ==
    ASSUME WalkInv, WalkPages
    PROVE  WalkInv'
<1>1. impl = "simple" /\ ~done /\ UNCHANGED <<impl, L, size>>
  BY DEF WalkPages, WalkInv
<1>2. want \in Nat \ {0} /\ size \in Nat \ {0} /\ L \in Nat
  BY DEF WalkInv
<1> DEFINE d == GetPage("simple", want, size)
<1>3. /\ seen' = seen \o d
      /\ want' = IF d = <<>> THEN want ELSE want + 1
      /\ done' = (d = <<>>)
  <2>1. Serve(want, size) = [data |-> d]
    BY <1>1, <1>2, ServeIsSimple DEF ServeSimple, PageArgsValid
  <2>. QED
    BY <2>1 DEF WalkPages
<1>4. /\ seen' = Records(MinOf(want * size, L))
      /\ d = <<>> <=> (want - 1) * size >= L
  <2>1. seen = Records(MinOf((want - 1) * size, L))
    BY <1>1 DEF WalkInv
  <2>. QED
    BY <1>2, <1>3, <2>1, PageStep
<1>5. CASE d = <<>>
  <2>1. want' = want /\ done' = TRUE
    BY <1>3, <1>5
  <2>2. MinOf(want * size, L) = L
    BY <1>2, <1>4, <1>5 DEF MinOf
  <2>. QED
    BY <1>1, <1>2, <1>4, <2>1, <2>2 DEF WalkInv
<1>6. CASE d # <<>>
  <2>0. want' = want + 1 /\ done' = FALSE
    BY <1>3, <1>6
  <2>1. want' = want + 1 /\ done' = FALSE /\ (want' - 1) * size = want * size
    BY <1>2, <2>0
  <2>. QED
    BY <1>1, <1>2, <1>4, <2>1 DEF WalkInv
<1>. QED
  BY <1>5, <1>6

THEOREM NextWalk == WalkInv /\ [Next]_vars => WalkInv'
<1> SUFFICES ASSUME WalkInv, [Next]_vars PROVE WalkInv'
  OBVIOUS
<1>1. CASE Walk
  <2>1. impl \in {"0x00", "root"}
    BY <1>1 DEF Walk, WalkInv
  <2>. QED
    BY <1>1, <2>1, WalkWalk, WalkRootWalk
<1>2. CASE WalkPages
  BY <1>2, WalkPagesWalk
<1>3. CASE \E page \in ProbePages, ps \in ProbeSizes : Probe(page, ps)
  BY <1>3 DEF Probe, WalkInv
<1>4. CASE Restart
  <2>1. size' \in Nat \ {0} /\ want' = 1 /\ seen' = <<>> /\ ~done'
    BY <1>4, PageSizesAssumption DEF Restart
  <2>2. L' \in Nat /\ MinOf((want' - 1) * size', L') = 0
    <3>1. L' = L /\ L \in Nat
      BY <1>4 DEF Restart, WalkInv
    <3>. QED
      BY <2>1, <3>1, FirstPageStart
  <2>3. Records(0) = <<>>
    BY DEF Records
  <2>. QED
    BY <1>4, <2>1, <2>2, <2>3 DEF Restart, WalkInv
<1>5. CASE UNCHANGED vars
  BY <1>5 DEF vars, WalkInv
<1>. QED
  BY <1>1, <1>2, <1>3, <1>4, <1>5 DEF Next

(***************************************************************************)
(* On every server, following next_page on the two hypermedia ones (the  *)
(* root one's count too large by one included) and asking page after page *)
(* until one is empty on the simple one, a walk that ends has received    *)
(* every record of the dataset, in order, each once: for every dataset    *)
(* length and every page size.                                             *)
(***************************************************************************)
THEOREM WalkCompleteAll == Spec => []WalkReproducesDataset
<1>1. Init => WalkInv
  BY InitWalk
<1>2. WalkInv => WalkReproducesDataset
  BY DEF WalkInv, WalkReproducesDataset, Records
<1>. QED
  BY <1>1, <1>2, NextWalk, PTL DEF Spec

-----------------------------------------------------------------------------
(***************************************************************************)
(* TypeOK for the three servers.  The type of what a walk has received     *)
(* comes from WalkInv (seen is the first records, at most len of them);    *)
(* the type of every answer from the lemmas below, for every argument a   *)
(* call may pass.                                                          *)
(***************************************************************************)
TypeInv == TypeOK /\ WalkInv

\* The first k records, k at most MaxLen, are positions below MaxLen.
LEMMA RecordsType ==
    ASSUME NEW k \in 0..MaxLen
    PROVE  Records(k) \in Seq(0..(MaxLen - 1))
BY MaxLenAssumption DEF Records

\* A page on valid arguments is a list of positions.
LEMMA GetPageType ==
    ASSUME NEW im \in {"0x00", "root", "simple"}, NEW p \in Nat \ {0},
           NEW s \in Nat \ {0}, L \in Nat
    PROVE  GetPage(im, p, s) \in Seq(Nat)
<1> DEFINE a == (p - 1) * s
           b == MinOf(p * s, L)
<1>0. IndexRange(im, p, s) = <<(p - 1) * s, p * s>>
  <2>1. s \in Int
    OBVIOUS
  <2>. QED
    BY <2>1, IndexRangeAll, Zenon
<1>1. IndexRange(im, p, s)[1] = a /\ IndexRange(im, p, s)[2] = p * s
  BY <1>0
<1>2. a \in Nat /\ b \in Int
  BY DEF MinOf
<1>3. [i \in 1..(b - a) |-> a + i - 1] \in Seq(Nat)
  BY <1>2
<1>. QED
  BY <1>1, <1>3 DEF GetPage

RespType == Hyper \cup [data : Seq(Nat)] \cup Errors

\* get_hyper of the 0x00 server answers a dictionary or raises.
LEMMA Hyper00Type ==
    ASSUME L \in Nat, NEW p \in Int, NEW s \in Int
    PROVE  GetHyper00(p, s) \in RespType
<1>1. CASE ~PageArgsValid(p, s)
  BY <1>1 DEF GetHyper00, RespType, Errors
<1>2. CASE PageArgsValid(p, s)
  <2> DEFINE d == GetPage("0x00", p, s)
  <2>1. p \in Nat \ {0} /\ s \in Nat \ {0} /\ d \in Seq(Nat)
    BY <1>2, GetPageType DEF PageArgsValid
  <2>2. (L + s - 1) \div s \in Nat
    BY <2>1
  <2>3. GetHyper00(p, s) \in Hyper
    BY <1>2, <2>1, <2>2 DEF GetHyper00, Hyper
  <2>. QED
    BY <2>3 DEF RespType
<1>. QED
  BY <1>1, <1>2

\* get_hyper of the root server answers a dictionary or raises.
LEMMA HyperRootType ==
    ASSUME L \in Nat, NEW p \in Int, NEW s \in Int
    PROVE  GetHyperRoot(p, s) \in RespType
<1>1. CASE s = 0 \/ ~(AssertPositive(p) /\ AssertPositive(s))
  BY <1>1 DEF GetHyperRoot, RespType, Errors
<1>2. CASE s # 0 /\ AssertPositive(p) /\ AssertPositive(s)
  <2> DEFINE d == GetPage("root", p, s)
  <2>1. p \in Nat \ {0} /\ s \in Nat \ {0} /\ d \in Seq(Nat)
    BY <1>2, GetPageType DEF AssertPositive
  <2>2. L \div s + 1 \in Nat /\ MinOf(s, Len(d)) \in Nat
    BY <2>1 DEF MinOf
  <2>3. GetHyperRoot(p, s) \in Hyper
    BY <1>2, <2>1, <2>2 DEF GetHyperRoot, Hyper
  <2>. QED
    BY <2>3 DEF RespType
<1>. QED
  BY <1>1, <1>2

\* Whatever the arguments, the server the client talks to answers or raises.
LEMMA ServeType ==
    ASSUME impl \in {"0x00", "root", "simple"}, L \in Nat,
           NEW p \in Int, NEW s \in Int
    PROVE  Serve(p, s) \in RespType
<1>1. CASE impl = "0x00"
  <2>1. Serve(p, s) = GetHyper00(p, s)
    BY <1>1, Zenon DEF Serve
  <2>. QED
    BY <2>1, Hyper00Type
<1>2. CASE impl = "root"
  <2>1. Serve(p, s) = GetHyperRoot(p, s)
    BY <1>2, Zenon DEF Serve
  <2>. QED
    BY <2>1, HyperRootType
<1>3. CASE impl = "simple"
  <2>1. CASE PageArgsValid(p, s)
    <3>1. GetPage("simple", p, s) \in Seq(Nat)
      BY <2>1, GetPageType DEF PageArgsValid
    <3>. QED
      BY <1>3, <2>1, <3>1, ServeIsSimple DEF ServeSimple, RespType
  <2>2. CASE ~PageArgsValid(p, s)
    BY <1>3, <2>2, ServeIsSimple DEF ServeSimple, RespType, Errors
  <2>. QED
    BY <2>1, <2>2
<1>. QED
  BY <1>1, <1>2, <1>3

\* What a walk has received, as WalkInv gives it, is a list of positions.
LEMMA SeenOfWalk ==
    ASSUME NEW n \in 0..MaxLen, NEW w \in Nat \ {0}, NEW z \in Nat \ {0},
           NEW q, NEW d \in BOOLEAN,
           ~d => q = Records(MinOf((w - 1) * z, n)),
           d => q = Records(n)
    PROVE  q \in Seq(0..(MaxLen - 1))
<1>1. CASE d
  BY <1>1, RecordsType
<1>2. CASE ~d
  <2>1. (w - 1) * z \in Nat
    BY SMT
  <2>2. \A k \in Nat : MinOf(k, n) \in 0..MaxLen
    BY MaxLenAssumption DEF MinOf
  <2>. QED
    BY <1>2, <2>1, <2>2, RecordsType
<1>. QED
  BY <1>1, <1>2


THEOREM InitType == Init => TypeInv
<1> SUFFICES ASSUME Init PROVE TypeInv
  OBVIOUS
<1>1. seen \in Seq(0..(MaxLen - 1)) /\ want \in Nat \ {0}
  BY DEF Init
<1>. QED
  BY <1>1, InitWalk DEF Init, TypeInv, TypeOK

THEOREM NextType == TypeInv /\ [Next]_vars => TypeInv'
<1> SUFFICES ASSUME TypeInv, [Next]_vars PROVE TypeInv'
  OBVIOUS
<1>0. /\ WalkInv'
      /\ impl \in {"0x00", "root", "simple"} /\ L \in Nat
      /\ want \in Int /\ size \in Int
  BY NextWalk, PageSizesAssumption DEF TypeInv, WalkInv
<1>1. CASE Walk \/ WalkPages
  <2>1. UNCHANGED <<impl, L, size>> /\ resp' = Serve(want, size)
        /\ done' \in BOOLEAN
    BY <1>1 DEF Walk, WalkPages
  <2>2. resp' \in RespType
    BY <1>0, <2>1, ServeType
  <2>3. seen' \in Seq(0..(MaxLen - 1)) /\ want' \in Nat \ {0}
    <3>1. L' \in 0..MaxLen
      BY <2>1 DEF TypeInv, TypeOK
    <3>2. /\ want' \in Nat \ {0} /\ size' \in Nat \ {0}
          /\ ~done' => seen' = Records(MinOf((want' - 1) * size', L'))
          /\ done' => seen' = Records(L')
      BY <1>0 DEF WalkInv
    <3>. QED
      BY <2>1, <3>1, <3>2, SeenOfWalk
  <2>4. call' \in [page : Int, size : Int]
    BY <1>1, <1>0 DEF Walk, WalkPages
  <2>. QED
    BY <1>0, <2>1, <2>2, <2>3, <2>4 DEF TypeInv, TypeOK, RespType
<1>2. CASE \E page \in ProbePages, ps \in ProbeSizes : Probe(page, ps)
  <2>1. PICK page \in ProbePages, ps \in ProbeSizes : Probe(page, ps)
    BY <1>2
  <2>2. page \in Int /\ ps \in Int
    BY ProbeAssumption
  <2>3. resp' \in RespType /\ call' \in [page : Int, size : Int]
    BY <1>0, <2>1, <2>2, ServeType DEF Probe
  <2>. QED
    BY <1>0, <2>1, <2>3 DEF Probe, TypeInv, TypeOK, RespType
<1>3. CASE Restart
  <2>1. seen' = <<>> /\ want' = 1 /\ done' = FALSE /\ size' \in PageSizes
    BY <1>3 DEF Restart
  <2>2. <<>> \in Seq(0..(MaxLen - 1))
    <3>1. Records(0) = <<>>
      BY DEF Records
    <3>. QED
      BY <3>1, RecordsType, MaxLenAssumption
  <2>3. UNCHANGED <<impl, L, resp, call>>
    BY <1>3 DEF Restart
  <2>4. /\ impl' \in Impls /\ L' \in 0..MaxLen
        /\ resp' \in {None} \cup Hyper \cup [data : Seq(Nat)] \cup Errors
        /\ call' \in {None} \cup [page : Int, size : Int]
    BY <2>3 DEF TypeInv, TypeOK
  <2>5. want' \in Nat \ {0}
    BY <2>1
  <2>6. done' \in BOOLEAN /\ size' \in PageSizes /\ seen' \in Seq(0..(MaxLen - 1))
    BY <2>1, <2>2, Zenon
  <2>. QED
    BY <1>0, <2>4, <2>5, <2>6 DEF TypeInv, TypeOK
<1>4. CASE UNCHANGED vars
  BY <1>0, <1>4 DEF vars, TypeInv, TypeOK
<1>. QED
  BY <1>1, <1>2, <1>3, <1>4 DEF Next

(***************************************************************************)
(* Every state of the three servers and their client has the types TypeOK *)
(* gives: every answer of index_range, get_page and get_hyper, to every    *)
(* argument, is a dictionary of its fields, a list of positions or an      *)
(* exception, and a walk receives positions of the dataset only.           *)
(***************************************************************************)
THEOREM TypeCorrectPages == Spec => []TypeOK
<1>1. TypeInv => TypeOK
  BY DEF TypeInv
<1>. QED
  BY <1>1, InitType, NextType, PTL DEF Spec

\* In a state of the right types the three index_range forms agree.
LEMMA AgreesOfType ==
    ASSUME TypeOK
    PROVE  IndexRangeAgrees
<1> SUFFICES ASSUME NEW page \in 1..want \cup {p \in ProbePages : p >= 1}
             PROVE  /\ IndexRangeLoop(page, size) = IndexRangeFormula(page, size)
                    /\ IndexRangeSimple(page, size) = IndexRangeFormula(page, size)
  BY DEF IndexRangeAgrees
<1>1. page \in Nat \ {0} /\ size \in Int
  BY ProbeAssumption, PageSizesAssumption DEF TypeOK
<1>2. (page - 1) * size + size = page * size
  BY <1>1, SMT
<1>. QED
  BY <1>1, <1>2, IndexRangeLoopValue DEF IndexRangeSimple, IndexRangeFormula

(***************************************************************************)
(* The loop index_range of 0-simple_helper_function.py (the root server's) *)
(* and the start + page_size form of 1-simple_pagination.py compute the    *)
(* spec's ((page - 1) * page_size, page * page_size) for every page the    *)
(* walk has asked or a call may ask, for every page size.                  *)
(***************************************************************************)
THEOREM IndexRangeCorrect == Spec => []IndexRangeAgrees
BY TypeCorrectPages, AgreesOfType, PTL
=============================================================================
