---------------------------- MODULE Pagination ----------------------------
(***************************************************************************)
(* Page-number pagination over the dataset: index_range, Server.get_page   *)
(* and Server.get_hyper, in the three servers the repository has:          *)
(*   "0x00":   src/0x00-pagination/2-hypermedia_pagination.py (index_range *)
(*             by formula, get_page, get_hyper with math.ceil);            *)
(*   "root":   src/2-hypermedia_pagination.py (index_range by the loop of  *)
(*             0x00-pagination/0-simple_helper_function.py, get_page,      *)
(*             get_hyper with len // page_size + 1);                       *)
(*   "simple": src/0x00-pagination/1-simple_pagination.py (index_range as  *)
(*             start + page_size, get_page only, no get_hyper).            *)
(* The dataset is L records, represented by their positions 0..L-1; L is   *)
(* whatever the CSV file holds, fixed for a server.  A client walks the    *)
(* pages with a fixed page size (following next_page, or, on the simple    *)
(* server, asking page after page until one is empty) and may also call    *)
(* the server with any arguments, valid or not.                            *)
(***************************************************************************)
EXTENDS Integers, Sequences

CONSTANTS
    MaxLen,     \* largest dataset length considered
    PageSizes,  \* page sizes a walking client uses (positive)
    ProbePages, \* page arguments of direct calls (any integers)
    ProbeSizes, \* page_size arguments of direct calls (any integers)
    Impls,      \* which servers to run: subset of {"0x00", "root", "simple"}
    None        \* Python's None

ASSUME MaxLenAssumption == MaxLen \in Nat
ASSUME PageSizesAssumption == PageSizes \subseteq Nat \ {0} /\ PageSizes # {}
ASSUME ProbeAssumption == ProbePages \subseteq Int /\ ProbeSizes \subseteq Int
ASSUME ImplsAssumption == Impls \subseteq {"0x00", "root", "simple"} /\ Impls # {}
ASSUME NoneAssumption == None \notin Int

VARIABLES
    impl,       \* the server the client talks to
    L,          \* len(self.dataset())
    size,       \* the page_size of the client's walk
    want,       \* the page the walk asks for next
    seen,       \* the records the walk has received, in order
    done,       \* the walk has reached its end
    resp,       \* what the last call returned, or the exception it raised
    call        \* the arguments of that call

vars == <<impl, L, size, want, seen, done, resp, call>>

MinOf(x, y) == IF x < y THEN x ELSE y

\* An exception a call raises.
Raise(e) == [error |-> e]

(***************************************************************************)
(* index_range(page, page_size) of the three files.                        *)
(***************************************************************************)
IndexRangeFormula(page, ps) == <<(page - 1) * ps, page * ps>>

IndexRangeSimple(page, ps) ==
    LET start == (page - 1) * ps IN <<start, start + ps>>

\* Fault: the loop runs page + 1 times.
IndexRangeLoopExtra(page, ps) ==
    LET r[i \in 0..(page + 1)] ==
            IF i = 0 THEN <<0, 0>> ELSE <<r[i - 1][2], r[i - 1][2] + ps>>
    IN  r[page + 1]

\* The loop: page times start = end; end += page_size, from 0, 0.
IndexRangeLoop(page, ps) ==
    LET r[i \in 0..page] ==
            IF i = 0 THEN <<0, 0>> ELSE <<r[i - 1][2], r[i - 1][2] + ps>>
    IN  r[page]

IndexRange(im, page, ps) ==
    CASE im = "0x00"   -> IndexRangeFormula(page, ps)
      [] im = "root"   -> IndexRangeLoop(page, ps)
      [] im = "simple" -> IndexRangeSimple(page, ps)

\* Fault: a page number below 1 is let through.
PageArgsValidSizeOnly(page, ps) == ps > 0

\* assert isinstance(page, int) and page > 0; the same for page_size.
PageArgsValid(page, ps) == page > 0 /\ ps > 0

(***************************************************************************)
(* get_page(page, page_size) on valid arguments: dataset[start:end], the   *)
(* empty list when start >= len (an explicit test in the 0x00 files, what  *)
(* the slice gives in root).                                               *)
(***************************************************************************)
GetPage(im, page, ps) ==
    LET start == IndexRange(im, page, ps)[1]
        end == MinOf(IndexRange(im, page, ps)[2], L)
    IN  IF start >= L THEN <<>> ELSE [i \in 1..(end - start) |-> start + i - 1]

\* Server.get_page of 1-simple_pagination.py: the asserts, then the page;
\* a page past the data is [] (lines 79-80), not the IndexError the
\* docstring (line 70) announces.
ServeSimple(page, ps) ==
    IF PageArgsValid(page, ps) THEN [data |-> GetPage("simple", page, ps)]
    ELSE Raise("AssertionError")

(***************************************************************************)
(* get_hyper(page, page_size) of 0x00-pagination/2-hypermedia_pagination:  *)
(* get_page (and its asserts) first, then math.ceil(len / page_size),      *)
(* which for two positive integers is (len + page_size - 1) \div page_size. *)
(***************************************************************************)
\* Fault: next_page while page * page_size <= len.
GetHyper00NextLe(page, ps) ==
    IF ~PageArgsValid(page, ps) THEN Raise("AssertionError")
    ELSE LET data == GetPage("0x00", page, ps)
         IN  [page_size |-> Len(data), page |-> page, data |-> data,
              next_page |-> IF page * ps <= L THEN page + 1 ELSE None,
              prev_page |-> IF page > 1 THEN page - 1 ELSE None,
              total_pages |-> (L + ps - 1) \div ps]

\* Fault: prev_page is page - 1 without the page > 1 test.
GetHyper00PrevAlways(page, ps) ==
    IF ~PageArgsValid(page, ps) THEN Raise("AssertionError")
    ELSE LET data == GetPage("0x00", page, ps)
         IN  [page_size |-> Len(data), page |-> page, data |-> data,
              next_page |-> IF page * ps < L THEN page + 1 ELSE None,
              prev_page |-> page - 1,
              total_pages |-> (L + ps - 1) \div ps]

GetHyper00(page, ps) ==
    IF ~PageArgsValid(page, ps) THEN Raise("AssertionError")
    ELSE LET data == GetPage("0x00", page, ps)
         IN  [page_size |-> Len(data), page |-> page, data |-> data,
              next_page |-> IF page * ps < L THEN page + 1 ELSE None,
              prev_page |-> IF page > 1 THEN page - 1 ELSE None,
              total_pages |-> (L + ps - 1) \div ps]

\* Server.assert_positive_integer_type of the root file.
AssertPositive(v) == v > 0

(***************************************************************************)
(* get_hyper(page, page_size) of src/2-hypermedia_pagination.py: total     *)
(* pages len // page_size + 1 first (a ZeroDivisionError for page_size 0), *)
(* then get_page, whose assert_positive_integer_type checks come next.     *)
(***************************************************************************)
\* Fault: next_page while page + 1 < total_pages.
GetHyperRootNextLt(page, ps) ==
    IF ps = 0 THEN Raise("ZeroDivisionError")
    ELSE IF ~(AssertPositive(page) /\ AssertPositive(ps))
    THEN Raise("AssertionError")
    ELSE LET total == L \div ps + 1
             data == GetPage("root", page, ps)
         IN  [page |-> page, page_size |-> MinOf(ps, Len(data)),
              total_pages |-> total, data |-> data,
              prev_page |-> IF page > 1 THEN page - 1 ELSE None,
              next_page |-> IF page + 1 < total THEN page + 1 ELSE None]

GetHyperRoot(page, ps) ==
    IF ps = 0 THEN Raise("ZeroDivisionError")
    ELSE IF ~(AssertPositive(page) /\ AssertPositive(ps))
    THEN Raise("AssertionError")
    ELSE LET total == L \div ps + 1
             data == GetPage("root", page, ps)
         IN  [page |-> page, page_size |-> MinOf(ps, Len(data)),
              total_pages |-> total, data |-> data,
              prev_page |-> IF page > 1 THEN page - 1 ELSE None,
              next_page |-> IF page + 1 <= total THEN page + 1 ELSE None]

\* The call the client makes on the server it talks to.
Serve(page, ps) ==
    CASE impl = "0x00"   -> GetHyper00(page, ps)
      [] impl = "root"   -> GetHyperRoot(page, ps)
      [] impl = "simple" -> ServeSimple(page, ps)

Init ==
    /\ impl \in Impls
    /\ L \in 0..MaxLen
    /\ size \in PageSizes
    /\ want = 1
    /\ seen = <<>>
    /\ done = FALSE
    /\ resp = None
    /\ call = None

\* On a hypermedia server the walk asks get_hyper(want, size) and follows
\* next_page until it is None.
Walk ==
    LET r == Serve(want, size)
    IN  /\ impl # "simple"
        /\ ~done
        /\ resp' = r
        /\ call' = [page |-> want, size |-> size]
        /\ seen' = seen \o r.data
        /\ want' = IF r.next_page = None THEN want ELSE r.next_page
        /\ done' = (r.next_page = None)
        /\ UNCHANGED <<impl, L, size>>

\* On the simple server the walk asks get_page(want, size) for want = 1, 2,
\* ... and stops at the first empty page.
WalkPages ==
    LET r == Serve(want, size)
    IN  /\ impl = "simple"
        /\ ~done
        /\ resp' = r
        /\ call' = [page |-> want, size |-> size]
        /\ seen' = seen \o r.data
        /\ want' = IF r.data = <<>> THEN want ELSE want + 1
        /\ done' = (r.data = <<>>)
        /\ UNCHANGED <<impl, L, size>>

\* A direct call with any arguments, outside the walk.
Probe(page, ps) ==
    /\ resp' = Serve(page, ps)
    /\ call' = [page |-> page, size |-> ps]
    /\ UNCHANGED <<impl, L, size, want, seen, done>>

\* A new walk from page 1, with a page size of the client's choice.
Restart ==
    /\ done
    /\ size' \in PageSizes
    /\ want' = 1
    /\ seen' = <<>>
    /\ done' = FALSE
    /\ UNCHANGED <<impl, L, resp, call>>

Next ==
    \/ Walk
    \/ WalkPages
    \/ \E page \in ProbePages, ps \in ProbeSizes : Probe(page, ps)
    \/ Restart

Spec == Init /\ [][Next]_vars

-----------------------------------------------------------------------------
\* A get_hyper answer; its page links name pages a call accepts (>= 1).
Hyper == [page : Nat \ {0}, page_size : Nat, total_pages : Nat,
          data : Seq(Nat), prev_page : (Nat \ {0}) \cup {None},
          next_page : (Nat \ {0}) \cup {None}]

Errors == {Raise("AssertionError"), Raise("ZeroDivisionError")}

(***************************************************************************)
(* Types.  Since resp is in Hyper, every next_page and prev_page that      *)
(* get_hyper returns is a page number its asserts accept, so a client that *)
(* follows the links never calls get_hyper with page 0.                    *)
(***************************************************************************)
TypeOK ==
    /\ impl \in Impls
    /\ L \in 0..MaxLen
    /\ size \in PageSizes
    /\ want \in Nat \ {0}
    /\ seen \in Seq(0..(MaxLen - 1))
    /\ done \in BOOLEAN
    /\ resp \in {None} \cup Hyper \cup [data : Seq(Nat)] \cup Errors
    /\ call \in {None} \cup [page : Int, size : Int]

(***************************************************************************)
(* The spec (section 8): index_range(page, page_size) is ((page - 1) *     *)
(* page_size, page * page_size): the loop of 0-simple_helper_function.py   *)
(* and the start + page_size form of 1-simple_pagination.py compute the    *)
(* formula for every page up to the one the walk asks next, and for every  *)
(* valid page a call may ask, at the walk's page size.                     *)
(***************************************************************************)
IndexRangeAgrees ==
    \A page \in 1..want \cup {p \in ProbePages : p >= 1} :
        /\ IndexRangeLoop(page, size) = IndexRangeFormula(page, size)
        /\ IndexRangeSimple(page, size) = IndexRangeFormula(page, size)

(***************************************************************************)
(* The spec's round trip (section 8): a walk that runs to its end (next    *)
(* page None, or an empty page) has received the whole dataset, in order, *)
(* each record once.                                                       *)
(***************************************************************************)
WalkReproducesDataset == done => seen = [i \in 1..L |-> i - 1]

(***************************************************************************)
(* The spec (section 8): total_pages is ceil(len / page_size), next_page   *)
(* is None exactly from the last page on and prev_page exactly on page 1.  *)
(***************************************************************************)
HyperLinksConsistent ==
    resp # None /\ resp \in Hyper =>
        LET total == (L + call.size - 1) \div call.size
        IN  /\ resp.total_pages = total
            /\ (resp.next_page = None) = (resp.page >= total)
            /\ (resp.prev_page = None) = (resp.page = 1)

(***************************************************************************)
(* The spec (section 7): a page or page_size that is not positive fails    *)
(* with InvalidArgument (the asserts of get_page: AssertionError), before  *)
(* anything else, and valid arguments never fail.                          *)
(***************************************************************************)
ArgsRejected ==
    call # None =>
        /\ resp \in Errors <=> ~(call.page >= 1 /\ call.size >= 1)
        /\ resp \in Errors => resp = Raise("AssertionError")
=============================================================================
