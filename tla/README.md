# Verification of alx-backend: caching and pagination

This directory holds TLA+ models of the two algorithmic parts of the
repository, the key/value caches of `src/0x01-caching` and the pagination
servers of `src/0x00-pagination` and `src/`. It also holds the TLC
configurations that model-check them and TLAPS proofs of every safety
property the passing runs check: the FIFO cache's invariants and its
refinement of BasicCache, the pagination servers' invariants, and the
invariants and the action property of the deletion-resilient paginator. `PROJECT.json` lists the components, the runs, the mutants (faults
each property must detect), the map from every definition to the lines it
models, the findings, the hazards and the theorems.

## 1. The system

| Part | Source | State | Operations |
|---|---|---|---|
| BaseCaching | `base_caching.py` (not in `src/`; from the spec) | `cache_data` dict, class constant `MAX_ITEMS` (4) | `print_cache` (output only) |
| BasicCache | `src/0x01-caching/0-basic_cache.py` | `cache_data` | `put`, `get` |
| FIFOCache | `src/0x01-caching/1-fifo_cache.py` | `cache_data`, `order` list | `put` (skip / insert / overwrite / evict), `get` |
| Deletion-resilient paginator | `src/0x00-pagination/3-hypermedia_del_pagination.py` | `__dataset`, `__indexed_dataset` (lazy, cached) | `dataset`, `indexed_dataset`, `get_hyper_index` |
| Page-number pagination, 0x00 hypermedia | `src/0x00-pagination/2-hypermedia_pagination.py` | `__dataset` | `index_range`, `get_page`, `get_hyper` |
| Page-number pagination, 0x00 simple | `src/0x00-pagination/1-simple_pagination.py` | `__dataset` | `index_range` (start + page_size), `get_page` |
| Page-number pagination, root | `src/2-hypermedia_pagination.py` (with the loop `index_range` of `0-simple_helper_function.py`) | `__dataset` | `get_page`, `get_hyper` |
| Root `src/1-simple_pagination.py` | truncated in the middle of `get_page`; does not parse | none | none |
| i18n Flask apps | `src/0x02-i18n/*` | request context | locale and timezone selection |

The parts do not call each other. Each is driven by one client in one
process, and the code has no threads or locks, so interleaving happens
between calls and never inside one. Two things make the system hard.
- In the caches, it is the order of puts: overwrites, evictions and
  re-insertions.
- In the resilient paginator, it is deletions from the cached index that
  happen between two calls of a client walking the pages with `next_index`.

## 2. Modules

| Module | Models |
|---|---|
| `BasicCache` | `BasicCache.put` as two disjuncts (skip when key or item is None; store) and `get`. |
| `FIFOCache` | `FIFOCache.put` as four actions, `PutSkip`, `PutInsert`, `PutEvict` and `PutKeyError` (line 30 raising because `order[0]` is a stale duplicate). `discarded` is the key the `DISCARD:` line printed, and `exc` is the exception raised. `order` grows with every append, so `ORDER_BOUND` caps the appends in the guard of `PutInsert`. `UnboundedIsBasic` instantiates `BasicCache` on the same dictionary. |
| `AbstractFIFO` | The spec's FIFO contract (section 4.1). An overwrite keeps the queue, an insert below capacity appends, and an insert at capacity evicts the head of the queue. |
| `MC_FIFOCache` | Instantiates the cache with model values. It maps FIFOCache onto `AbstractFIFO`: the abstract queue is the live keys in the order of their first occurrence in `order`. |
| `FIFOCacheProofs` | The TLAPS proofs (section 5). |
| `DelPagination` | `indexed_dataset` (built once, on the first call) and the `while` loop and response of `get_hyper_index`. The loop is modelled by its exit cursor `LoopExit`: the first cursor at which `len(data) < page_size and current_index < len(indexed_data)` is false. The page is `InKeyOrder` of the keys the loop collected: the cursor only increases, so the loop appends them in increasing order, and the i-th record is the key with i - 1 smaller keys. Around it are a client that follows `next_index` (`Request`), starts a new walk (`Restart`) and deletes keys of the cached index between calls (`Delete`). A record is its position. |
| `Pagination` | The three page-number servers, chosen by `impl`. `IndexRangeFormula` models the 0x00 formula, `IndexRangeSimple` the start + page_size form, and `IndexRangeLoop` the loop, as a recursive function. `PageArgsValid` models the asserts of `get_page` and `AssertPositive` the root file's `assert_positive_integer_type`. `GetPage`, `ServeSimple`, `GetHyper00` (ceil) and `GetHyperRoot` (`len // page_size + 1`, computed before the asserts) model the calls, each answering a dictionary or raising an exception (`Raise`). A client walks with `next_page` (`Walk`), or asks the simple server page after page until one is empty (`WalkPages`). It also calls with any arguments, valid or not (`Probe`), and restarts. |
| `PaginationProofs` | The TLAPS proofs about the three page-number servers (section 5). |
| `DelPaginationProofs` | The TLAPS proofs about `get_hyper_index` and its client (section 5). |

The map in `PROJECT.json` gives the lines behind each definition. The client
actions (`Request`, `Walk`, `WalkPages`, `Probe`, `Restart`, `Delete`, and
`Serve`, the call on the chosen server) model the caller
the spec describes (sections 3, 4.2 and 8), so the map marks them
`spec_modelled`.

## 3. Runs

| Run | Checks | Expect | Shows |
|---|---|---|---|
| `fifo_safety` | TypeOK, CapacityBound, LiveInOrder, FullAfterEviction | pass | capacity is respected, a live key is always listed in `order`, and the cache stays full after its first eviction |
| `fifo_unbounded` | UnboundedIsBasic | pass | when capacity covers every key, FIFOCache refines BasicCache |
| `fifo_contract` | FIFOContract | violation | FIFOCache does not refine the spec's FIFO (finding 1) |
| `fifo_keyerror` | NoKeyError | violation | put raises KeyError (finding 2) |
| `del_walk_safety` | TypeOK, SeenInOrder, PageFullUnlessLast, CursorAdvances | pass | even with deletions between calls, no record is repeated or out of order, only the last page is short, and every call moves `next_index` forward (an action property) |
| `del_walk_liveness` | WalkTerminates | pass | a walk with a positive page size ends |
| `del_complete` | WalkComplete | violation | a walk misses never-deleted records (finding 3) |
| `del_zero_size` | WalkTerminates | violation | page_size 0 makes the walk endless (finding 4) |
| `pagination_walk` | TypeOK, IndexRangeAgrees, WalkReproducesDataset | pass | for the three servers, every page link is a valid page number, the loop and start + page_size forms equal the formula, and a walk returns the dataset exactly once, in order (finding 7) |
| `hyper_links_0x00` | ArgsRejected, HyperLinksConsistent | pass | on the 0x00 servers a page or page size of -1 or 0 raises AssertionError and valid arguments never fail; the 0x00 `get_hyper` metadata is right |
| `hyper_links_root` | HyperLinksConsistent | violation | the root `total_pages` is wrong (finding 5) |
| `root_args` | ArgsRejected | violation | page size 0 makes the root `get_hyper` raise ZeroDivisionError (finding 6) |

Findings:
1. `1-fifo_cache.py:32` appends to `order` on every put, overwrites
   included. TLC's trace, 5 puts of 3 keys at capacity 2: puts of a, b
   and a (an overwrite that appends a second `a`) give `order` =
   `<<a, b, a>>`; the put of c evicts the head `a` and leaves the stale
   copy, so `order` = `<<b, a, c>>`; putting a again evicts b, the oldest
   key present, and gives `order` = `<<a, c, a>>`. Each eviction so far hit
   the oldest key, but the stale copy now ranks a ahead of c although c
   was put earlier: the spec's queue is `[c, a]`, the code's eviction
   order is `[a, c]`. TLC reports the violation at this step, where the
   two orders part; the next put of a new key would evict a, the newest
   key, instead of c.
2. In the trace a, a, b, c, a, the stale head `a` makes line 30 raise
   KeyError. The state is left unchanged, so every later put of a new key
   into the full cache raises again.
3. `3-hypermedia_del_pagination.py:127` bounds the loop by
   `len(indexed_data)`, the number of keys left, rather than the highest
   position. With N = 5 and page size 2, TLC's trace takes the first page
   `<<0, 1>>`, deletes 0, then gets `<<2, 3>>`: the loop stops at cursor
   4 = `len(indexed_data)`, `next_index` is None and record 4 is never
   returned.
4. `get_hyper_index` has no page_size validation. The spec (4.2, 7) demands
   InvalidArgument for non-positive sizes.
5. `src/2-hypermedia_pagination.py:112` gives `total_pages` = 1 for an empty
   dataset and one too many whenever len is a multiple of page_size. In
   those cases `next_page` points past the data.
6. The same line divides by `page_size` before `get_page` runs
   `assert_positive_integer_type`. So `get_hyper(1, 0)` raises
   ZeroDivisionError, not the argument error the spec (section 7) requires
   and every other bad argument gets.
7. `0x00-pagination/1-simple_pagination.py:70`: the `get_page` docstring
   says a page beyond the data raises IndexError; lines 79-80 return `[]`.
   The simple server has no `next_page`, so a client learns that the data
   has ended only from that empty page: `WalkPages` stops on it, and
   `pagination_walk` shows that the walk then holds the whole dataset
   (`WalkReproducesDataset`). The model follows the code; a `get_page`
   that raised as documented would end every such walk in an exception.

The spec also disagrees with itself. Its section 8 example ("A,B,C at
capacity 3, overwrite A, insert D evicts B") contradicts section 4.1, where
an overwrite leaves the order untouched and A stays the oldest. The code
evicts A. `AbstractFIFO` follows 4.1. The docstring's "first 1000 entries"
truncation is not implemented: the index covers the whole dataset, as the
model does.

### Bounds

- **FIFO cache:**
  - The runs use 3 keys, 2 items and capacity 2, with up to 6 appends to
    `order`. Every branch of put happens: skip, insert, overwrite, eviction
    and KeyError. The two violations need 5 steps.
  - `fifo_unbounded` uses capacity 3, so no eviction is possible.
  - Keys and items are symmetric model values.
- **Resilient paginator:** N = 5 and page sizes {1, 2, 3}. These allow
  walks of 1 to 5 pages, deletions before, inside and after the current
  page, and deletions of the first and the last record. `del_zero_size`
  uses {0, 2}.
- **Page-number pagination:** datasets of 0..6 records, walk page sizes
  1..4, and direct calls of pages and page sizes 0..4 (-1..4 in
  `hyper_links_0x00`). These cover the
  empty dataset, lengths that are and are not multiples of the size, pages
  past the end and a zero argument. `root_args` uses -1..2 for both arguments
  and datasets of up to 4 records. Each bad argument fails the
  same way for any length.

### Fairness

Only `DelPagination` has fairness: `WF_vars(Request)`, the client loop that
keeps calling while `next_index` is not None. Deletions and restarts are
environment choices, so they get no fairness, and the walk must end however
they interleave. The caches and `Pagination` are checked only for safety.

## 4. Mutants

Each property of a passing run is checked against a plausible fault in the
code it is about, defined in the module just before the definition it
replaces. The faults include:
- `>` for `>=` at the eviction test, and an eviction test one entry early;
- popping the last element of `order`, and dropping the `item is None` test;
- `range(len + 1)`, a next page one record back, a loop that starts at 0
  whatever `index` is, and `<=` at the loop end;
- a loop counting positions instead of records, and an extra loop turn;
- `<` for `<=` in the root `next_page`, `<=` in the 0x00 `next_page`, a
  0x00 `prev_page` of `page - 1` without the `page > 1` test (a link to
  page 0), and an assert on the page size only.

TLC finds each property violated under its own cfg once its fault is in
place.

## 5. Proofs

`FIFOCacheProofs` proves, for every finite key set, every item set and every
`MAX_ITEMS >= 1`, that `Spec => []TypeOK`, `[]CapacityBound`,
`[]LiveInOrder` and `[]FullAfterEviction` (theorems `TypeCorrect`,
`Capacity`, `LiveListed` and `FullOnceEvicted`).

None of these is inductive alone. The eviction branch needs `order` to be
non-empty, and that holds because every live key is listed in it
(`LiveInOrder`) and a full cache is non-empty. The count after an eviction
is `MAX_ITEMS` only because it was at most `MAX_ITEMS` before
(`CapacityBound`). So `IInv` is the conjunction of all four. TLC checks it
as the invariants of `fifo_safety`.

The proof shows `Init => IInv`, and that each of the four put actions
preserves `IInv` (one lemma per action). It rests on lemmas about `Store`
and `Delete` and on `SwapCardinality`: replacing a member of a finite set by
a non-member keeps its cardinality. `HeadExists` shows that the eviction
branch has a head.

`FIFOCacheProofs` also proves `Unbounded`: if `MAX_ITEMS >=
Cardinality(Keys)`, then `Spec => UnboundedIsBasic`. `NeverEvicts` shows
that the eviction test of line 28 cannot hold. A new key and the keys
present all lie in `Keys`, so there are fewer than `MAX_ITEMS` keys
present. Every step of FIFOCache is then a BasicCache step: a skip is a
stutter and an insertion is the same store. The proof uses `IInv` for the
type of the dictionary.

`PaginationProofs` proves `LinksCorrect00`: if `Impls` is a subset of
{"0x00", "simple"} (the configuration of `hyper_links_0x00`), then
`Spec => []HyperLinksConsistent`, for every dataset length and every page
size.
- `HyperLinksConsistent` speaks of the last answer alone, so it is not
  inductive. Its strengthening `LinksInv` says that the last answer is an
  exception, or a `{data}` dictionary of the simple server, or has the link
  fields (`LinksOf`) of `get_hyper` for the last call's arguments, and that
  those arguments were positive.
- `CeilDiv` is the arithmetic: with `t = (n + s - 1) \div s`, the product
  `p * s` is below `n` exactly when `p < t`.
- Calls with invalid arguments raise AssertionError (`Answer00`), and an
  exception is not a `get_hyper` dictionary (`ErrorNotHyper`).

`PaginationProofs` also proves `ArgsRejectedFirst`: when `Impls` is a
subset of {"0x00", "simple"}, `Spec => []ArgsRejected`, for every dataset
length and all call arguments. The strengthening `ArgsInv` adds the types
of the last call's arguments. `AnswerArgs` shows that both servers raise
AssertionError exactly on a page or page size below 1. The root server is
excluded because there the property is false (finding 6).

For all three servers, with no hypothesis on `Impls`, `PaginationProofs`
proves:
- `IndexRangeLoopValue`: the loop `index_range` of
  `0-simple_helper_function.py` (the recursive function `IndexRangeLoop`)
  returns `((page - 1) * ps, page * ps)` for every page >= 1 and every
  `ps`. This needs no induction theorem with an operator parameter. The
  formula's pairs satisfy the function's defining equation, so a solution
  exists. Any solution equals them: a least index where it would differ
  (`LeastNatural`) is computed from the previous index, where the two
  agree.
- `IndexRangeCorrect`: `Spec => []IndexRangeAgrees`. It follows from
  `IndexRangeLoopValue` and the type invariant.
- `WalkCompleteAll`: `Spec => []WalkReproducesDataset`. The invariant
  `WalkInv` says that a walk that has not ended has received
  `Records(min((want - 1) * size, L))`, the records of the pages before the
  one it asks next. `RecordsSlice` and `PageStep` show that a page appends
  the next slice of records (`IndexRangeAll` gives the slice bounds of each
  server), and `FirstPageStart` covers a restart. On the root server,
  `len // page_size + 1` may be one page too many; `RootLastPage` shows
  that a page without a successor has already reached len, so the walk
  still ends with the whole dataset.
- `TypeCorrectPages`: `Spec => []TypeOK`, with `TypeInv == TypeOK /\
  WalkInv`. The received records are positions because of `WalkInv`
  (`SeenOfWalk`). Every answer to every argument is a dictionary, a list or
  an exception (`ServeType`, through `Hyper00Type`, `HyperRootType` and
  `GetPageType`); in every `get_hyper` answer, `page`, `prev_page` and
  `next_page` are page numbers >= 1 or None, so a client following the
  links never sends page 0.

`DelPaginationProofs` proves, for every dataset size N:
- `PagesFull`: if the page sizes are non-negative, `Spec =>
  []PageFullUnlessLast`. A negative page size breaks it: the loop does not
  run, and the empty page comes with `next_index` 0. TLC confirms this. The
  invariant `PageInv` adds that the index keys are positions.
  `LoopExitFacts` gives the facts of the first exit cursor: it exists
  (`LeastNat`, the least-element principle of `WellFoundedInduction`), the
  loop condition fails there, and it holds at every smaller cursor.
- `CursorAdvancesProved`: if the page sizes are positive, `Spec =>
  CursorAdvances`. Every call returns a `next_index` above the index it was
  given. With page size 0, `next_index` equals `index`, which is finding 4.
- `SeenSorted`: `Spec => []SeenInOrder`, for every set of page sizes. The
  invariant `OrderInv` adds that every record received is below the cursor
  `want`, and that a walk which has not asked yet has received nothing.
  Without that, a page could be sorted and still start below the end of the
  previous one. `PageData` shows that a page lies in `[index, next_index)`
  and is increasing (`InKeyOrderFacts`, through `Rank`). `IncreasingConcat`
  then shows that the concatenation stays increasing.
- `TypeCorrectDel`: `Spec => []TypeOK`, from the same invariant.

Each strengthening (`LinksInv`, `ArgsInv`, `WalkInv`, `PageInv`, `OrderInv`) was first
checked by TLC as an invariant on the runs' bounds, with page sizes of 0
and below for the `DelPagination` ones, before it was proved.
`SetToSortSeq` (a `CHOOSE` over `Permutations`) was replaced in the model by
`InKeyOrder`. Both give the same sequence, and the runs' state counts did
not change. The prover cannot see into `Permutations`.

Every invariant and action property of the passing runs is now stated by
a theorem. TLC alone checks the rest:
- liveness (`WalkTerminates`), because the prover does not handle fairness
  or `ENABLED`.
- the violation runs (`FIFOContract`, `NoKeyError`, `WalkComplete`,
  `HyperLinksConsistent` and `ArgsRejected` on the root server,
  `WalkTerminates` with page size 0). TLC shows them false with a counterexample, so there is
  nothing to prove.

## 6. Not modelled

- The i18n Flask apps, outside the spec's scope. `0-app.py` only renders a
  template. In `app.py`, every request raises NameError in
  `before_request` (line 62), because `datetime` is not imported. So the
  locale and timezone selectors never run, and a model would only restate
  that first failure. The code also has latent faults behind it: `pytz` is
  not imported, `get_timezone` dereferences `g.user` when it is None, and
  `login_as` is a string looked up against int keys.
- CSV loading and parsing (`dataset`), which is I/O. The dataset is a
  constant list of positions.
- The truncated root `src/1-simple_pagination.py`.
- `print_cache` and the wording of the `DISCARD:` line. Only the key it
  prints is kept.
- Non-integer arguments. The asserts reject them too, but the model's
  arguments are integers.
- The snapshot of `DelPagination` is never rebuilt, by design (spec 4.2).
  The dataset is a constant, so rows the CSV gains or loses after the
  first call are outside the model.

## 7. Plan for later work

- State an abstract walk (the dataset handed out page by page) and prove
  that each server's `Walk` or `WalkPages` refines it, which would turn
  `WalkCompleteAll` into a refinement theorem.
- State an LRU-ready abstract eviction strategy, if more cache policies
  appear in the source.
