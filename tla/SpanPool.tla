------------------------------- MODULE SpanPool -------------------------------
(***************************************************************************)
(* The span layer at page granularity (src/src/span.c): alloc_span and     *)
(* cmalloc_cache_span over the bins of uninitialized spans, the bitmap of  *)
(* non-empty bins, the data chunks, directly mapped spans, and the map     *)
(* from page index to span that cfree looks pointers up in.                *)
(*                                                                         *)
(* Every caller holds the global lock, so an operation is one action.  The *)
(* kernel is `mapped': mmap returns any run of unmapped pages or fails.    *)
(* span_t objects come from the metadata arena: a bump pointer and a LIFO  *)
(* list of freed ones, which keep the fields they had.  `used' is the      *)
(* front end: the spans it has and the size it asked for.                  *)
(*                                                                         *)
(* Abstracted: the trie is a function from pages to spans; addresses are   *)
(* page indices.  Left out: a failed mmap of the metadata arena.           *)
(***************************************************************************)
EXTENDS Integers, Sequences, FiniteSets

CONSTANTS
  NULL,
  PAGE_SIZE,
  SIZE_MAX,                 \* the largest size_t
  DATA_CHUNK_PAGE_COUNT,
  MAX_BINNED_PAGES,
  BITS_PER_WORD,
  LastPage,                 \* the pages mmap can return are 1 .. LastPage
  MapBases,                 \* the pages a mapping can start at
  MaxSpans,                 \* number of span_t objects
  Requests                  \* the sizes the front end asks for

\* A chunk less one page is always binnable: 8192 <= 8193 with 4 KiB pages,
\* 2048 with 16 KiB pages.  Otherwise span.c:162 would drop the remainder.
ASSUME SpanPoolAssumption ==
  /\ PAGE_SIZE \in Nat \ {0}
  /\ SIZE_MAX \in Nat
  /\ (SIZE_MAX + 1) % PAGE_SIZE = 0
  /\ DATA_CHUNK_PAGE_COUNT \in 1 .. SIZE_MAX
  /\ MAX_BINNED_PAGES \in Nat
  /\ DATA_CHUNK_PAGE_COUNT <= MAX_BINNED_PAGES
  /\ BITS_PER_WORD \in Nat \ {0}
  /\ LastPage \in Nat
  /\ MapBases \subseteq 1 .. LastPage
  /\ MaxSpans \in Nat
  /\ Requests \subseteq 1 .. SIZE_MAX
  /\ NULL \notin Int

MAP_FAILED == -1

Pages     == 1 .. LastPage
SpanIds   == 1 .. MaxSpans
BinIndex  == 0 .. MAX_BINNED_PAGES - 1

VARIABLES
  span,                    \* the fields of each span_t
  uninitilized_span_bin,   \* bin heads, by page count (spelt as in the code)
  non_empty_bitmap,        \* words, as the sets of their one bits
  data_arena,              \* the chunks on the list, as <<base, pages>>
  page_map,
  meta_next,               \* span_t objects below it have been carved
  meta_free,               \* freed span_t objects, last freed first
  mapped,                  \* the kernel: mapped pages
  used,                    \* the front end: [span |-> requested size]
  aborted                  \* assert(new) has failed

vars == <<span, uninitilized_span_bin, non_empty_bitmap, data_arena, page_map,
          meta_next, meta_free, mapped, used, aborted>>

-----------------------------------------------------------------------------
(* Page arithmetic and the bitmap of non-empty bins                        *)

\* Seeded fault: rounds down.
RoundUpPageTruncates(num) == num \div PAGE_SIZE

\* round_up_page(num) >> PAGE_SHIFT, in size_t arithmetic.
RoundUpPage(num) ==
  ((num + (PAGE_SIZE - 1)) % (SIZE_MAX + 1)) \div PAGE_SIZE

FREE_BITMAP_WORDS == (MAX_BINNED_PAGES + BITS_PER_WORD - 1) \div BITS_PER_WORD

Words == 0 .. FREE_BITMAP_WORDS - 1
Bits  == 0 .. BITS_PER_WORD - 1

WordIndex(n) == n \div BITS_PER_WORD
BitIndex(n)  == n % BITS_PER_WORD

\* Seeded fault: the bit index is not reduced to the word.
MarkNonEmptyUnmasked(bitmap, n) ==
  [bitmap EXCEPT ![WordIndex(n)] = @ \cup {n}]

MarkNonEmpty(bitmap, n) ==
  [bitmap EXCEPT ![WordIndex(n)] = @ \cup {BitIndex(n)}]

MarkEmpty(bitmap, n) ==
  [bitmap EXCEPT ![WordIndex(n)] = @ \ {BitIndex(n)}]

NO_FITTING == -1

LeastOf(S) == CHOOSE i \in S : \A j \in S : i <= j

\* Seeded fault: the search starts at the word after page_count's.
FindBestFittingSkipsWord(n) ==
  LET hits == {w \in Words : w > WordIndex(n) /\ non_empty_bitmap[w] # {}}
  IN IF hits = {} THEN NO_FITTING
     ELSE LET w == LeastOf(hits)
          IN w * BITS_PER_WORD + LeastOf(non_empty_bitmap[w])

\* The smallest page count >= n whose bin is not empty: the word of n masked
\* from n's bit on, then the later words, and the lowest bit of the first
\* that is not zero.
FindBestFitting(n) ==
  LET masked(w) == IF w = WordIndex(n)
                     THEN {i \in non_empty_bitmap[w] : i >= BitIndex(n)}
                     ELSE non_empty_bitmap[w]
      hits == {w \in Words : w >= WordIndex(n) /\ masked(w) # {}}
  IN IF hits = {} THEN NO_FITTING
     ELSE LET w == LeastOf(hits)
          IN w * BITS_PER_WORD + LeastOf(masked(w))

-----------------------------------------------------------------------------
(* The services alloc_span uses                                            *)

FreshSpan == [base |-> 0, page_count |-> 0, is_initialized |-> FALSE,
              next |-> NULL, phys_next |-> NULL, phys_prev |-> NULL]

\* The next k span_t objects cmalloc_alloc_metadata returns.
MetadataObject(k) ==
  IF k <= Len(meta_free) THEN meta_free[k] ELSE meta_next + k - Len(meta_free) - 1

\* cmalloc_alloc_metadata, called k times.
AllocMetadata(k) ==
  /\ MetadataObject(k) \in SpanIds
  /\ meta_free' = SubSeq(meta_free, k + 1, Len(meta_free))
  /\ meta_next' = IF k <= Len(meta_free) THEN meta_next
                  ELSE meta_next + k - Len(meta_free)

\* The runs mmap may return for n pages.
FreeRuns(n) == {b \in MapBases : b + n - 1 \in Pages
                               /\ \A p \in b .. b + n - 1 : p \notin mapped}

RunOf(b, n) == b .. b + n - 1

\* cmalloc_map_range
MapRange(map, s, b, n) == [p \in Pages |-> IF p \in RunOf(b, n) THEN s ELSE map[p]]

Hand(s, size) == used' = [r \in DOMAIN used \cup {s} |->
                            IF r = s THEN size ELSE used[r]]

Init ==
  /\ span = [s \in SpanIds |-> FreshSpan]
  /\ uninitilized_span_bin = [n \in BinIndex |-> NULL]
  /\ non_empty_bitmap = [w \in Words |-> {}]
  /\ data_arena = {}
  /\ page_map = [p \in Pages |-> NULL]
  /\ meta_next = 1
  /\ meta_free = <<>>
  /\ mapped = {}
  /\ used = [s \in {} |-> 0]
  /\ aborted = FALSE

-----------------------------------------------------------------------------
(* alloc_span, and the fields cmalloc_initialize_span sets in its result   *)

\* A span of MAX_BINNED_PAGES or more gets a mapping of its own.
AllocDirect(size) ==
  LET n == RoundUpPage(size)
      s == MetadataObject(1)
  IN /\ n >= MAX_BINNED_PAGES
     /\ AllocMetadata(1)
     /\ \E b \in FreeRuns(n) :
          /\ mapped' = mapped \cup RunOf(b, n)
          /\ page_map' = MapRange(page_map, s, b, n)
          /\ span' = [span EXCEPT ![s] =
                        [@ EXCEPT !.base = b, !.page_count = n,
                                  !.is_initialized = TRUE]]
     /\ Hand(s, size)
     /\ UNCHANGED <<uninitilized_span_bin, non_empty_bitmap, data_arena, aborted>>

\* The result of that mmap is not compared with MAP_FAILED.  The keys of the
\* pages from MAP_FAILED on, cut to 35 bits, are the last one and those from 0
\* on: for a span of less than 4 GiB, none that mmap returns.
AllocDirectFails(size) ==
  LET n == RoundUpPage(size)
      s == MetadataObject(1)
  IN /\ n >= MAX_BINNED_PAGES
     /\ AllocMetadata(1)
     /\ span' = [span EXCEPT ![s] =
                   [@ EXCEPT !.base = MAP_FAILED, !.page_count = n,
                             !.is_initialized = TRUE]]
     /\ Hand(s, size)
     /\ UNCHANGED <<uninitilized_span_bin, non_empty_bitmap, data_arena,
                    page_map, mapped, aborted>>

\* Seeded fault: the bin is never marked empty.
PopBinKeepsBit(n) ==
  LET rest == span[uninitilized_span_bin[n]].next
  IN [bins |-> [uninitilized_span_bin EXCEPT ![n] = rest],
      bitmap |-> non_empty_bitmap]

\* The bins and the bitmap once the head of bin n is unlinked.
PopBin(n) ==
  LET rest == span[uninitilized_span_bin[n]].next
  IN [bins |-> [uninitilized_span_bin EXCEPT ![n] = rest],
      bitmap |-> IF rest = NULL THEN MarkEmpty(non_empty_bitmap, n)
                                ELSE non_empty_bitmap]

AllocExact(size) ==
  LET n == RoundUpPage(size)
      s == uninitilized_span_bin[n]
  IN /\ n < MAX_BINNED_PAGES
     /\ data_arena # {}
     /\ FindBestFitting(n) = n
     /\ uninitilized_span_bin' = PopBin(n).bins
     /\ non_empty_bitmap' = PopBin(n).bitmap
     /\ span' = [span EXCEPT ![s].is_initialized = TRUE]
     /\ Hand(s, size)
     /\ UNCHANGED <<data_arena, page_map, meta_next, meta_free, mapped, aborted>>

\* Seeded fault: the remainder starts where the whole did.
SplitBaseForgetsOffset(fit, n) == span[fit].base

SplitBase(fit, n) == span[fit].base + n

\* Seeded fault: the span after the remainder still links back to the span
\* that was split.
SplitSpansNoBackLink(fit, split, n, rest, bin) ==
  [s \in SpanIds |->
     CASE s = fit   -> [span[s] EXCEPT !.page_count = n, !.phys_next = split,
                                       !.is_initialized = TRUE]
       [] s = split -> [base |-> SplitBase(fit, n), page_count |-> rest,
                        is_initialized |-> FALSE, next |-> bin,
                        phys_next |-> span[fit].phys_next, phys_prev |-> fit]
       [] OTHER     -> span[s]]

\* fit keeps its first n pages, split gets the rest and goes in front of bin.
SplitSpans(fit, split, n, rest, bin) ==
  [s \in SpanIds |->
     CASE s = fit   -> [span[s] EXCEPT !.page_count = n, !.phys_next = split,
                                       !.is_initialized = TRUE]
       [] s = split -> [base |-> SplitBase(fit, n), page_count |-> rest,
                        is_initialized |-> FALSE, next |-> bin,
                        phys_next |-> span[fit].phys_next, phys_prev |-> fit]
       [] s = span[fit].phys_next -> [span[s] EXCEPT !.phys_prev = split]
       [] OTHER     -> span[s]]

AllocSplit(size) ==
  LET n     == RoundUpPage(size)
      best  == FindBestFitting(n)
      fit   == uninitilized_span_bin[best]
      split == MetadataObject(1)
      rest  == best - n
      pop   == PopBin(best)
  IN /\ n < MAX_BINNED_PAGES
     /\ data_arena # {}
     /\ best > n
     /\ AllocMetadata(1)
     /\ span' = SplitSpans(fit, split, n, rest, pop.bins[rest])
     /\ uninitilized_span_bin' = [pop.bins EXCEPT ![rest] = split]
     /\ non_empty_bitmap' = MarkNonEmpty(pop.bitmap, rest)
     /\ page_map' = MapRange(page_map, split, SplitBase(fit, n), rest)
     /\ Hand(fit, size)
     /\ UNCHANGED <<data_arena, mapped, aborted>>

NeedsChunk(n) ==
  /\ n < MAX_BINNED_PAGES
  /\ data_arena = {} \/ FindBestFitting(n) = NO_FITTING

\* Seeded fault, once real: a chunk that does not grow with the request.
ChunkPagesFixed(n) == DATA_CHUNK_PAGE_COUNT

ChunkPages(n) == IF n > DATA_CHUNK_PAGE_COUNT THEN n ELSE DATA_CHUNK_PAGE_COUNT

\* fit gets the first n pages of the chunk at b, split the rest, if it is not
\* NULL.
ChunkSpans(fit, split, b, n, rest) ==
  [s \in SpanIds |->
     CASE s = fit   -> [base |-> b, page_count |-> n,
                        is_initialized |-> TRUE, next |-> NULL,
                        phys_next |-> split, phys_prev |-> NULL]
       [] s = split -> [base |-> b + n, page_count |-> rest,
                        is_initialized |-> FALSE,
                        next |-> uninitilized_span_bin[rest],
                        phys_next |-> NULL, phys_prev |-> fit]
       [] OTHER     -> span[s]]

\* A fresh chunk: the span at its start, and one for the pages that remain.
AllocChunk(size) ==
  LET n    == RoundUpPage(size)
      rest == ChunkPages(n) - n
      fit  == MetadataObject(1)
      more == rest > 0 /\ rest < MAX_BINNED_PAGES
      split == IF more THEN MetadataObject(2) ELSE NULL
  IN /\ NeedsChunk(n)
     /\ AllocMetadata(IF more THEN 2 ELSE 1)
     /\ \E b \in FreeRuns(ChunkPages(n)) :
          /\ mapped' = mapped \cup RunOf(b, ChunkPages(n))
          /\ data_arena' = data_arena \cup {<<b, ChunkPages(n)>>}
          /\ span' = ChunkSpans(fit, split, b, n, rest)
          /\ page_map' =
               LET map == MapRange(page_map, fit, b, n)
               IN IF more THEN MapRange(map, split, b + n, rest) ELSE map
     /\ uninitilized_span_bin' =
          IF more THEN [uninitilized_span_bin EXCEPT ![rest] = split]
                  ELSE uninitilized_span_bin
     /\ non_empty_bitmap' =
          IF more THEN MarkNonEmpty(non_empty_bitmap, rest) ELSE non_empty_bitmap
     /\ Hand(fit, size)
     /\ UNCHANGED aborted

\* The mmap of a chunk fails: alloc_span returns NULL, assert(new) fails.
AllocChunkFails(size) ==
  /\ NeedsChunk(RoundUpPage(size))
  /\ aborted' = TRUE
  /\ UNCHANGED <<span, uninitilized_span_bin, non_empty_bitmap, data_arena,
                 page_map, meta_next, meta_free, mapped, used>>

-----------------------------------------------------------------------------
(* cmalloc_cache_span                                                      *)

Unhand(s) == used' = [r \in DOMAIN used \ {s} |-> used[r]]

\* The span and its mapping, if it has one, go away.  The free list links freed objects
\* through their first word, which is phys_next in a span_t.
CacheDirect(s) ==
  LET run == IF span[s].base = MAP_FAILED THEN {}
             ELSE RunOf(span[s].base, span[s].page_count)
  IN /\ span[s].page_count >= MAX_BINNED_PAGES
     /\ page_map' = [p \in Pages |-> IF p \in run THEN NULL ELSE page_map[p]]
     /\ mapped' = mapped \ run
     /\ span' = [span EXCEPT ![s].phys_next =
                   IF meta_free = <<>> THEN NULL ELSE Head(meta_free)]
     /\ meta_free' = <<s>> \o meta_free
     /\ Unhand(s)
     /\ UNCHANGED <<uninitilized_span_bin, non_empty_bitmap, data_arena,
                    meta_next, aborted>>

CacheBinned(s) ==
  LET n == span[s].page_count
  IN /\ n < MAX_BINNED_PAGES
     /\ span' = [span EXCEPT ![s] =
                   [@ EXCEPT !.is_initialized = FALSE,
                             !.next = uninitilized_span_bin[n]]]
     /\ uninitilized_span_bin' = [uninitilized_span_bin EXCEPT ![n] = s]
     /\ non_empty_bitmap' = MarkNonEmpty(non_empty_bitmap, n)
     /\ Unhand(s)
     /\ UNCHANGED <<data_arena, page_map, meta_next, meta_free, mapped, aborted>>

-----------------------------------------------------------------------------

Alloc(size) ==
  \/ AllocDirect(size) \/ AllocDirectFails(size)
  \/ AllocExact(size)
  \/ AllocSplit(size)
  \/ AllocChunk(size) \/ AllocChunkFails(size)

Cache(s) == CacheDirect(s) \/ CacheBinned(s)

Next ==
  \/ /\ ~aborted
     /\ \/ \E size \in Requests : Alloc(size)
        \/ \E s \in DOMAIN used : Cache(s)
  \/ aborted /\ UNCHANGED vars

Spec == Init /\ [][Next]_vars

-----------------------------------------------------------------------------
(* Properties                                                              *)

SpanOrNull == SpanIds \cup {NULL}

\* The types of the variables.
TypeOK ==
  /\ span \in [SpanIds -> [base : Pages \cup {0, MAP_FAILED},
                           page_count : 0 .. SIZE_MAX,
                           is_initialized : BOOLEAN,
                           next : SpanOrNull,
                           phys_next : SpanOrNull,
                           phys_prev : SpanOrNull]]
  /\ uninitilized_span_bin \in [BinIndex -> SpanOrNull]
  /\ non_empty_bitmap \in [Words -> SUBSET Bits]
  /\ data_arena \subseteq Pages \X Pages
  /\ page_map \in [Pages -> SpanOrNull]
  /\ meta_next \in 1 .. MaxSpans + 1
  /\ meta_free \in Seq(SpanIds)
  /\ mapped \subseteq Pages
  /\ DOMAIN used \subseteq SpanIds
  /\ \A s \in DOMAIN used : used[s] \in Requests
  /\ aborted \in BOOLEAN

PagesOf(s) == RunOf(span[s].base, span[s].page_count)

\* The span_t objects in existence, and those that wait to be reused.
Objects == (1 .. meta_next - 1) \ {meta_free[i] : i \in DOMAIN meta_free}
Idle    == Objects \ DOMAIN used

\* The objects with pages: all but those of a failed direct mapping.
Backed  == {s \in Objects : span[s].base # MAP_FAILED}

\* cfree finds the span of any pointer, and no page is lost: the map sends
\* every mapped page to the one span, used or idle, that has it, and every
\* other page to NULL, through every split, reuse and unmapping.
PageMapExact ==
  /\ \A p \in Pages : page_map[p] = NULL <=> p \notin mapped
  /\ \A p \in mapped : p \in PagesOf(page_map[p])
  /\ \A s \in Backed : \A p \in PagesOf(s) : p \in Pages /\ page_map[p] = s

\* The spans reached from the head of bin n in at most MaxSpans links.
OnBin(n) ==
  LET walk[k \in Nat] ==
        IF k = 0 THEN {uninitilized_span_bin[n]} \ {NULL}
        ELSE walk[k-1] \cup ({span[s].next : s \in walk[k-1]} \ {NULL})
  IN walk[MaxSpans]

\* Bin n lists exactly the idle spans of n pages, so none is lost and none is
\* found twice, and the bitmap has a bit for each bin that is not empty and
\* no other, so its search never yields a bin without a head (span.c:103).
PageBinsExact ==
  /\ \A n \in BinIndex : OnBin(n) = {s \in Idle : span[s].page_count = n}
  /\ \A s \in Objects : span[s].is_initialized <=> s \in DOMAIN used
  /\ \A w \in Words, i \in Bits :
       i \in non_empty_bitmap[w] <=>
         \E n \in BinIndex : /\ n = w * BITS_PER_WORD + i
                             /\ uninitilized_span_bin[n] # NULL

\* Inside a chunk phys_next and phys_prev link exactly the neighbours by
\* address, whatever the span_t object was used for before: a split writes
\* through phys_next (span.c:127).
PhysLinksExact ==
  \A chunk \in data_arena : \A s \in Objects :
    PagesOf(s) \subseteq RunOf(chunk[1], chunk[2]) =>
      LET end == span[s].base + span[s].page_count
      IN /\ IF end = chunk[1] + chunk[2]
              THEN span[s].phys_next = NULL
              ELSE /\ span[s].phys_next \in Objects
                   /\ span[span[s].phys_next].base = end
                   /\ span[span[s].phys_next].phys_prev = s
         /\ span[s].base = chunk[1] <=> span[s].phys_prev = NULL

\* A span is at least as long as its request (common.h:123).
FitsRequest ==
  \A s \in DOMAIN used : used[s] <= span[s].page_count * PAGE_SIZE

\* A span in use lies in mapped memory, so that the pointer the caller gets
\* is "pointer to allocated memory" (cmalloc.h:16).
UsedSpansMapped == \A s \in DOMAIN used : PagesOf(s) \subseteq mapped

\* A binnable request takes the shortest binned span that is long enough, and
\* memory is mapped for it only if no binned span is (README.md:148).
BestFit ==
  [][\A s \in DOMAIN used' \ DOMAIN used :
       span'[s].page_count < MAX_BINNED_PAGES =>
         \A r \in Idle :
           span[r].page_count >= span'[s].page_count =>
             s \in Idle /\ span[s].page_count <= span[r].page_count]_vars

\* The spans in use whose mapping did not fail, by their span_t objects, and
\* what was asked for.
RunsInUse == [s \in DOMAIN used \cap Backed |->
                <<span[s].base, span[s].base + span[s].page_count - 1, used[s]>>]

Heap == INSTANCE PageHeap WITH Handles <- SpanIds, runs <- RunsInUse

\* The span layer implements the page heap the front end relies on.
ImplementsPageHeap == Heap!Spec

-----------------------------------------------------------------------------
(* The inductive invariant, which SpanPoolProofs proves for requests that  *)
(* round_up_page does not wrap                                             *)

NoWrap == \A size \in Requests : size + (PAGE_SIZE - 1) <= SIZE_MAX

\* A freed object is on the list once, and no object in use is.
MetaInv ==
  /\ \A i \in DOMAIN meta_free : meta_free[i] < meta_next
  /\ \A i, j \in DOMAIN meta_free : meta_free[i] = meta_free[j] => i = j
  /\ DOMAIN used \subseteq Objects

\* The objects but for failed direct mappings share out the mapped pages.
RunInv ==
  /\ \A s \in Objects : span[s].page_count >= 1
  /\ \A s \in Backed : \A p \in PagesOf(s) : p \in Pages /\ page_map[p] = s
  /\ \A p \in Pages : IF p \in mapped
                        THEN page_map[p] \in Backed /\ p \in PagesOf(page_map[p])
                        ELSE page_map[p] = NULL

InChunk(s, c) == PagesOf(s) \subseteq RunOf(c[1], c[2])

\* A span lies in a chunk, or outside all of them with a mapping of its own.
ChunkInv ==
  /\ \A c \in data_arena : RunOf(c[1], c[2]) \subseteq mapped
  /\ \A s \in Objects : span[s].page_count < MAX_BINNED_PAGES =>
       s \in Backed /\ \E c \in data_arena : InChunk(s, c)
  /\ \A s \in Backed, c \in data_arena :
       \/ InChunk(s, c) /\ span[s].page_count < MAX_BINNED_PAGES
       \/ PagesOf(s) \cap RunOf(c[1], c[2]) = {}

IdleOf(n) == {s \in Idle : span[s].page_count = n}

\* l lists the spans of S once each, in the order of their links.
Lists(l, k, sp, S) ==
  /\ S = {l[i] : i \in 1 .. k}
  /\ \A i, j \in 1 .. k : l[i] = l[j] => i = j
  /\ \A i \in 1 .. k : sp[l[i]].next = IF i = k THEN NULL ELSE l[i + 1]

\* The next links in sp chain the spans of S, from the head of a bin.
Chain(head, sp, S) ==
  \E k \in 0 .. MaxSpans : \E l \in [1 .. k -> SpanIds] :
    Lists(l, k, sp, S) /\ head = IF k = 0 THEN NULL ELSE l[1]

BitmapExact(bitmap, bins) ==
  \A w \in Words, i \in Bits :
    i \in bitmap[w] <=> /\ w * BITS_PER_WORD + i \in BinIndex
                       /\ bins[w * BITS_PER_WORD + i] # NULL

BitmapInv == BitmapExact(non_empty_bitmap, uninitilized_span_bin)

IdleInv ==
  /\ \A n \in BinIndex : Chain(uninitilized_span_bin[n], span, IdleOf(n))
  /\ BitmapInv
  /\ \A s \in Objects : span[s].is_initialized <=> s \in DOMAIN used
  /\ \A s \in Idle : span[s].page_count < MAX_BINNED_PAGES

PoolInv ==
  /\ MetaInv /\ RunInv /\ ChunkInv /\ PhysLinksExact /\ IdleInv /\ FitsRequest
=============================================================================
