# Specifications of FastMemoryAllocator

TLA+ modules for the allocator in `src/` (`cmalloc.c`, `common.h`, `span.h`,
`span.c`, `range_map.c`, `metadata.c`) and for the malloc shim in `bench/`, TLC configurations that check them on small
instances, and TLAPS proofs of the results that hold for every size. Paths in
this file are relative to the repository's source tree, which PROJECT.json
names `src/`; the library's own sources are in `src/src/`.

    tlc -config MCCmalloc.cfg MCCmalloc      # model-check a module
    tlapm SpanBlocksProofs.tla               # check its proofs

## The system

A process-wide allocator behind four calls: `cmalloc`, `cfree`, `ccalloc`,
`crealloc`. Memory comes from the kernel in 32 MiB chunks, is cut into spans
(runs of pages), and a span is cut into equal blocks of one of 48 size
classes, or is one large block.

| component | source | state | operations | used by |
|---|---|---|---|---|
| front end | `cmalloc.c` | a bin of non-full spans for each thread and size class (`_Thread_local`), one mutex | `cmalloc`, `cfree`, `ccalloc`, `crealloc`, `bin_push`, `bin_remove` | the program |
| span block bitmap | `span.h`, `span.c:199-240` | `free_count`, `nonfull_bitmap`, `block_bitmap` of each span | `allocate_block`, `free_block`, the set-up in `cmalloc_initialize_span` | front end, without the lock |
| span layer | `span.c` | bins of uninitialized spans by page count, the bitmap of non-empty bins, the list of chunks, neighbour links | `alloc_span`, `cmalloc_cache_span`, `cmalloc_get_span` | front end, under the lock but for `cmalloc_get_span` |
| page map | `range_map.c` | a three-level trie from page index to span | `cmalloc_map(_range)`, `cmalloc_unmap(_range)`, `cmalloc_get` | span layer, metadata arena |
| metadata arena | `metadata.c` | a bump pointer, and a free list for each object size, kept in a trie of its own | `cmalloc_alloc_metadata`, `cmalloc_free_metadata` | span layer, page map |
| size classes | `common.h:53-145`, `cmalloc.c:18-47` | page size, lookup table from size to class | `cmalloc_runtime_init`, `get_size_class_index` | front end |
| page and alignment arithmetic | `common.h:108-173` | none | `round_up_page`, `round_down_page_index`, `align_up_ptr`, ... | span layer, metadata arena |
| benchmark shim | `bench/shim/` | none | `shim_malloc`, `shim_memalign`, `cm_usable`, ... | benchmarks |

How they interact:

* `cmalloc` takes a block from the head of its thread's bin with no lock. With
  an empty bin, or for a large size, it takes the lock and asks the span layer
  for a span. `cfree` finds the span by the page map with no lock, marks the
  block free with no lock, and takes the lock only to give an empty span back.
* The span layer looks for the shortest idle span that is long enough, splits
  it if it is longer, and maps a new chunk if there is none. A span of
  `MAX_BINNED_PAGES` pages or more has a mapping of its own.
* The page map and the metadata arena need each other: trie nodes are metadata
  objects, and the free lists of metadata are in a trie.
* The shim puts `malloc`, `realloc`, `posix_memalign` and the rest on top of
  the four calls. It moves a pointer inside its block to align it, and relies
  on `cfree` to find the block by division.

What is hard about it:

* Everything but the span layer runs without a lock. It is right only because
  a span belongs to one thread, and nothing in the code checks that
  (`cmalloc.c:119`, `:123`).
* A span is on a bin, full and on none, or in the pool, and three tests of
  `free_count` (`cmalloc.c:84`, `:118`, `:122`) decide which. Each has to agree
  with the bookkeeping that follows it.
* A `span_t` is reused for other block counts, other pages and, through the
  metadata arena, other spans; its old fields stay in it.
* The bins, the bitmap over them, the page map and the neighbour links say the
  same thing four times and are updated by hand on each path of `alloc_span`.
* `cmalloc_get` reads the trie while another thread, under the lock, links a
  node before it clears it and releases a node before it unlinks it.
* Releasing a metadata object may itself allocate one, and the free list's link
  is written into an object the page map still points to.
* Arithmetic at the edges: partial last words, a search that begins in the
  middle of a word, sizes near `SIZE_MAX`, page sizes other than 4 KiB.
* Failure: `mmap` can fail in three places, which the code treats in three
  ways (an assertion, no test at all, a NULL nobody tests).

What makes each component correct:

* front end: no block is handed out twice; a free block of the thread is found;
  no span and no block is lost; the lock is always given back.
* span block bitmap: the two levels and the count agree; a block is free or in
  use; the lowest free block is taken.
* span layer: page runs in use do not overlap, fit their requests and are
  mapped; every page maps to its span; the bins hold exactly the idle spans.
* page map: a lookup returns what was mapped last, also while other keys are
  added and removed; a node is released when its last entry goes.
* metadata arena: an object is in use once, whatever sizes are freed.
* size classes: a size gets the smallest class that holds it; the tables of
  sizes, spans and counts fit one another.
* shim: an allocation has the room and the alignment asked for, keeps its
  bytes until it is freed, and gives back its own block.

## The modules

| module | what it is |
|---|---|
| `BlockPool` | what a span promises: numbered blocks, taken only while available |
| `SpanBlocks` | the two-level bitmap of a span; implements `BlockPool` |
| `SpanBlocksProofs` | its theorems |
| `Heap` | what `cmalloc.h` promises a program |
| `Cmalloc` | the front end, with interleaved threads; implements `Heap` |
| `CmallocInvariant` | the inductive invariant of `Cmalloc` for programs that free their own blocks |
| `CmallocProofs` | the types of `Cmalloc`, and that each step keeps the invariant: ownership and blocks, then the linked bins |
| `CmallocTheorems` | the theorems that follow from it |
| `PageHeap` | what the span layer promises the front end: disjoint page runs, each long enough for its own request |
| `SpanPool` | the span layer, with its inductive invariant; implements `PageHeap` |
| `SpanPoolProofs` | its theorems |
| `RangeMap` | the trie and the metadata arena, composed, word by word |
| `RangeMapProofs` | their inductive invariant and theorems |
| `RangeMapLookup` | lookups in the trie without the lock, with their inductive invariant |
| `RangeMapLookupProofs` | its theorems |
| `SizeClasses` | the tables of `common.h` and `cmalloc_runtime_init` |
| `SizeClassesProofs` | its inductive invariant and theorems |
| `Shim` | the malloc family over addresses and bytes, with `ccalloc` and `crealloc` |
| `ShimProofs` | its inductive invariant and theorems |
| `MC...` | values of the constants for TLC |

Definitions marked `Seeded fault` are plausible mistakes, one for each
property: with the fault in place of the definition after it, TLC finds that
property violated. No specification uses them.

### SpanBlocks

One span. A 64-bit word is the set of positions of its one bits, so
`__builtin_ctzll` is the least element, `& ~bit` removes one, `== 0` is being
empty. `live` is the environment: the blocks the caller holds. `AllocateBlock`
and `AllocateNull` are the two ways through `allocate_block`, `FreeBlock` is
`free_block`, `InitializeSpan(n)` is the second half of
`cmalloc_initialize_span` for `n` blocks, and `CacheSpan` is
`cmalloc_cache_span` seen from the span: the bitmaps stay as they are, and the
next `InitializeSpan` has to overwrite them. It happens when `cfree` calls it:
when every block is free, or for the one block of a large span, which `cfree`
does not pass to `free_block` first.

### Cmalloc

Threads run one call at a time. `pc[t]` is the place in the call, `cls[t]`,
`span[t]` and `ptr[t]` are its locals, `reg[t]` the values `allocate_block` or
`free_block` has loaded and not stored. A step is the code between two
accesses to memory another thread can reach:

| steps | code |
|---|---|
| `Cmalloc`, `CheckLast`, `LoadBlock`, `StoreBlock` | `cmalloc.c:79-87`, the path through the bin |
| `Acquire`, `FindSpan`, `InitializeSpan`, `OutOfMemory`, `ReleaseInit`, `PushFresh` | `cmalloc.c:90-102`, a fresh span, a large block |
| `Cfree`, `CheckFull`, `LoadFree`, `StoreFree`, `CheckEmpty` | `cmalloc.c:105-123` |
| `Acquire`, `CacheSpan`, `ReleaseCache` | `cmalloc.c:111-113`, `:125-127` |
| `Crealloc`, `ReallocCheck`, then the steps of `cmalloc` and `cfree` | `cmalloc.c:146-165` |

`free_count`, `next`, `prev` and `thread_local_bin` are the code's own. The
bitmap is the set `free` of free indices, which is what `SpanBlocks` shows it
to be. `pool` stands for the span layer: any span in it may be found, and if it
is empty `assert(new)` ends the process. `held` is the program. `owner`, a
history variable that no step reads, is the thread that initialized a span.

`Exit` is the end of a thread between two calls (`cmalloc.c:16`): its bins go
with its thread-local storage, and no code runs for the spans on them.
`NothingStranded` says what that costs: only spans the thread still had blocks
of are lost.

`CrossThreadFrees` says whether the program frees blocks another thread
allocated, `SerializedCalls` whether it never overlaps two calls, `ThreadsExit`
whether its threads may end.

### SpanPool

The span layer with pages as numbers. All of it runs under the lock, so an
operation is one action; the paths of `alloc_span` are `AllocDirect` and
`AllocDirectFails` (`span.c:85-98`), `AllocExact` (`:102-107`), `AllocSplit`
(`:108-130`), `AllocChunk` and `AllocChunkFails` (`:131-180`), and those of
`cmalloc_cache_span` are `CacheDirect` (`:184-190`) and `CacheBinned`
(`:192-195`). `is_initialized`, which the caller sets right after, is set in
the same action. The kernel is the set `mapped`; `mmap` may return any free run
that starts at a page of `MapBases`, or fail. `page_map` is the function the
trie represents. `span_t` objects are carved in order and freed ones reused
last first, with the fields they had: the free list's link overwrites
`phys_next`, the first word. `used` is the front end: its spans and the sizes
it asked for.

In `SpanPool` the page map is a function, and metadata never runs out; the next
two modules are about what is below.

### RangeMap

Memory is an array of words, those of the chunks `mmap` has provided: a chunk
comes as zeros (`NewChunk`), and objects are cut from the last one (`Cut`). The page map and `free_list_map` are two tries in
it, and `cmalloc_map`, `cmalloc_unmap`, `cmalloc_alloc_metadata` and
`cmalloc_free_metadata` are operators from one memory to the next, so that each
can call the others as the code does: `AllocMetadata` looks up a free list,
`Map` of an emptied list stores NULL, `FreeMetadata` may need nodes. Objects
keep their words when they are released, and the first becomes the link. The
actions are the calls `alloc_span` and `cmalloc_cache_span` make, in their
order: `MapDirect`, `MapChunk`, `SplitSpan`, `UnmapDirect`. When the arena's
`mmap` fails the process ends (`failed`), as nobody tests for it
(`metadata.c:42`).

What the model makes visible: popping the last object of a list stores NULL and
leaves the count, and the next push counts the entry again (`range_map.c:72`),
so counts of `free_list_map` drift upwards. Nothing unmaps there, so a drifting
count releases no node. `CountsExact` is therefore about the page map.

### RangeMapLookup

The same trie with its nodes as objects, and each access to a slot as a step.
One writer runs `cmalloc_map` or `cmalloc_unmap` (`LinkNode`, `ClearNode`, ...,
`FreeLeaf`, `UnlinkLeaf`, ...); readers run `cmalloc_get` (`LoadNode`,
`LoadLeaf`, `LoadSpan`). `cmalloc_get` names the node from the root again at
each use; `LoadLeaf` and `LoadSpan` take the pointer of the test or a fresh
one, as a compiler may. The contract is the allocator's: a page is looked up
while a block of its span is held, so nobody maps or unmaps that very page
meanwhile, but other pages of the same node come and go. One writer stands for
all: they hold the mutex.

### SizeClasses

The real tables of `common.h`, and `cmalloc_runtime_init` with one step for
each of its 2049 buckets. `SmallestClass` compares the result with the linear
scan it replaces, for all 32769 sizes; `SpansFit` compares the three tables.

### Shim

Addresses are numbers and blocks have bytes. `cmalloc` is any free block of the
right class, since which one is `Cmalloc`'s matter; the shim's entry points are
the actions. `Realloc` is `crealloc` with its `memcpy`, `Calloc` is `ccalloc`
with its `memset` and the product modulo `SIZE_MAX + 1`. `MemalignFor` allocates
slack and rounds up. What it aligns to and what the program relies on are two
arguments, because they differ for `valloc`: the code aligns to the constant
4096 (`VALLOC_ALIGNMENT`, `alloc_shim.c:146`), the program relies on a page.
`BlockStart` and `Freed` are the divisions `cm_usable` and
`free_block` do with the moved pointer. The program writes all it asked for
with a tag of its own, so `ContentsKept` notices any byte that two allocations
share. `operator new` is `New` and `NewAligned`; its loop around `new_handler`
is not entered, because `cmalloc` ends the process rather than return NULL.

## The runs

| run | question | states | result |
|---|---|---|---|
| `MCSpanBlocks.cfg` | do bitmap, summary and count agree through every use and reuse? | 1,033 | yes |
| `MCCmalloc.cfg` | can two threads that free only their own blocks confuse one another, or strand spans when they end? | 1.65 million | no |
| `MCCmallocLive.cfg` | is the lock always released, does every call return? | 27,118 | yes |
| `MCCmallocCross.cfg` | are cross-thread frees only a matter of overlapping calls? | | violated, below |
| `MCReallocOutOfMemory.cfg` | does a block survive a `crealloc` that finds no memory? | | violated, below |
| `MCSpanPool.cfg` | do page map, bins, bitmap and links stay exact on every path, with spans longer than a chunk among them? | 322,484 | yes |
| `MCSpanPoolDirect.cfg` | is every span in use mapped? | | violated, below |
| `MCRangeMap.cfg` | do the trie and the arena, which allocate from one another, stay exact? | 115,698 | yes |
| `MCRangeMapLookup.cfg` | is a lookup without the lock right? | 176,035 | yes |
| `MCSizeClasses.cfg` | do the tables fit, and does every size get its class? | 10,251 | yes |
| `MCShim.cfg` | does the malloc family keep contents, room, alignment and blocks apart? | 95,426 | yes, on pages of `valloc`'s 4 KiB, without `realloc` of over-aligned memory |
| `MCShimRealloc.cfg` | and with it? | | violated, below |

What the runs found:

* **A block handed out twice with no two calls overlapping.** The README
  (`README.md:264`) describes cross-thread frees as unsynchronized access to a
  span. Synchronizing the calls would not help. Thread 1 takes a block of a
  fresh span and thread 2 frees it. The span is empty, so `cfree` removes it
  from thread 2's bin, where it is not (`cmalloc.c:123`), and gives it to the
  pool, while thread 1's bin still begins with it. Thread 1 takes a block from
  it again; the next span to be initialized is the same one, all its blocks are
  free again, and the block goes out a second time.
* **`crealloc` without memory ends the process** in `assert(new)`
  (`span.c:203`, `:208`), where `README.md:166` says the original pointer stays
  intact. The Makefile does not define `NDEBUG`.
* **A direct mapping that fails is not noticed** (`span.c:87`).
* **`realloc` of over-aligned memory can overwrite the next block.** `crealloc`
  takes `block_size` as the room behind its argument (`cmalloc.c:155`), but
  `shim_memalign` returns a pointer inside the block (`alloc_shim.c:78`). In
  blocks of 6, two `malloc` of 5 bytes take the blocks at 8 and 20, the first is
  freed, and `aligned_alloc(4, 3)` takes the block at 14 and returns 16. Its
  `realloc` to 5 stays in place, as 5 is no more than 6, and the program may now
  write bytes 16 to 20. Byte 20 is the first of the other allocation. When
  `crealloc` moves such memory it copies `block_size` bytes from the shifted
  pointer on.

Outside the runs, but visible in the modules:

* `round_up_page` wraps for the last `PAGE_SIZE - 1` sizes (`common.h:126`), and
  `cmalloc` hands out a span of no pages. `Requests` of `MCSpanPool.cfg` leaves
  these sizes out, as `NoWrap` does in the theorems; with 31 among them `FitsRequest` is violated. The test in
  `ccalloc` (`cmalloc.c:132`) passes products in the same range; with `<<7, 9>>`
  among `CallocArgs` of `MCShim.cfg`, `UsableCoversRequest` is violated.
* `valloc` aligns to 4096 bytes whatever the size of a page (`alloc_shim.c:146`).
  On pages of 16 KiB, those of the machine `README.md:19` was measured on, its
  memory need not begin a page. Nothing in the repository says what `valloc`
  returns, so there is no run for it; with `VALLOC_ALIGNMENT = 4` in
  `MCShim.cfg`, where pages are of 8 bytes, `Aligned` is violated by the second
  `valloc(0)`.
* `crealloc` stays in place for every smaller size (`cmalloc.c:155`,
  `ReallocCheck`), not only for one of the same class (`README.md:166`).

### Bounds

* `SpanBlocks`: three words of three bits and 1 to 9 blocks, so that there are
  spans of one, two and three words, with a full last word and with each
  partial one, and a one-block span. The theorems cover all other widths.
* `Cmalloc`: two threads, three spans, classes of two and three blocks, and
  large blocks. Two blocks are the smallest span that can be full, partly used
  and empty; three have a middle. Three spans let a bin have a first, a middle
  and a last span, and let one thread reuse what the other gave back. A
  span's blocks are at most `MAX_SPAN_BLOCK_COUNT`. Threads, and spans, are
  symmetric. The liveness run has no symmetry, and two spans.
* `SpanPool`: `LastPage` pages, of two bytes, `MaxSpans` objects, mappings at
  `MapBases`, and sizes in `Requests`: one page, an odd size that rounds up to
  two, one longer than a chunk, and one long enough for a mapping of its own.
  Chunks of three pages and a limit of five (`MAX_BINNED_PAGES`) are the
  proportion of a build with 16 KiB pages (2048 and 8193); with 4 KiB pages
  (8192 and 8193) fewer paths can be taken. Five bins in bitmap words of two
  bits put the search across words, with a partial last one. A span of four
  pages can be split to leave neighbours on both sides. Eight pages hold two
  chunks, or a chunk and a direct mapping. `SIZE_MAX` is 31: `round_up_page`
  works modulo 32.
* `RangeMap`: a root, nodes and leaves of two, four and two slots, so that the
  sizes of the objects are keys that lie in different leaves, as in the code; a
  chunk of pages that ends inside a leaf, and direct mappings across nodes and
  in a node of their own. `MaxChunks` chunks of metadata are enough for every
  call to meet a new chunk and for the last to fail. `MaxSpans` bounds the spans
  in use, `MaxCount` the drifting counts.
* `RangeMapLookup`: two readers, two nodes, three leaves, four keys: two in one
  leaf, a third in its node, a fourth under another slot of the root. Slot 0,
  which a release overwrites, is in use at each level. A node can be released
  and taken again while a reader is under way.
* `SizeClasses`: none; the tables are the real ones. The page sizes are the
  five powers of two from 4 KiB (x86-64) to 64 KiB (the largest of Linux on ARM)
  that `PageSizesAssumption` allows; a larger one does not divide the shortest
  spans.
* `Shim`: a granule of two bytes, pages of eight, spans of two pages in classes
  of 2, 4 and 6, four pages of memory and `MaxLive` allocations at a time.
  Blocks of 6 start at odd multiples of the granule, so that alignment to 4
  needs a shift, and the last block of a span leaves room behind it. `valloc`
  aligns to a page of eight, as it does where pages are of 4 KiB.
  `MCShimRealloc.cfg` has one span of five pages, so that a block of 6 whose
  pointer needs a shift has another behind it.

### Fairness

`FairSpec` asks that the scheduler runs each thread that is in a call and can
run (weak fairness of `Run(t)`), and strong fairness of `Acquire(t)`: a
default pthread mutex gives no order among waiters, but wakes one at each
unlock, and a thread that waits while the mutex is free again and again is
assumed to get it in the end. Nothing makes a thread start a call, or end.

## The proofs

All proofs are for arbitrary constants, under the named assumptions of the
modules.

`SpanBlocksProofs` proves each property of `SpanBlocks` that a run checks, from
`SpanBlocksAssumption`: words have at least one bit, `nonfull_bitmap` has one
for each word of `block_bitmap` (the comment at `common.h:52` is about this:
64 words of 64 bits is 4096 blocks), and spans have at least one block and fit
the bitmap. `LiveFreePartition` is not inductive alone: that the next block
`allocate_block` takes exists, is free and is within `block_count` depends on
the summary word, and that a count is right after a free depends on the block
having been in use. The invariant `Inv` is the conjunction of the types,
`NonfullExact`, `LiveFreePartition` and the cardinality of the free blocks.
Index arithmetic is in lemmas (`IndexSplit`, `IndexJoin`, `IndexBounds`,
`WordsOfBounds`), the set-up in `InitialWordExact`, and one lemma says that the
block found through both levels is the least free one (`FoundLeast`). `FirstFit`
and `ImplementsPool` follow from `Inv`, step by step.

`CmallocProofs` proves `TypeOK` from `CmallocAssumption`, with or without
cross-thread frees. The types are not inductive alone either: `FrameOK` says,
by the place a call has reached, that its span is not NULL, its class is a size
class and its argument is a block; so no step dereferences NULL, even when
threads race.

`CmallocTheorems` proves all the safety properties of `Cmalloc` and that it
implements `Heap`, for programs that free a block in the thread that got it
(`~CrossThreadFrees` is a hypothesis of each theorem; `MCCmallocCross.cfg` shows
that without it they are false). Threads may end, and calls may overlap in any
way. The invariant is `SafeInv` of `CmallocInvariant`. None of the properties
is inductive, because each depends on where every call is:

* `LockOK`, `OwnerOK`: a thread past `lock` holds it, and works on a span it
  owns, or on one of the pool while it holds the lock. So a step of one thread
  leaves the spans of the others alone.
* `HeldOK`, `BlocksOK`: a block of a span is free, in the program's hands or on
  its way from one to the other, and only one of these; what `free_count` says
  is the number of free ones. `StageOK` says that the values a call has loaded
  and not yet stored are still true, and that it never takes from a span with
  nothing free.
* `InUseOK`: a span whose blocks are all free is in the middle of a call.
* `BinInv`: a bin is a doubly linked list, without repetition, of exactly the
  spans that belong on it (`Binned`: some blocks free and some not, adjusted for
  the two calls that move a span before they count). The lemmas on bins show
  what `bin_push` and `bin_remove` do to such a list, at its head, in the middle
  and at its end.

`CmallocProofs` has one lemma for each action and the parts it may disturb, and
then the same for the bins. `BinsExact` walks the links
with a recursive function; that the walk visits the list is `WalkChain`.
`CmallocAssumption` asks for finitely many spans, as the counts of blocks are
those of finite sets: an address space is finite.

`RangeMapLookupProofs` proves `TypeOK`, `LookupExact` and `ReadersOnLiveObjects`
of `RangeMapLookup`, for any number of readers, objects, slots and keys
(`RangeMapLookupAssumption`: finitely many slots, slot 0 among them, where a
release writes its link). The invariant is `TrieInv`. At most one object is in
doubt: the one the writer has linked and not cleared, or released and not
unlinked. All the others form a tree: a node or leaf is linked from one slot
and is not released (`RootInv`, `LinkInv`), and its count is that of its used
slots (`NodeInv`, `LeafInv`; a new leaf is counted late, a new page early). So a
release meets only an object with no used slot, on which no mapped page can lie
(`MappedInv`), and the path of a reader, whose page is mapped, is out of reach
of the writer (`ReaderInv`). `LeafWrite` and `NodeWrite` do this once for the
steps that write one leaf and one node.

`RangeMapProofs` proves every property of `RangeMap` that `MCRangeMap.cfg`
checks, for any shape of the trie, any chunks and any runs of keys.
`RangeMapAssumption` asks that a chunk is a multiple of the alignment and has
room for each kind of object, that the runs `mmap` may return are not empty and
lie within the keys, and that the sizes of spans, nodes and leaf nodes are
different keys (in the code a `span_t`, and 4096 or 2048 pointers with a count),
so that each has a list of its own. The invariant is `Inv`. It says that there is a way
to give each object of the arena one size and one use (`sz`, `us`) such that:

* `ArenaOK`: the objects lie apart, aligned, in the chunks and below the bump
  pointer, and the words above it are still zero. A new object therefore meets
  no other.
* `FreeInv`: `free_list_map` is a trie, whose nodes are objects of that use,
  each linked from one slot (`Trie`), and what it finds for a size is the head
  of a list of exactly the released objects of that size (`Chain`). Its counts,
  which drift, are left open.
* `PageOK`: the same for `page_map`, with exact counts. `E` is the nodes which
  are empty for the moment: `cmalloc_map` links a node before it has an entry,
  and `cmalloc_unmap` clears the entry before it releases the node.
* `MapInv`: a key is found exactly as the span that has it, and the `span_t` and
  `data_chunk_t` in use are exactly the objects of those uses (`Objects`).

The proof goes by the layers of the code. The arena and `free_list_map` need
nothing of the page map but that its objects are not theirs (`AInv`): a step of
`AllocMetadata` or `FreeMetadata` changes words of free objects only, and leaves
all others with their words, uses and sizes (`Allocated`, `Released`, `Kept`).
Their mutual calls end because the lookup that finds a head has gone through the
nodes its pop needs. On top, `Map` and `Unmap` are taken apart at the point where
each node is linked or released, with what has been found at that point;
`MapRange` and `UnmapRange` follow by induction over the run. `ReleaseNeedsNoMemory` holds because a list whose
leaf node is there can be pushed to and popped with writes alone (`Steady`).
`ObjectsPartitioned` walks the lists with a recursive function; `WalkChain` says
that the walk visits the chain.

`SpanPoolProofs` proves every property of `SpanPool` that `MCSpanPool.cfg`
checks, for any number of pages, `span_t` objects and bins and any place `mmap`
may choose. Each theorem has the hypothesis `NoWrap`: no request is among the
last `PAGE_SIZE - 1` sizes, for which `round_up_page` wraps and the span has no
pages. `SpanPoolAssumption` asks that the page size divides `SIZE_MAX + 1`, and
that a chunk is at most `MAX_BINNED_PAGES` pages (both hold in every build of
`common.h`; otherwise `span.c:162` would drop the rest of a chunk) and that its
length is a `size_t`. The invariant is `PoolInv`, at the end of `SpanPool`.
None of the properties is inductive without the others:

* `MetaInv`: an object `cmalloc_alloc_metadata` returns is not in existence, or
  the fields `alloc_span` writes would be another span's.
* `RunInv`: the objects share out the mapped pages, so a split writes the page
  map for pages of its own span only.
* `ChunkInv`: a span lies in a chunk and is binnable, or it meets no chunk and
  has a mapping of its own. So `munmap` in `cmalloc_cache_span` takes no page
  from a chunk, and what `phys_next` leads to at a split is in the same chunk.
* `PhysLinksExact`: a split may write through `phys_next` because it is the
  neighbour or NULL.
* `IdleInv`: the links of each bin chain exactly the idle spans of its length,
  and a bit is set for each bin with a head, so the head `alloc_span` takes
  exists, is idle and has the length of its bin.

One lemma for each path of `alloc_span` and `cmalloc_cache_span` shows that it
keeps the invariant, and what it does to the spans in use (`Grants`,
`TakesBack`); `BestFit` and `ImplementsPageHeap` follow from the latter. What
the paths share is stated once: `MetaAlloc` and `MetaFreed` for the objects,
`ChainHead` and `ChainPush` for the bins, `BinFilled` and `BinPopped` for the
bitmap, `BestFitting` for its search, `DividedRuns` and `DividedLinks` for a
span cut in two, `NewChunk` for a chunk shared out. `PageBinsExact` walks the
links with a recursive function; `WalkChain` says where the walk leads.

`ShimProofs` proves every property of `Shim` that `MCShim.cfg` checks, for any
classes, pages, sizes, alignments and strings. Each theorem has two hypotheses,
`SpecAligned` a third, and is false without them. `NoWrap`: no size the shim passes to `cmalloc`, with
the slack of an over-aligned one, is among those for which `round_up_page`
wraps. `~ReallocAligned`: the program reallocates no over-aligned memory, for
which `crealloc` takes the shifted pointer for the start of the block
(`MCShimRealloc.cfg` shows what becomes of its contents). The third is
`VALLOC_ALIGNMENT % PAGE_SIZE = 0`: what `valloc` aligns to is whole pages, as
4096 is where pages are of 4 KiB. The other theorems need no such thing.
`ShimAssumption` asks
that classes and the page size are multiples of the granule, which
`SizeClasses` checks for the real table, and that there are tags enough to tell
the allocations apart. `AlignmentAssumption` says that a power of two above the
granule is a multiple of it, `VALLOC_ALIGNMENT` among them: arithmetic, but its
proof would be an induction over exponents. The invariant is `Inv`, stated in `ShimProofs`:

* `SpansInv`: spans are aligned runs of bytes, within memory and disjoint; so
  are their blocks (`BlocksApart`), and the span and the block an address lies
  in are determined (`Found`).
* `LiveInv`: a pointer in use has all its room in one allocated block, and is
  the start of it unless it is over-aligned (`Holds`). `UsableCoversRequest`
  follows, and `Aligned` where whole pages make up `valloc`'s alignment; the
  second half is what makes `crealloc` in place right.
* `OwnersInv`: each allocated block has exactly one such pointer. So what `free`
  gives back is nobody else's, which is `FreesItsBlock`.
* `BytesInv`: the bytes of the pointers in use are what their owners wrote.
  It holds because a grant writes only in a block that was not taken.

The invariant is a property of any spans, blocks, pointers and bytes
(`MallocInv`), so that each kind of step is treated once: `GrantInv` for what
`cmalloc` hands out, `FreeInv` for what `cfree` takes back, `ResizeInv` for a
`crealloc` in place. A `crealloc` that moves is a grant, a copy and a free.

`SizeClassesProofs` proves every property of `SizeClasses`. There is little to
be general about, as the tables are the real ones and `MCSizeClasses.cfg` goes
through every page size; what the proof adds is the reason. `Inv` says that the
buckets filled so far have the smallest class for their largest size, and that
each class `cmalloc_runtime_init` has passed is too short for the last of them,
which is why its loop need never go back. `SmallestClass` carries over from the
largest size of a bucket to the others because all classes are multiples of
`BYTE_ALIGNMENT`.

The inductive invariants were checked with TLC before they were proved:
`SafeInv` on the instances of `MCCmalloc.cfg` and `MCCmallocLive.cfg`, `TrieInv`
on that of `MCRangeMapLookup.cfg`, `PoolInv` on that of `MCSpanPool.cfg`, `Inv`
of `ShimProofs` on that of `MCShim.cfg`, where `NoWrap` holds, `Inv` of
`SizeClassesProofs` on that of `MCSizeClasses.cfg`. `Inv` of `RangeMapProofs`
quantifies over the ways to divide memory, which TLC cannot enumerate; the
properties it was found from are those of `MCRangeMap.cfg`.

What stays with TLC: liveness (`LockReleased`, `CallsReturn`), which TLAPS does
not treat, and the four violations, which are counterexamples.

## What is left out, and why

* The composition of the layers in one state space. Each module's environment
  is what the module above or below it is shown to keep: `Cmalloc` takes spans
  from a pool of disjoint ones (`PageHeap`), `SpanBlocks` frees only what it
  gave out (`Heap`), `RangeMapLookup` looks up only pages of blocks in use
  (`PooledSpansUnreferenced`).
* Interleaving in `Shim`, `SpanPool` and `RangeMap`: the last two run under the
  lock, the first adds no shared state to `Cmalloc`.
* After a failed direct mapping, the entries the page map gets for the pages
  from `MAP_FAILED` on. They are keys no mapped page has, for spans of less
  than 4 GiB.
* The end of the process: the destructor at `cmalloc.c:49` destroys a mutex
  other threads may still use, and what they get is the C library's choice.
* Concurrent first calls of `cmalloc_runtime_init`, which sets the page size,
  its test for being done, before it fills the table (`cmalloc.c:28`). The
  library calls it from a constructor, before there are threads.
* The end of a process between two stores is not a fault model here: nothing of
  the allocator's state outlives it.
* The shim's other backends, the benchmark driver and the tests. The threads of
  the tests free their own blocks, which is the program of `MCCmalloc.cfg`;
  `bench/xthread_repro.c` frees others', which is that of `MCCmallocCross.cfg`.
* Windows: `common.h` has code for it, the rest needs `mmap` and pthreads.

## Plan

All modules of the plan are written: `SpanBlocks` with `BlockPool`, `Cmalloc`
with `Heap`, `SpanPool` with `PageHeap`, `RangeMap`, `RangeMapLookup`,
`SizeClasses`, `Shim`, thread exit in `Cmalloc`.

Every invariant and every action property that a passing run checks is proved,
and so are the refinements of `BlockPool`, `Heap` and `PageHeap`. The liveness
of the front end stays with TLC.
