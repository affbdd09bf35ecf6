------------------------------- MODULE RangeMap -------------------------------
(***************************************************************************)
(* The page map and the metadata arena below it, word by word              *)
(* (src/src/range_map.c, src/src/metadata.c).  The two call one another:   *)
(* the trie takes its nodes from the arena, and the arena keeps the heads  *)
(* of its free lists in a second trie, keyed by object size, whose nodes   *)
(* come from the same lists.                                               *)
(*                                                                         *)
(* Memory is an array of words, those of the chunks mmap has provided.  A   *)
(* node is its slots followed by its count; a root has slots only.  The    *)
(* first word of a freed object links its free list, and an object keeps   *)
(* its words until it is reused.  The actions are the sequences of calls   *)
(* span.c makes under the global lock.  One word stands for a span_t, and  *)
(* sizes are in words.                                                     *)
(***************************************************************************)
EXTENDS Integers, FiniteSets

CONSTANTS
  L1_SIZE, L2_SIZE, L3_SIZE,   \* slots of a root, of a node and of a leaf node
  ALIGNMENT,                   \* BYTE_ALIGNMENT
  META_CHUNK_SIZE,
  MaxChunks,                   \* arena chunks mmap can provide
  MaxCount,                    \* bound on the counts of free_list_map's leaves
  MaxSpans,                    \* bound on the spans that exist at a time
  ChunkRuns,                   \* the <<from, to>> mmap may return for a chunk
  DirectRuns                   \* and for a direct mapping

NULL == 0

Keys == 0 .. L1_SIZE * L2_SIZE * L3_SIZE - 1

\* The objects' sizes.  As in the code they are keys of free_list_map that lie
\* in different leaf nodes.
SpanSize      == 1
DataChunkSize == 2
RootSize      == L1_SIZE
NodeSize      == L2_SIZE + 1
LeafNodeSize  == L3_SIZE + 1

HEADER == 3                    \* sizeof(meta_chunk_t)

AlignUp(a) == ((a + ALIGNMENT - 1) \div ALIGNMENT) * ALIGNMENT

ASSUME RangeMapAssumption ==
  /\ {L1_SIZE, L2_SIZE, L3_SIZE, ALIGNMENT, META_CHUNK_SIZE} \subseteq Nat \ {0}
  /\ {MaxChunks, MaxCount, MaxSpans} \subseteq Nat
  /\ META_CHUNK_SIZE % ALIGNMENT = 0
  \* a chunk has room for any object
  /\ \A size \in {SpanSize, DataChunkSize, RootSize, NodeSize, LeafNodeSize} :
       AlignUp(HEADER) + size <= META_CHUNK_SIZE
  /\ {SpanSize, DataChunkSize, LeafNodeSize, NodeSize} \subseteq Keys
  /\ SpanSize # LeafNodeSize /\ SpanSize # NodeSize /\ LeafNodeSize # NodeSize
  /\ \A run \in ChunkRuns \cup DirectRuns :
       run \in Nat \X Nat /\ run[1] < run[2] /\ run[2] - 1 \in Keys

VARIABLES
  heap,      \* memory, the arena and the roots, threaded through the calls
  spans,     \* history: the keys each span_t was mapped to, and if directly
  chunks,    \* history: the data_chunk_t objects
  failed     \* a failed mmap has ended the process

vars == <<heap, spans, chunks, failed>>

\* Where the chunks lie; the address at their end is in no chunk.
Addresses == 0 .. ALIGNMENT + MaxChunks * META_CHUNK_SIZE

-----------------------------------------------------------------------------
(* The trie: slots and lookup                                              *)

L1Index(key) == (key \div (L2_SIZE * L3_SIZE)) % L1_SIZE
L2Index(key) == (key \div L3_SIZE) % L2_SIZE
L3Index(key) == key % L3_SIZE

\* The leaf node of a key, or NULL.
LeavesOf(mem, root, key) ==
  LET node == mem[root + L1Index(key)]
  IN IF node = NULL THEN NULL ELSE mem[node + L2Index(key)]

\* cmalloc_get
Get(mem, root, key) ==
  LET leaves == LeavesOf(mem, root, key)
  IN IF leaves = NULL THEN NULL ELSE mem[leaves + L3Index(key)]

\* Seeded fault: the count also grows when the leaf is overwritten.
SetLeafRecounts(h, root, key, value) ==
  LET leaves == LeavesOf(h.mem, root, key)
  IN [h EXCEPT !.mem[leaves + L3_SIZE] = @ + 1,
               !.mem[leaves + L3Index(key)] = value]

\* The end of cmalloc_map, once the nodes are there.
SetLeaf(h, root, key, value) ==
  LET leaves == LeavesOf(h.mem, root, key)
      leaf == leaves + L3Index(key)
  IN [h EXCEPT !.mem[leaves + L3_SIZE] = IF h.mem[leaf] = NULL THEN @ + 1 ELSE @,
               !.mem[leaf] = value]

-----------------------------------------------------------------------------
(* The arena                                                               *)

ChunkBase(k) == ALIGNMENT + (k - 1) * META_CHUNK_SIZE

\* A chunk is what mmap returns: zeros.
NewChunk(h) ==
  LET base  == ChunkBase(h.count + 1)
      words == base .. base + META_CHUNK_SIZE - 1
  IN [h EXCEPT !.mem = [a \in DOMAIN h.mem \cup words |->
                          IF a \in DOMAIN h.mem THEN h.mem[a] ELSE 0],
               !.count = @ + 1,
               !.cur = AlignUp(base + HEADER),
               !.end = base + META_CHUNK_SIZE]

\* The next object of the current chunk.
Cut(h, size) ==
  [ptr |-> h.cur,
   heap |-> [h EXCEPT !.cur = AlignUp(h.cur + size), !.carved = @ \cup {<<h.cur, size>>}]]

\* Seeded fault: an object may be a word too long for the chunk it is cut from.
CarveOverruns(h, size) == Cut(IF h.end - h.cur < size - 1 THEN NewChunk(h) ELSE h, size)

\* A new object: from the current chunk, or from a new one if too little is
\* left.  (With no chunk yet, cur = end.)
Carve(h, size) == Cut(IF h.end - h.cur < size THEN NewChunk(h) ELSE h, size)

\* cmalloc_alloc_metadata.  The cmalloc_map that pops the head finds its nodes:
\* the lookup before it went through them.
AllocMetadata(h, size) ==
  LET head == IF h.free_list_map = NULL THEN NULL
              ELSE Get(h.mem, h.free_list_map, size)
  IN IF head # NULL
       THEN [ptr |-> head, heap |-> SetLeaf(h, h.free_list_map, size, h.mem[head])]
       ELSE Carve(h, size)

\* Seeded fault: a recycled node keeps what it held.
PutNodeDirty(new, slot, size) == [new.heap EXCEPT !.mem[slot] = new.ptr]

\* The new object, cleared, as the node in the slot.
PutNode(new, slot, size) ==
  [new.heap EXCEPT !.mem =
     [a \in DOMAIN new.heap.mem |->
        IF a = slot THEN new.ptr
        ELSE IF a \in new.ptr .. new.ptr + size - 1 THEN 0 ELSE new.heap.mem[a]]]

\* With a node of its own in the slot.
WithNode(h, slot, size) ==
  IF h.mem[slot] # NULL THEN h ELSE PutNode(AllocMetadata(h, size), slot, size)

\* Seeded fault: the leaf node that is there is not looked for.
WithAnotherLeafNode(h, node, key) ==
  [PutNode(AllocMetadata(h, LeafNodeSize), node + L2Index(key), LeafNodeSize)
     EXCEPT !.mem[node + L2_SIZE] = @ + 1]

\* With a leaf node for the key below its node, which counts it.
WithLeafNode(h, node, key) ==
  IF h.mem[node + L2Index(key)] # NULL THEN h
  ELSE [WithNode(h, node + L2Index(key), LeafNodeSize)
          EXCEPT !.mem[node + L2_SIZE] = @ + 1]

\* cmalloc_map, whose node is there.
MapBelow(h, root, value, key) ==
  SetLeaf(WithLeafNode(h, h.mem[root + L1Index(key)], key), root, key, value)

\* cmalloc_map
Map(h, root, value, key) ==
  MapBelow(WithNode(h, root + L1Index(key), NodeSize), root, value, key)

\* Seeded fault: the list is cut off behind the object that is put on it.
PutOnListDropsIt(h, ptr, size) ==
  Map([h EXCEPT !.mem[ptr] = NULL], h.free_list_map, ptr, size)

\* The object becomes the head of its list.
PutOnList(h, ptr, size) ==
  Map([h EXCEPT !.mem[ptr] = Get(h.mem, h.free_list_map, size)],
      h.free_list_map, ptr, size)

\* The heap once free_list_map exists.
WithFreeListMap(h) ==
  IF h.free_list_map # NULL THEN h
  ELSE LET root == AllocMetadata(h, RootSize)
       IN [root.heap EXCEPT !.free_list_map = root.ptr]

\* cmalloc_free_metadata
FreeMetadata(h, ptr, size) == PutOnList(WithFreeListMap(h), ptr, size)

\* Seeded fault: the node's count goes down with each leaf.
ClearLeafCountsTwice(h, node, leaves, key) ==
  [h EXCEPT !.mem[leaves + L3Index(key)] = NULL,
            !.mem[leaves + L3_SIZE] = @ - 1,
            !.mem[node + L2_SIZE] = @ - 1]

ClearLeaf(h, node, leaves, key) ==
  [h EXCEPT !.mem[leaves + L3Index(key)] = NULL,
            !.mem[leaves + L3_SIZE] = @ - 1]

\* An empty leaf node is released, and then its node if that is empty.  Each is
\* linked into its free list while the trie still points to it.
ReleaseLeafNode(h, node, leaves, key) ==
  IF h.mem[leaves + L3_SIZE] # 0 THEN h
  ELSE [FreeMetadata(h, leaves, LeafNodeSize)
          EXCEPT !.mem[node + L2Index(key)] = NULL, !.mem[node + L2_SIZE] = @ - 1]

ReleaseNode(h, root, node, key) ==
  IF h.mem[node + L2_SIZE] # 0 THEN h
  ELSE [FreeMetadata(h, node, NodeSize) EXCEPT !.mem[root + L1Index(key)] = NULL]

\* cmalloc_unmap
Unmap(h, root, key) ==
  LET node   == h.mem[root + L1Index(key)]
      leaves == h.mem[node + L2Index(key)]
  IN ReleaseNode(ReleaseLeafNode(ClearLeaf(h, node, leaves, key), node, leaves, key),
                 root, node, key)

\* cmalloc_map_range and cmalloc_unmap_range on page_map: keys from .. to - 1
MapRange(h, value, from, to) ==
  LET upTo[k \in from .. to] ==
        IF k = from THEN h ELSE Map(upTo[k - 1], h.page_map, value, k - 1)
  IN upTo[to]

UnmapRange(h, from, to) ==
  LET upTo[k \in from .. to] ==
        IF k = from THEN h ELSE Unmap(upTo[k - 1], h.page_map, k - 1)
  IN upTo[to]

-----------------------------------------------------------------------------
(* What the span layer calls                                               *)

\* The heap once page_map exists (alloc_span's first statement).
WithPageMap(h) ==
  LET root == AllocMetadata(h, RootSize)
  IN IF h.page_map # NULL THEN h ELSE [root.heap EXCEPT !.page_map = root.ptr]

\* The new heap; or the mmap of a chunk it needs fails, the caller writes
\* through the NULL it gets, and the process ends.
Commit(new, newSpans, newChunks) ==
  \/ /\ new.count <= MaxChunks
     /\ heap' = new
     /\ spans' = newSpans
     /\ chunks' = newChunks
     /\ UNCHANGED failed
  \/ /\ new.count > heap.count
     /\ failed' = TRUE
     /\ UNCHANGED <<heap, spans, chunks>>

With(s, from, to, direct) ==
  [r \in DOMAIN spans \cup {s} |->
     IF r = s THEN [from |-> from, to |-> to, direct |-> direct] ELSE spans[r]]

\* A span with a mapping of its own.
MapDirect(from, to) ==
  LET new == AllocMetadata(WithPageMap(heap), SpanSize)
  IN Commit(MapRange(new.heap, new.ptr, from, to),
            With(new.ptr, from, to, TRUE), chunks)

\* A chunk: its data_chunk_t, the span at its start, one for the rest if any.
MapChunk(from, mid, to) ==
  LET chunk == AllocMetadata(WithPageMap(heap), DataChunkSize)
      fit   == AllocMetadata(chunk.heap, SpanSize)
      h     == MapRange(fit.heap, fit.ptr, from, mid)
      split == AllocMetadata(h, SpanSize)
  IN IF mid = to
       THEN Commit(h, With(fit.ptr, from, mid, FALSE), chunks \cup {chunk.ptr})
       ELSE Commit(MapRange(split.heap, split.ptr, mid, to),
                   [r \in DOMAIN With(fit.ptr, from, mid, FALSE) \cup {split.ptr} |->
                      IF r = split.ptr THEN [from |-> mid, to |-> to, direct |-> FALSE]
                      ELSE With(fit.ptr, from, mid, FALSE)[r]],
                   chunks \cup {chunk.ptr})

\* A binned span is cut in two: the keys of the rest are mapped again.
SplitSpan(s, mid) ==
  LET split == AllocMetadata(heap, SpanSize)
  IN Commit(MapRange(split.heap, split.ptr, mid, spans[s].to),
            [With(split.ptr, mid, spans[s].to, FALSE) EXCEPT ![s].to = mid],
            chunks)

\* cmalloc_cache_span of a direct mapping.
UnmapDirect(s) ==
  LET h == UnmapRange(heap, spans[s].from, spans[s].to)
  IN Commit(FreeMetadata(h, s, SpanSize),
            [r \in DOMAIN spans \ {s} |-> spans[r]], chunks)

-----------------------------------------------------------------------------

\* The nodes and leaf nodes below a root, by the slots that hold them.
NodeSlots(root) ==
  IF root = NULL THEN {}
  ELSE {a \in root .. root + L1_SIZE - 1 : heap.mem[a] # NULL}
Slots2Of(a) == {b \in heap.mem[a] .. heap.mem[a] + L2_SIZE - 1 : heap.mem[b] # NULL}
LeafNodeSlots(root) == UNION {Slots2Of(a) : a \in NodeSlots(root)}

\* Popping the last object of a list sets its leaf to NULL and leaves the
\* count, and the next object counts again: these counts only grow.
CountsBounded ==
  \A a \in LeafNodeSlots(heap.free_list_map) : heap.mem[heap.mem[a] + L3_SIZE] < MaxCount

Overlaps(run) == \E s \in DOMAIN spans : run[1] < spans[s].to /\ spans[s].from < run[2]

Init ==
  /\ heap = [mem |-> [a \in {} |-> 0], cur |-> 0, end |-> 0, count |-> 0,
             page_map |-> NULL, free_list_map |-> NULL,
             carved |-> {}]               \* history: <<address, size>>
  /\ spans = [s \in {} |-> 0]
  /\ chunks = {}
  /\ failed = FALSE

Room(k) == Cardinality(DOMAIN spans) + k <= MaxSpans

DirectNext ==
  \/ \E run \in DirectRuns : Room(1) /\ ~Overlaps(run) /\ MapDirect(run[1], run[2])
  \/ \E s \in DOMAIN spans : spans[s].direct /\ UnmapDirect(s)

ChunkNext ==
  \/ \E run \in ChunkRuns : \E mid \in run[1] + 1 .. run[2] :
       Room(2) /\ ~Overlaps(run) /\ MapChunk(run[1], mid, run[2])
  \/ \E s \in DOMAIN spans : \E mid \in spans[s].from + 1 .. spans[s].to - 1 :
       Room(1) /\ ~spans[s].direct /\ SplitSpan(s, mid)

Next ==
  \/ ~failed /\ CountsBounded /\ (DirectNext \/ ChunkNext)
  \* the process has ended, or a bound is reached
  \/ (failed \/ ~CountsBounded \/ ~Room(1)) /\ UNCHANGED vars

Spec == Init /\ [][Next]_vars

-----------------------------------------------------------------------------
(* Properties                                                              *)

\* The types of the variables.
TypeOK ==
  /\ heap.mem \in [ALIGNMENT .. ChunkBase(heap.count + 1) - 1 -> Nat]
  /\ {heap.cur, heap.end, heap.page_map, heap.free_list_map} \subseteq Addresses
  /\ heap.count \in 0 .. MaxChunks
  /\ heap.carved \subseteq Addresses \X (1 .. META_CHUNK_SIZE)
  /\ DOMAIN spans \subseteq Addresses
  /\ \A s \in DOMAIN spans : spans[s].from < spans[s].to
  /\ chunks \subseteq Addresses
  /\ failed \in BOOLEAN

\* Every lookup is exact through every split, release and reuse of nodes: a
\* page of a span yields its span_t (cmalloc_get_span, span.c:243), every
\* other page NULL.  So cmalloc_unmap's assertions hold (range_map.c:89-91).
LookupExact ==
  \A k \in Keys :
    LET found == IF heap.page_map = NULL THEN NULL
                 ELSE Get(heap.mem, heap.page_map, k)
        owners == {s \in DOMAIN spans : k \in spans[s].from .. spans[s].to - 1}
    IN owners = (IF found = NULL THEN {} ELSE {found})

\* A node of the page map counts its entries and has at least one: it is not
\* released too early, nor kept when empty (range_map.c:94, 99).
CountsExact ==
  LET Used(first, n) == {a \in first .. first + n - 1 : heap.mem[a] # NULL}
  IN /\ \A a \in NodeSlots(heap.page_map) :
          LET node == heap.mem[a]
          IN heap.mem[node + L2_SIZE] = Cardinality(Used(node, L2_SIZE)) /\ Used(node, L2_SIZE) # {}
     /\ \A a \in LeafNodeSlots(heap.page_map) :
          LET leaves == heap.mem[a]
          IN heap.mem[leaves + L3_SIZE] = Cardinality(Used(leaves, L3_SIZE))
             /\ Used(leaves, L3_SIZE) # {}

\* The objects on the free list of a size.
Listed(size) ==
  LET head == IF heap.free_list_map = NULL THEN NULL
              ELSE Get(heap.mem, heap.free_list_map, size)
      walk[n \in Nat] ==
        IF n = 0 THEN {head} \ {NULL}
        ELSE LET seen == walk[n - 1]
             IN seen \cup ({heap.mem[a] : a \in seen} \ {NULL})
  IN walk[Cardinality(heap.carved)]

\* Every object cut from the arena is exactly one thing: a root, a node or a
\* leaf node in one slot of one trie, a span_t or data_chunk_t in use, or on
\* the free list of its size.  No metadata is lost and none is used twice.
ObjectsPartitioned ==
  LET roots  == {heap.page_map, heap.free_list_map} \ {NULL}
      slots1 == UNION {NodeSlots(r) : r \in roots}
      slots2 == UNION {LeafNodeSlots(r) : r \in roots}
      sized(S, size) == {<<a, size>> : a \in S}
      owned == << sized(roots, RootSize),
                  sized({heap.mem[a] : a \in slots1}, NodeSize),
                  sized({heap.mem[a] : a \in slots2}, LeafNodeSize),
                  sized(DOMAIN spans, SpanSize),
                  sized(chunks, DataChunkSize),
                  sized(Listed(NodeSize), NodeSize),
                  sized(Listed(LeafNodeSize), LeafNodeSize),
                  sized(Listed(SpanSize), SpanSize) >>
  IN /\ UNION {owned[i] : i \in DOMAIN owned} = heap.carved
     /\ \A i, j \in DOMAIN owned : i # j => owned[i] \cap owned[j] = {}
     /\ Cardinality({heap.mem[a] : a \in slots1 \cup slots2})
          = Cardinality(slots1 \cup slots2)

\* The objects lie inside the chunks, behind their headers, aligned and apart.
ArenaDisjoint ==
  \A x \in heap.carved :
    /\ x[1] % ALIGNMENT = 0
    /\ \E k \in 1 .. heap.count :
         /\ x[1] >= ChunkBase(k) + HEADER
         /\ x[1] + x[2] <= ChunkBase(k) + META_CHUNK_SIZE
    /\ \A y \in heap.carved :
         x # y => x[1] + x[2] <= y[1] \/ y[1] + y[2] <= x[1]

\* Once each free list has its leaf node, giving a direct span back takes no new
\* metadata.  Until then cmalloc_free_metadata may itself need a chunk, and a
\* release ends the process when it gets none (metadata.c:42, 62).
ReleaseNeedsNoMemory ==
  [][(/\ heap.free_list_map # NULL
      /\ \A size \in {SpanSize, LeafNodeSize, NodeSize} :
           LeavesOf(heap.mem, heap.free_list_map, size) # NULL
      /\ \E s \in DOMAIN spans : spans[s].direct /\ UnmapDirect(s))
     => heap'.carved = heap.carved /\ ~failed']_vars
=============================================================================
