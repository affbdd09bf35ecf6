------------------------------ MODULE SpanBlocks ------------------------------
(***************************************************************************)
(* The blocks of one span: the two-level bitmap of src/src/span.h          *)
(* (allocate_block, free_block) and its set-up in                          *)
(* cmalloc_initialize_span (src/src/span.c).                               *)
(*                                                                         *)
(* A 64-bit word is the set of the positions of its one bits, so           *)
(* __builtin_ctzll is the least element.  block_bitmap has one bit per     *)
(* block, set while the block is free; nonfull_bitmap is a single word     *)
(* with one bit per word of block_bitmap, set while that word has a free   *)
(* block.  The widths 64 and 64 are the constants BitsPerWord and          *)
(* WordCount.  `live' is the environment: the blocks the program holds.    *)
(***************************************************************************)
EXTENDS Integers, FiniteSets

CONSTANTS
  BitsPerWord,    \* SPAN_BLOCK_BITMAP_BITS_PER_WORD
  WordCount,      \* SPAN_BLOCK_BITMAP_WORD_COUNT
  BlockCounts     \* the block counts a span can be initialized with

\* nonfull_bitmap is one word, so it has a bit for every word of block_bitmap
\* only if WordCount <= BitsPerWord (MAX_SPAN_BLOCK_COUNT, common.h:52).
ASSUME SpanBlocksAssumption ==
  /\ BitsPerWord \in Nat \ {0}
  /\ WordCount \in 1 .. BitsPerWord
  /\ BlockCounts \subseteq 1 .. BitsPerWord * WordCount

VARIABLES
  is_initialized,
  block_count,
  free_count,
  nonfull_bitmap,
  block_bitmap,
  live

vars == <<is_initialized, block_count, free_count, nonfull_bitmap,
          block_bitmap, live>>

Words == 0 .. WordCount - 1
Bits  == 0 .. BitsPerWord - 1

WordIndex(b)     == b \div BitsPerWord
BitIndex(b)      == b % BitsPerWord
BlockIndex(w, i) == i + w * BitsPerWord

\* Seeded fault: the most significant one bit instead of the least.
CtzFromTheTop(word) == CHOOSE i \in word : \A j \in word : j <= i

Ctz(word) == CHOOSE i \in word : \A j \in word : i <= j

\* Seeded fault: one word too many when the last word is full.
WordsOfOneTooMany(n) == n \div BitsPerWord + 1

WordsOf(n) == (n + (BitsPerWord - 1)) \div BitsPerWord

\* Seeded fault: no partial mask for the last word.
InitialWordUnmasked(n, w) == IF w < WordsOf(n) THEN Bits ELSE {}

\* The free blocks of word w of a span of n blocks, all of them free.
InitialWord(n, w) ==
  IF w >= WordsOf(n) THEN {}
  ELSE LET in_last == n - (WordsOf(n) - 1) * BitsPerWord
       IN IF w = WordsOf(n) - 1 /\ in_last < BitsPerWord
            THEN 0 .. in_last - 1
            ELSE Bits

-----------------------------------------------------------------------------

\* A span_t fresh from the metadata arena: zero bytes.
Init ==
  /\ is_initialized = FALSE
  /\ block_count = 0
  /\ free_count = 0
  /\ nonfull_bitmap = {}
  /\ block_bitmap = [w \in Words |-> {}]
  /\ live = {}

InitializeSpan(n) ==
  /\ ~is_initialized
  /\ is_initialized' = TRUE
  /\ block_count' = n
  /\ free_count' = n
  /\ block_bitmap' = [w \in Words |-> InitialWord(n, w)]
  /\ nonfull_bitmap' = 0 .. WordsOf(n) - 1
  /\ UNCHANGED live

AllocateBlock ==
  /\ is_initialized
  /\ nonfull_bitmap # {}
  /\ LET w == Ctz(nonfull_bitmap)
         i == Ctz(block_bitmap[w])
     IN /\ block_bitmap' = [block_bitmap EXCEPT ![w] = @ \ {i}]
        /\ nonfull_bitmap' = IF block_bitmap'[w] = {} THEN nonfull_bitmap \ {w}
                                                      ELSE nonfull_bitmap
        /\ live' = live \cup {BlockIndex(w, i)}
  /\ free_count' = free_count - 1
  /\ UNCHANGED <<is_initialized, block_count>>

\* Seeded fault: the count goes down before the early return.
AllocateNullCountsDown ==
  /\ is_initialized
  /\ nonfull_bitmap = {}
  /\ free_count' = free_count - 1
  /\ UNCHANGED <<is_initialized, block_count, nonfull_bitmap, block_bitmap, live>>

\* allocate_block's early return: NULL, and nothing changes.
AllocateNull ==
  /\ is_initialized
  /\ nonfull_bitmap = {}
  /\ UNCHANGED vars

\* Seeded fault: a word that was full stays out of nonfull_bitmap.
FreeBlockKeepsWordFull(b) ==
  /\ block_count > 1
  /\ free_count' = free_count + 1
  /\ block_bitmap' = [block_bitmap EXCEPT ![WordIndex(b)] = @ \cup {BitIndex(b)}]
  /\ live' = live \ {b}
  /\ UNCHANGED <<is_initialized, block_count, nonfull_bitmap>>

\* free_block; cfree calls it for the spans of size classes only, which have
\* more than one block.
FreeBlock(b) ==
  /\ block_count > 1
  /\ free_count' = free_count + 1
  /\ block_bitmap' = [block_bitmap EXCEPT ![WordIndex(b)] = @ \cup {BitIndex(b)}]
  /\ nonfull_bitmap' = nonfull_bitmap \cup {WordIndex(b)}
  /\ live' = live \ {b}
  /\ UNCHANGED <<is_initialized, block_count>>

\* cmalloc_cache_span as cfree calls it: for a one-block span without
\* free_block, for the others when every block is free.  The bitmaps keep
\* their contents.
CacheSpan ==
  /\ is_initialized
  /\ block_count = 1 \/ free_count = block_count
  /\ is_initialized' = FALSE
  /\ live' = IF block_count = 1 THEN {} ELSE live
  /\ UNCHANGED <<block_count, free_count, nonfull_bitmap, block_bitmap>>

Next ==
  \/ \E n \in BlockCounts : InitializeSpan(n)
  \/ AllocateBlock
  \/ AllocateNull
  \/ \E b \in live : FreeBlock(b)
  \/ CacheSpan

Spec == Init /\ [][Next]_vars

-----------------------------------------------------------------------------

\* The types of the span's fields.
TypeOK ==
  /\ is_initialized \in BOOLEAN
  /\ block_count \in Nat
  /\ block_count <= BitsPerWord * WordCount
  /\ free_count \in Int
  /\ nonfull_bitmap \in SUBSET Words
  /\ block_bitmap \in [Words -> SUBSET Bits]
  /\ live \in SUBSET Nat

\* The blocks whose bit is set.
FreeBlocks ==
  {b \in 0 .. BitsPerWord * WordCount - 1 :
     BitIndex(b) \in block_bitmap[WordIndex(b)]}

\* The summary word is exact: allocate_block finds a free block through it
\* whenever there is one, and never applies ctz to a zero word (undefined
\* in span.h:60).
NonfullExact ==
  is_initialized =>
    \A w \in Words : w \in nonfull_bitmap <=> block_bitmap[w] # {}

\* free_count, which cmalloc and cfree test for 0, 1 and block_count, is the
\* number of set bits, through every sequence of allocations, frees, failed
\* allocations and reuses for another block count.
FreeCountExact ==
  is_initialized => free_count = Cardinality(FreeBlocks)

\* Every block of the span is either held by the program or marked free, never
\* both and never neither, and no block beyond block_count is ever given out,
\* whatever the span was used for before (span.c:216-237).
LiveFreePartition ==
  is_initialized =>
    /\ live \cap FreeBlocks = {}
    /\ live \cup FreeBlocks = 0 .. block_count - 1

\* allocate_block returns the lowest free block, across the two levels of the
\* bitmap (span.h:58-62).
FirstFit ==
  [][\A b \in live' \ live : 0 .. b - 1 \subseteq live]_vars

Pool == INSTANCE BlockPool WITH open <- is_initialized, size <- block_count

\* A span implements the pool of blocks its users rely on.
ImplementsPool == Pool!Spec
=============================================================================
