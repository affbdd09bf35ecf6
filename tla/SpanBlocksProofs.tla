--------------------------- MODULE SpanBlocksProofs ---------------------------
(***************************************************************************)
(* Proofs about SpanBlocks, for every word width, number of words and set  *)
(* of block counts that SpanBlocksAssumption allows.                       *)
(***************************************************************************)
EXTENDS SpanBlocks, FiniteSetTheorems, WellFoundedInduction, TLAPS

USE SpanBlocksAssumption

-----------------------------------------------------------------------------
(* Block indices, words and bits                                           *)

\* The word and bit indices of span.h:12-13 are a quotient and a remainder.
LEMMA IndexSplit ==
  ASSUME NEW b \in Nat
  PROVE  /\ WordIndex(b) \in Nat
         /\ BitIndex(b) \in Bits
         /\ b = BlockIndex(WordIndex(b), BitIndex(b))
BY DEF WordIndex, BitIndex, Bits, BlockIndex

\* BlockIndex (span.h:61-62) inverts them.
LEMMA IndexJoin ==
  ASSUME NEW w \in Nat, NEW i \in Bits
  PROVE  /\ BlockIndex(w, i) \in Nat
         /\ WordIndex(BlockIndex(w, i)) = w
         /\ BitIndex(BlockIndex(w, i)) = i
BY DEF WordIndex, BitIndex, Bits, BlockIndex

\* The blocks of the bitmap are those of its words.
LEMMA IndexBounds ==
  /\ \A w \in Words, i \in Bits : BlockIndex(w, i) \in 0 .. BitsPerWord * WordCount - 1
  /\ \A b \in 0 .. BitsPerWord * WordCount - 1 : WordIndex(b) \in Words
<1>1. ASSUME NEW w \in Words, NEW i \in Bits
      PROVE  BlockIndex(w, i) \in 0 .. BitsPerWord * WordCount - 1
  <2>1. (w + 1) * BitsPerWord <= WordCount * BitsPerWord
    BY DEF Words
  <2>. QED  BY <2>1 DEF Words, Bits, BlockIndex
<1>2. ASSUME NEW b \in 0 .. BitsPerWord * WordCount - 1
      PROVE  WordIndex(b) \in Words
  <2>1. /\ WordIndex(b) \in Nat
        /\ WordIndex(b) * BitsPerWord <= b
    BY IndexSplit DEF BlockIndex, Bits
  <2>2. ASSUME WordIndex(b) >= WordCount PROVE FALSE
    BY <2>1, <2>2
  <2>. QED  BY <2>1, <2>2 DEF Words
<1>. QED  BY <1>1, <1>2

\* A nonempty set of naturals has a least element, which ctz finds in a word.
LEMMA CtzLeast ==
  ASSUME NEW S \in SUBSET Nat, S # {}
  PROVE  Ctz(S) \in S /\ \A j \in S : Ctz(S) <= j
<1>. DEFINE R == {ss \in Nat \X Nat : ss[1] < ss[2]}
<1>1. IsWellFoundedOn(R, Nat)
  BY NatLessThanWellFounded DEF OpToRel
<1>2. PICK i \in S : \A j \in S : <<j, i>> \notin R
  <2>. HIDE DEF R
  <2>. QED  BY <1>1, WFMin
<1>3. ASSUME NEW j \in S PROVE i <= j
  <2>1. <<j, i>> \in Nat \X Nat /\ <<j, i>>[1] = j /\ <<j, i>>[2] = i
    OBVIOUS
  <2>2. ~(j < i)
    BY <1>2, <2>1
  <2>. QED  BY <2>2
<1>. QED  BY <1>3 DEF Ctz

\* The words of a span of n blocks (span.c:216-221): WordsOf(n) words, the
\* last of which may be partial.
LEMMA WordsOfBounds ==
  ASSUME NEW n \in 1 .. BitsPerWord * WordCount
  PROVE  /\ WordsOf(n) \in 1 .. WordCount
         /\ (WordsOf(n) - 1) * BitsPerWord < n
         /\ n <= WordsOf(n) * BitsPerWord
<1>1. /\ WordsOf(n) \in Int
      /\ WordsOf(n) * BitsPerWord <= n + (BitsPerWord - 1)
      /\ n + (BitsPerWord - 1) < WordsOf(n) * BitsPerWord + BitsPerWord
  BY DEF WordsOf
<1>2. ASSUME WordsOf(n) > WordCount PROVE FALSE
  <2>1. (WordCount + 1) * BitsPerWord <= WordsOf(n) * BitsPerWord
    BY <1>1, <1>2
  <2>. QED  BY <1>1, <2>1
<1>3. ASSUME WordsOf(n) < 1 PROVE FALSE
  <2>1. WordsOf(n) * BitsPerWord <= 0
    BY <1>1, <1>3
  <2>. QED  BY <1>1, <2>1
<1>. QED  BY <1>1, <1>2, <1>3

\* The set-up gives a span of n blocks exactly the bits of blocks 0 .. n - 1
\* (span.c:223-237): the mask of the last word is right.
LEMMA InitialWordExact ==
  ASSUME NEW n \in 1 .. BitsPerWord * WordCount, NEW w \in Words, NEW i \in Bits
  PROVE  i \in InitialWord(n, w) <=> BlockIndex(w, i) < n
<1>. DEFINE k == WordsOf(n)
<1>1. /\ k \in 1 .. WordCount
      /\ (k - 1) * BitsPerWord < n
      /\ n <= k * BitsPerWord
  BY WordsOfBounds
<1>. HIDE DEF k
<1>2. CASE w >= k
  <2>1. k * BitsPerWord <= w * BitsPerWord
    BY <1>1, <1>2 DEF Words
  <2>2. BlockIndex(w, i) >= n
    BY <1>1, <2>1 DEF BlockIndex, Bits, Words
  <2>3. BlockIndex(w, i) \in Int
    BY DEF BlockIndex, Bits, Words
  <2>. QED  BY <1>2, <2>2, <2>3 DEF InitialWord, k
<1>3. CASE w < k - 1
  <2>1. (w + 1) * BitsPerWord <= (k - 1) * BitsPerWord
    BY <1>1, <1>3 DEF Words
  <2>2. BlockIndex(w, i) < n
    BY <1>1, <2>1 DEF BlockIndex, Bits, Words
  <2>3. InitialWord(n, w) = Bits
    BY <1>1, <1>3 DEF InitialWord, k, Words
  <2>. QED  BY <2>2, <2>3
<1>4. CASE w = k - 1
  <2>1. BlockIndex(w, i) < n <=> i < n - (k - 1) * BitsPerWord
    BY <1>1, <1>4 DEF BlockIndex, Bits, Words
  <2>. QED  BY <1>1, <1>4, <2>1 DEF InitialWord, k, Words, Bits
<1>. QED  BY <1>1, <1>2, <1>3, <1>4 DEF Words

-----------------------------------------------------------------------------
(* The inductive invariant                                                 *)

\* The invariants of SpanBlocks and two facts they need to be inductive: a
\* span that is not in use has no block out, and a span in use has at least
\* one block.
Inv ==
  /\ TypeOK
  /\ NonfullExact
  /\ FreeCountExact
  /\ LiveFreePartition
  /\ ~is_initialized => live = {}
  /\ is_initialized => block_count > 0

AllBlocks == 0 .. BitsPerWord * WordCount - 1

LEMMA AllBlocksFinite ==
  /\ BitsPerWord * WordCount \in Nat
  /\ IsFiniteSet(AllBlocks)
  /\ AllBlocks \subseteq Nat
<1>1. BitsPerWord * WordCount \in Nat
  OBVIOUS
<1>. QED  BY <1>1, FS_Interval DEF AllBlocks

LEMMA FreeBlocksFinite == FreeBlocks \subseteq AllBlocks /\ IsFiniteSet(FreeBlocks)
<1>1. FreeBlocks \subseteq AllBlocks
  BY DEF FreeBlocks, AllBlocks
<1>. QED  BY <1>1, AllBlocksFinite, FS_Subset

\* A bit is set exactly if its block is free.
LEMMA FreeBit ==
  ASSUME TypeOK, NEW w \in Words, NEW i \in Bits
  PROVE  i \in block_bitmap[w] <=> BlockIndex(w, i) \in FreeBlocks
<1>1. /\ BlockIndex(w, i) \in 0 .. BitsPerWord * WordCount - 1
      /\ w \in Nat
  BY IndexBounds DEF Words
<1>2. WordIndex(BlockIndex(w, i)) = w /\ BitIndex(BlockIndex(w, i)) = i
  BY <1>1, IndexJoin
<1>. QED  BY <1>1, <1>2 DEF FreeBlocks

LEMMA InitInv == Init => Inv
<1>. SUFFICES ASSUME Init PROVE Inv
  OBVIOUS
<1>1. block_count \in Nat /\ block_count <= BitsPerWord * WordCount
  BY AllBlocksFinite DEF Init
<1>2. block_bitmap \in [Words -> SUBSET Bits]
  BY DEF Init
<1>3. /\ is_initialized \in BOOLEAN
      /\ free_count \in Int
      /\ nonfull_bitmap \in SUBSET Words
      /\ live \in SUBSET Nat
  <2>1. /\ is_initialized = FALSE
        /\ free_count = 0
        /\ nonfull_bitmap = {}
        /\ live = {}
    BY DEF Init
  <2>2. is_initialized \in BOOLEAN
    BY <2>1
  <2>3. free_count \in Int
    BY <2>1
  <2>4. nonfull_bitmap \in SUBSET Words /\ live \in SUBSET Nat
    BY <2>1
  <2>. QED  BY <2>2, <2>3, <2>4
<1>4. TypeOK
  BY <1>1, <1>2, <1>3 DEF TypeOK
<1>. QED  BY <1>4 DEF Init, Inv, NonfullExact, FreeCountExact, LiveFreePartition

\* cmalloc_initialize_span sets up every bit, whatever the span held before.
LEMMA InitializeSpanInv ==
  ASSUME Inv, NEW n \in BlockCounts, InitializeSpan(n)
  PROVE  Inv'
<1>1. n \in 1 .. BitsPerWord * WordCount
  OBVIOUS
<1>2. WordsOf(n) \in 1 .. WordCount /\ (WordsOf(n) - 1) * BitsPerWord < n
  BY <1>1, WordsOfBounds
<1>3. \A w \in Words : InitialWord(n, w) \in SUBSET Bits
  <2>. TAKE w \in Words
  <2>1. n - (WordsOf(n) - 1) * BitsPerWord \in Int
    BY <1>1, <1>2
  <2>. QED  BY <1>1, <1>2, <2>1 DEF InitialWord, Bits
<1>4. TypeOK'
  BY <1>1, <1>2, <1>3 DEF InitializeSpan, Inv, TypeOK, Words
<1>5. FreeBlocks' = 0 .. n - 1
  <2>1. ASSUME NEW b \in AllBlocks
        PROVE  BitIndex(b) \in block_bitmap'[WordIndex(b)] <=> b < n
    <3>1. WordIndex(b) \in Words /\ BitIndex(b) \in Bits
      BY IndexBounds, IndexSplit, AllBlocksFinite DEF AllBlocks
    <3>2. b = BlockIndex(WordIndex(b), BitIndex(b))
      BY IndexSplit, AllBlocksFinite
    <3>. QED  BY <1>1, <3>1, <3>2, InitialWordExact DEF InitializeSpan
  <2>2. FreeBlocks' = {b \in AllBlocks : b < n}
    BY <2>1 DEF FreeBlocks, AllBlocks
  <2>. QED  BY <1>1, <2>2 DEF AllBlocks
<1>6. LiveFreePartition'
  BY <1>5 DEF InitializeSpan, Inv, LiveFreePartition
<1>7. FreeCountExact'
  <2>1. Cardinality(0 .. n - 1) = n
    BY <1>1, FS_Interval
  <2>. QED  BY <1>5, <2>1 DEF InitializeSpan, FreeCountExact
<1>8. NonfullExact'
  <2>. SUFFICES ASSUME NEW w \in Words
                PROVE  w \in 0 .. WordsOf(n) - 1 <=> InitialWord(n, w) # {}
    BY DEF NonfullExact, InitializeSpan
  <2>1. CASE w >= WordsOf(n)
    BY <1>2, <2>1 DEF InitialWord, Words
  <2>2. CASE w < WordsOf(n)
    <3>1. 0 \in Bits
      BY DEF Bits
    <3>2. (w + 1) * BitsPerWord <= WordsOf(n) * BitsPerWord
      BY <1>2, <2>2 DEF Words
    <3>3. BlockIndex(w, 0) < n
      BY <1>1, <1>2, <3>2 DEF BlockIndex, Words
    <3>4. 0 \in InitialWord(n, w)
      BY <1>1, <3>1, <3>3, InitialWordExact
    <3>. QED  BY <1>2, <2>2, <3>4 DEF Words
  <2>. QED  BY <1>2, <2>1, <2>2 DEF Words
<1>. QED  BY <1>1, <1>4, <1>6, <1>7, <1>8 DEF Inv, InitializeSpan

\* The block allocate_block takes: the least one that is free.
Found == LET w == Ctz(nonfull_bitmap) IN BlockIndex(w, Ctz(block_bitmap[w]))

LEMMA FoundLeast ==
  ASSUME Inv, is_initialized, nonfull_bitmap # {}
  PROVE  /\ Ctz(nonfull_bitmap) \in Words
         /\ Ctz(block_bitmap[Ctz(nonfull_bitmap)]) \in Bits
         /\ Found \in FreeBlocks
         /\ \A b \in FreeBlocks : Found <= b
<1>. DEFINE w == Ctz(nonfull_bitmap)
            i == Ctz(block_bitmap[w])
<1>1. nonfull_bitmap \in SUBSET Nat
  BY DEF Inv, TypeOK, Words
<1>2. w \in nonfull_bitmap /\ \A v \in nonfull_bitmap : w <= v
  BY <1>1, CtzLeast
<1>3. w \in Words /\ w \in Nat
  <2>1. nonfull_bitmap \in SUBSET Words
    BY DEF Inv, TypeOK
  <2>. QED  BY <1>1, <1>2, <2>1
<1>4. block_bitmap[w] # {} /\ block_bitmap[w] \in SUBSET Bits
  BY <1>2, <1>3 DEF Inv, TypeOK, NonfullExact
<1>5. block_bitmap[w] \in SUBSET Nat
  BY <1>4 DEF Bits
<1>6. i \in block_bitmap[w] /\ \A j \in block_bitmap[w] : i <= j
  BY <1>4, <1>5, CtzLeast
<1>7. i \in Bits
  BY <1>4, <1>6
<1>8. Found = BlockIndex(w, i) /\ Found \in FreeBlocks
  BY <1>3, <1>6, <1>7, FreeBit DEF Found, Inv
<1>9. ASSUME NEW b \in FreeBlocks PROVE Found <= b
  <2>1. b \in AllBlocks /\ b \in Nat
    BY FreeBlocksFinite, AllBlocksFinite
  <2>2. /\ WordIndex(b) \in Words
        /\ WordIndex(b) \in Nat
        /\ BitIndex(b) \in Bits
        /\ b = BlockIndex(WordIndex(b), BitIndex(b))
    BY <2>1, IndexBounds, IndexSplit DEF AllBlocks
  <2>3. BitIndex(b) \in block_bitmap[WordIndex(b)]
    BY DEF FreeBlocks
  <2>4. WordIndex(b) \in nonfull_bitmap
    BY <2>2, <2>3 DEF Inv, NonfullExact
  <2>5. CASE WordIndex(b) = w
    BY <1>3, <1>6, <1>7, <1>8, <2>2, <2>3, <2>5 DEF BlockIndex, Bits
  <2>6. CASE WordIndex(b) > w
    <3>1. (w + 1) * BitsPerWord <= WordIndex(b) * BitsPerWord
      BY <1>3, <2>2, <2>6
    <3>. QED  BY <1>3, <1>7, <1>8, <2>2, <3>1 DEF BlockIndex, Bits
  <2>. QED  BY <1>2, <1>3, <2>2, <2>4, <2>5, <2>6
<1>. QED  BY <1>3, <1>7, <1>8, <1>9

\* Clearing a bit takes its block from the free ones, setting it adds it.
LEMMA ClearBit ==
  ASSUME TypeOK, NEW w \in Words, NEW i \in Bits,
         block_bitmap' = [block_bitmap EXCEPT ![w] = @ \ {i}]
  PROVE  FreeBlocks' = FreeBlocks \ {BlockIndex(w, i)}
<1>. SUFFICES ASSUME NEW b \in AllBlocks
              PROVE  BitIndex(b) \in block_bitmap'[WordIndex(b)]
                       <=> /\ BitIndex(b) \in block_bitmap[WordIndex(b)]
                           /\ b # BlockIndex(w, i)
  BY DEF FreeBlocks, AllBlocks
<1>1. /\ WordIndex(b) \in Words
      /\ b = BlockIndex(WordIndex(b), BitIndex(b))
  BY IndexBounds, IndexSplit, AllBlocksFinite DEF AllBlocks
<1>2. w \in Nat
  BY DEF Words
<1>3. b = BlockIndex(w, i) <=> WordIndex(b) = w /\ BitIndex(b) = i
  BY <1>1, <1>2, IndexJoin
<1>. QED  BY <1>1, <1>3 DEF TypeOK

LEMMA SetBit ==
  ASSUME TypeOK, NEW w \in Words, NEW i \in Bits,
         block_bitmap' = [block_bitmap EXCEPT ![w] = @ \cup {i}]
  PROVE  FreeBlocks' = FreeBlocks \cup {BlockIndex(w, i)}
<1>. SUFFICES ASSUME NEW b \in AllBlocks
              PROVE  BitIndex(b) \in block_bitmap'[WordIndex(b)]
                       <=> \/ BitIndex(b) \in block_bitmap[WordIndex(b)]
                           \/ b = BlockIndex(w, i)
  <2>1. BlockIndex(w, i) \in AllBlocks
    BY IndexBounds DEF AllBlocks
  <2>. QED  BY <2>1 DEF FreeBlocks, AllBlocks
<1>1. /\ WordIndex(b) \in Words
      /\ b = BlockIndex(WordIndex(b), BitIndex(b))
  BY IndexBounds, IndexSplit, AllBlocksFinite DEF AllBlocks
<1>2. w \in Nat
  BY DEF Words
<1>3. b = BlockIndex(w, i) <=> WordIndex(b) = w /\ BitIndex(b) = i
  BY <1>1, <1>2, IndexJoin
<1>. QED  BY <1>1, <1>3 DEF TypeOK

LEMMA AllocateBlockInv ==
  ASSUME Inv, AllocateBlock
  PROVE  /\ Inv'
         /\ live' = live \cup {Found}
         /\ Found \in (0 .. block_count - 1) \ live
         /\ 0 .. Found - 1 \subseteq live
<1>. DEFINE w == Ctz(nonfull_bitmap)
            i == Ctz(block_bitmap[w])
<1>1. is_initialized /\ nonfull_bitmap # {}
  BY DEF AllocateBlock
<1>2. /\ w \in Words
      /\ i \in Bits
      /\ Found \in FreeBlocks
      /\ \A b \in FreeBlocks : Found <= b
      /\ Found = BlockIndex(w, i)
  BY <1>1, FoundLeast DEF Found
<1>3. /\ block_bitmap' = [block_bitmap EXCEPT ![w] = @ \ {i}]
      /\ nonfull_bitmap' = IF block_bitmap'[w] = {} THEN nonfull_bitmap \ {w}
                                                    ELSE nonfull_bitmap
      /\ live' = live \cup {Found}
      /\ free_count' = free_count - 1
      /\ is_initialized' = is_initialized
      /\ block_count' = block_count
  BY DEF AllocateBlock, Found
<1>. HIDE DEF w, i
<1>4. Found \in Nat /\ Found \in (0 .. block_count - 1) \ live
  BY <1>1, <1>2, FreeBlocksFinite, AllBlocksFinite DEF Inv, LiveFreePartition
<1>5. FreeBlocks' = FreeBlocks \ {Found}
  BY <1>2, <1>3, ClearBit DEF Inv
<1>6. TypeOK'
  <2>1. block_bitmap' \in [Words -> SUBSET Bits]
    BY <1>2, <1>3 DEF Inv, TypeOK
  <2>2. nonfull_bitmap' \in SUBSET Words
    BY <1>3 DEF Inv, TypeOK
  <2>3. live' \in SUBSET Nat
    BY <1>3, <1>4 DEF Inv, TypeOK
  <2>4. /\ is_initialized' \in BOOLEAN
        /\ block_count' \in Nat
        /\ block_count' <= BitsPerWord * WordCount
        /\ free_count' \in Int
    BY <1>3 DEF Inv, TypeOK
  <2>. QED  BY <2>1, <2>2, <2>3, <2>4 DEF TypeOK
<1>7. NonfullExact'
  <2>. SUFFICES ASSUME NEW v \in Words
                PROVE  v \in nonfull_bitmap' <=> block_bitmap'[v] # {}
    BY DEF NonfullExact
  <2>1. v \in nonfull_bitmap <=> block_bitmap[v] # {}
    BY <1>1 DEF Inv, NonfullExact
  <2>2. CASE v = w
    <3>1. block_bitmap[w] # {}
      BY <1>2, FreeBit DEF Inv
    <3>. QED  BY <1>3, <2>1, <2>2, <3>1
  <2>3. CASE v # w
    BY <1>3, <2>1, <2>3 DEF Inv, TypeOK
  <2>. QED  BY <2>2, <2>3
<1>8. FreeCountExact'
  <2>1. Cardinality(FreeBlocks') = Cardinality(FreeBlocks) - 1
    BY <1>2, <1>5, FreeBlocksFinite, FS_RemoveElement
  <2>. QED  BY <1>1, <1>3, <2>1 DEF Inv, FreeCountExact
<1>9. LiveFreePartition'
  BY <1>1, <1>2, <1>3, <1>5 DEF Inv, LiveFreePartition
<1>10. 0 .. Found - 1 \subseteq live
  <2>1. ASSUME NEW b \in 0 .. Found - 1 PROVE b \in live
    <3>1. b \in 0 .. block_count - 1
      BY <1>4 DEF Inv, TypeOK
    <3>2. b \notin FreeBlocks
      BY <1>2, <1>4
    <3>. QED  BY <1>1, <3>1, <3>2 DEF Inv, LiveFreePartition
  <2>. QED  BY <2>1
<1>. QED  BY <1>1, <1>3, <1>4, <1>6, <1>7, <1>8, <1>9, <1>10 DEF Inv

LEMMA FreeBlockInv ==
  ASSUME Inv, NEW b \in live, FreeBlock(b)
  PROVE  Inv'
<1>. DEFINE w == WordIndex(b)
            i == BitIndex(b)
<1>1. is_initialized
  BY DEF Inv
<1>2. /\ b \in 0 .. block_count - 1
      /\ b \notin FreeBlocks
      /\ b \in AllBlocks
  BY <1>1 DEF Inv, TypeOK, LiveFreePartition, AllBlocks
<1>3. w \in Words /\ i \in Bits /\ b = BlockIndex(w, i)
  BY <1>2, IndexBounds, IndexSplit, AllBlocksFinite DEF AllBlocks
<1>4. /\ block_bitmap' = [block_bitmap EXCEPT ![w] = @ \cup {i}]
      /\ nonfull_bitmap' = nonfull_bitmap \cup {w}
      /\ live' = live \ {b}
      /\ free_count' = free_count + 1
      /\ is_initialized' = is_initialized
      /\ block_count' = block_count
  BY DEF FreeBlock
<1>. HIDE DEF w, i
<1>5. FreeBlocks' = FreeBlocks \cup {b}
  BY <1>3, <1>4, SetBit DEF Inv
<1>6. TypeOK'
  <2>1. block_bitmap' \in [Words -> SUBSET Bits]
    BY <1>3, <1>4 DEF Inv, TypeOK
  <2>2. nonfull_bitmap' \in SUBSET Words /\ live' \in SUBSET Nat
    BY <1>3, <1>4 DEF Inv, TypeOK
  <2>3. /\ is_initialized' \in BOOLEAN
        /\ block_count' \in Nat
        /\ block_count' <= BitsPerWord * WordCount
        /\ free_count' \in Int
    BY <1>4 DEF Inv, TypeOK
  <2>. QED  BY <2>1, <2>2, <2>3 DEF TypeOK
<1>7. NonfullExact'
  <2>. SUFFICES ASSUME NEW v \in Words
                PROVE  v \in nonfull_bitmap' <=> block_bitmap'[v] # {}
    BY DEF NonfullExact
  <2>1. v \in nonfull_bitmap <=> block_bitmap[v] # {}
    BY <1>1 DEF Inv, NonfullExact
  <2>2. CASE v = w
    BY <1>4, <2>2 DEF Inv, TypeOK
  <2>3. CASE v # w
    BY <1>4, <2>1, <2>3 DEF Inv, TypeOK
  <2>. QED  BY <2>2, <2>3
<1>8. FreeCountExact'
  <2>1. Cardinality(FreeBlocks') = Cardinality(FreeBlocks) + 1
    BY <1>2, <1>5, FreeBlocksFinite, FS_AddElement
  <2>. QED  BY <1>1, <1>4, <2>1 DEF Inv, FreeCountExact
<1>9. LiveFreePartition'
  BY <1>1, <1>2, <1>4, <1>5 DEF Inv, LiveFreePartition
<1>. QED  BY <1>1, <1>4, <1>6, <1>7, <1>8, <1>9 DEF Inv

\* cmalloc_cache_span.  A one-block span has no block but 0.
LEMMA CacheSpanInv ==
  ASSUME Inv, CacheSpan
  PROVE  /\ Inv'
         /\ live' = {}
         /\ live = {} \/ block_count = 1
<1>1. live = {} \/ block_count = 1
  <2>1. SUFFICES ASSUME free_count = block_count PROVE live = {}
    BY DEF CacheSpan
  <2>2. /\ is_initialized
        /\ Cardinality(FreeBlocks) = block_count
        /\ FreeBlocks \subseteq 0 .. block_count - 1
        /\ block_count \in Nat
    BY <2>1 DEF Inv, TypeOK, FreeCountExact, LiveFreePartition, CacheSpan
  <2>3. /\ IsFiniteSet(0 .. block_count - 1)
        /\ Cardinality(0 .. block_count - 1) = block_count
    <3>1. block_count - 1 \in Int
      BY <2>2
    <3>2. /\ IsFiniteSet(0 .. block_count - 1)
          /\ Cardinality(0 .. block_count - 1)
               = IF 0 > block_count - 1 THEN 0 ELSE block_count - 1 - 0 + 1
      BY <3>1, FS_Interval
    <3>. QED  BY <2>2, <3>2
  <2>4. FreeBlocks = 0 .. block_count - 1
    BY <2>2, <2>3, FS_Subset
  <2>. QED  BY <2>2, <2>4 DEF Inv, LiveFreePartition
<1>2. live' = {}
  BY <1>1 DEF CacheSpan
<1>3. TypeOK'
  BY <1>2 DEF Inv, TypeOK, CacheSpan
<1>. QED  BY <1>1, <1>2, <1>3 DEF Inv, CacheSpan, NonfullExact, FreeCountExact,
                                  LiveFreePartition

LEMMA StutterInv ==
  ASSUME Inv, UNCHANGED vars
  PROVE  Inv'
BY DEF Inv, vars, TypeOK, NonfullExact, FreeCountExact, LiveFreePartition, FreeBlocks

LEMMA NextInv == Inv /\ [Next]_vars => Inv'
<1>. SUFFICES ASSUME Inv, [Next]_vars PROVE Inv'
  OBVIOUS
<1>1. ASSUME NEW n \in BlockCounts, InitializeSpan(n) PROVE Inv'
  BY <1>1, InitializeSpanInv
<1>2. CASE AllocateBlock
  BY <1>2, AllocateBlockInv
<1>3. CASE AllocateNull
  BY <1>3, StutterInv DEF AllocateNull
<1>4. ASSUME NEW b \in live, FreeBlock(b) PROVE Inv'
  BY <1>4, FreeBlockInv
<1>5. CASE CacheSpan
  BY <1>5, CacheSpanInv
<1>6. CASE UNCHANGED vars
  BY <1>6, StutterInv
<1>. QED  BY <1>1, <1>2, <1>3, <1>4, <1>5, <1>6 DEF Next

\* Every sequence of allocate_block, free_block and re-initializations keeps the
\* inductive invariant.
THEOREM SpecInv == Spec => []Inv
<1>. QED  BY InitInv, NextInv, PTL DEF Spec

-----------------------------------------------------------------------------
(* What follows for every behaviour                                        *)

\* The fields of span_t keep their types; in particular no index leaves the
\* bitmap's words, and no bit leaves a word.
THEOREM SpecTypeOK == Spec => []TypeOK
<1>1. Inv => TypeOK
  BY DEF Inv
<1>. QED  BY <1>1, SpecInv, PTL

\* nonfull_bitmap always summarizes block_bitmap exactly.
THEOREM SpecNonfullExact == Spec => []NonfullExact
<1>1. Inv => NonfullExact
  BY DEF Inv
<1>. QED  BY <1>1, SpecInv, PTL

\* free_count is always the number of set bits.
THEOREM SpecFreeCountExact == Spec => []FreeCountExact
<1>1. Inv => FreeCountExact
  BY DEF Inv
<1>. QED  BY <1>1, SpecInv, PTL

\* No block is ever both free and held, none is lost, and none beyond
\* block_count is given out.
THEOREM SpecLiveFreePartition == Spec => []LiveFreePartition
<1>1. Inv => LiveFreePartition
  BY DEF Inv
<1>. QED  BY <1>1, SpecInv, PTL

\* allocate_block always gives out the lowest free block.
THEOREM SpecFirstFit == Spec => FirstFit
<1>1. ASSUME Inv, [Next]_vars
      PROVE  [\A b \in live' \ live : 0 .. b - 1 \subseteq live]_vars
  <2>. SUFFICES ASSUME Next, NEW b \in live' \ live
                PROVE  0 .. b - 1 \subseteq live
    BY <1>1
  <2>1. CASE AllocateBlock
    BY <1>1, <2>1, AllocateBlockInv
  <2>2. CASE ~AllocateBlock
    BY <2>2 DEF Next, InitializeSpan, AllocateNull, vars, FreeBlock, CacheSpan
  <2>. QED  BY <2>1, <2>2
<1>. QED  BY <1>1, SpecInv, PTL DEF Spec, FirstFit

\* The bitmap implements the abstract pool of blocks.
THEOREM SpecImplementsPool == Spec => ImplementsPool
<1>1. Init => Pool!Init
  BY DEF Init, Pool!Init
<1>2. ASSUME Inv, [Next]_vars
      PROVE  [Pool!Next]_Pool!vars
  <2>1. ASSUME NEW n \in BlockCounts, InitializeSpan(n) PROVE Pool!Next
    <3>1. Pool!Open(n)
      BY <1>2, <2>1 DEF Inv, InitializeSpan, Pool!Open
    <3>. QED  BY <3>1 DEF Pool!Next
  <2>2. CASE AllocateBlock
    <3>1. Found \in 0 .. block_count - 1 /\ Pool!Take(Found)
      BY <1>2, <2>2, AllocateBlockInv DEF AllocateBlock, Pool!Take
    <3>. QED  BY <3>1 DEF Pool!Next
  <2>3. CASE AllocateNull
    BY <2>3 DEF AllocateNull, vars, Pool!vars
  <2>4. ASSUME NEW b \in live, FreeBlock(b) PROVE Pool!Next
    <3>1. Pool!Give(b)
      BY <2>4 DEF FreeBlock, Pool!Give
    <3>. QED  BY <3>1 DEF Pool!Next
  <2>5. CASE CacheSpan
    <3>1. Pool!Close
      BY <1>2, <2>5, CacheSpanInv DEF CacheSpan, Pool!Close
    <3>. QED  BY <3>1 DEF Pool!Next
  <2>6. CASE UNCHANGED vars
    BY <2>6 DEF vars, Pool!vars
  <2>. QED  BY <1>2, <2>1, <2>2, <2>3, <2>4, <2>5, <2>6 DEF Next
<1>. QED  BY <1>1, <1>2, SpecInv, PTL DEF Spec, ImplementsPool, Pool!Spec
=============================================================================
