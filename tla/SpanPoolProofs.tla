---------------------------- MODULE SpanPoolProofs ----------------------------
(***************************************************************************)
(* Proofs about SpanPool, for every number of pages and spans, every chunk *)
(* and bin size and every set of requests that round_up_page does not      *)
(* wrap: the page map, the bins, their bitmap and the links between        *)
(* neighbours stay exact, and the span layer implements PageHeap.          *)
(***************************************************************************)
EXTENDS SpanPool, FiniteSetTheorems, WellFoundedInduction, TLAPS

USE SpanPoolAssumption

-----------------------------------------------------------------------------
(* Page arithmetic and the bitmap                                          *)

\* __builtin_ctzll of a word that is not zero: the lowest bit exists.
LEMMA LeastExists ==
  ASSUME NEW S \in SUBSET Nat, S # {}
  PROVE  LeastOf(S) \in S /\ \A j \in S : LeastOf(S) <= j
<1>. DEFINE R == {ss \in Nat \X Nat : ss[1] < ss[2]}
<1>1. IsWellFoundedOn(R, Nat)
  BY NatLessThanWellFounded DEF OpToRel
<1>2. PICK i \in S : \A j \in S : <<j, i>> \notin R
  <2>. HIDE DEF R
  <2>. QED  BY <1>1, WFMin
<1>3. ASSUME NEW j \in S PROVE i <= j
  <2>1. <<j, i>> \in Nat \X Nat /\ <<j, i>>[1] = j /\ <<j, i>>[2] = i
    OBVIOUS
  <2>2. ~(j < i)
    BY <1>2, <2>1
  <2>. QED  BY <2>2
<1>. QED  BY <1>3 DEF LeastOf

LEMMA DivMod ==
  ASSUME NEW a \in Nat, NEW m \in Nat \ {0}
  PROVE  a \div m \in Nat /\ a % m \in 0 .. m - 1 /\ a = m * (a \div m) + (a % m)
<1>1. a \div m \in Int /\ a % m \in 0 .. m - 1
  OBVIOUS
<1>2. a = m * (a \div m) + (a % m)
  OBVIOUS
<1>3. a \div m >= 0
  <2>1. PICK q \in Int : q = a \div m
    BY <1>1
  <2>2. q <= -1 => m * q <= -m
    OBVIOUS
  <2>. QED  BY <1>1, <1>2, <2>1, <2>2
<1>. QED  BY <1>1, <1>2, <1>3

LEMMA ModSmall ==
  ASSUME NEW a \in Nat, NEW m \in Nat \ {0}, a < m
  PROVE  a % m = a
<1>1. a \div m \in Nat /\ a % m \in 0 .. m - 1 /\ a = m * (a \div m) + (a % m)
  BY DivMod
<1>2. CASE a \div m = 0
  <2>1. m * (a \div m) = 0
    BY <1>2
  <2>. QED  BY <1>1, <2>1
<1>3. CASE a \div m >= 1
  <2>1. PICK q \in Nat : q = a \div m
    BY <1>1
  <2>2. m * q >= m
    BY <1>3, <2>1
  <2>. QED  BY <1>1, <2>1, <2>2
<1>. QED  BY <1>1, <1>2, <1>3

\* round_up_page, when it does not wrap, gives enough pages (common.h:125).
LEMMA RoundUpFits ==
  ASSUME NoWrap, NEW size \in Requests
  PROVE  /\ RoundUpPage(size) \in 1 .. SIZE_MAX
         /\ size <= RoundUpPage(size) * PAGE_SIZE
<1>1. PICK num \in Nat : num = size + (PAGE_SIZE - 1) /\ num <= SIZE_MAX /\ num >= PAGE_SIZE
  BY DEF NoWrap
<1>2. num % (SIZE_MAX + 1) = num
  BY <1>1, ModSmall
<1>3. RoundUpPage(size) = num \div PAGE_SIZE
  BY <1>1, <1>2 DEF RoundUpPage
<1>4. PICK q \in Nat, r \in 0 .. PAGE_SIZE - 1 :
        num = PAGE_SIZE * q + r /\ q = num \div PAGE_SIZE
  BY <1>1, DivMod
<1>5. size <= q * PAGE_SIZE
  BY <1>1, <1>4
<1>6. q >= 1
  <2>. SUFFICES ASSUME q = 0 PROVE FALSE
    BY <1>4
  <2>1. q * PAGE_SIZE = 0
    OBVIOUS
  <2>. QED  BY <1>1, <1>4, <2>1
<1>7. q <= q * PAGE_SIZE
  BY <1>4
<1>8. q <= SIZE_MAX
  BY <1>1, <1>4, <1>7
<1>. QED  BY <1>3, <1>4, <1>5, <1>6, <1>8

\* The word and the bit of a bin (span.c:34-45).
LEMMA BinBit ==
  /\ \A n \in BinIndex : /\ WordIndex(n) \in Words /\ BitIndex(n) \in Bits
                         /\ n = WordIndex(n) * BITS_PER_WORD + BitIndex(n)
  /\ \A w \in Nat, i \in Bits : /\ w * BITS_PER_WORD + i \in Nat
                                /\ WordIndex(w * BITS_PER_WORD + i) = w
                                /\ BitIndex(w * BITS_PER_WORD + i) = i
  /\ FREE_BITMAP_WORDS \in Nat
<1>1. FREE_BITMAP_WORDS \in Nat /\ MAX_BINNED_PAGES <= FREE_BITMAP_WORDS * BITS_PER_WORD
  BY DEF FREE_BITMAP_WORDS
<1>2. ASSUME NEW n \in Nat
      PROVE  /\ WordIndex(n) \in Nat /\ BitIndex(n) \in Bits
             /\ n = WordIndex(n) * BITS_PER_WORD + BitIndex(n)
  BY DEF WordIndex, BitIndex, Bits
<1>3. ASSUME NEW n \in BinIndex PROVE WordIndex(n) \in Words
  <2>1. n \in Nat /\ n < MAX_BINNED_PAGES
    BY DEF BinIndex
  <2>2. WordIndex(n) * BITS_PER_WORD < FREE_BITMAP_WORDS * BITS_PER_WORD
    BY <1>1, <1>2, <2>1 DEF Bits
  <2>3. WordIndex(n) < FREE_BITMAP_WORDS
    BY <1>1, <1>2, <2>1, <2>2
  <2>. QED  BY <1>1, <1>2, <2>1, <2>3 DEF Words
<1>4. ASSUME NEW w \in Nat, NEW i \in Bits
      PROVE  /\ w * BITS_PER_WORD + i \in Nat
             /\ WordIndex(w * BITS_PER_WORD + i) = w
             /\ BitIndex(w * BITS_PER_WORD + i) = i
  BY DEF WordIndex, BitIndex, Bits
<1>. QED  BY <1>1, <1>2, <1>3, <1>4 DEF BinIndex

\* A number has one word and one bit.
LEMMA SameBit ==
  ASSUME NEW v \in Nat, NEW j \in Bits, NEW w \in Nat, NEW i \in Bits,
         v * BITS_PER_WORD + j = w * BITS_PER_WORD + i
  PROVE  v = w /\ j = i
<1>1. PICK n \in Nat : n = v * BITS_PER_WORD + j /\ n = w * BITS_PER_WORD + i
  BY BinBit
<1>2. WordIndex(n) = v /\ BitIndex(n) = j
  BY <1>1, BinBit
<1>3. WordIndex(n) = w /\ BitIndex(n) = i
  BY <1>1, BinBit
<1>. QED  BY <1>2, <1>3

\* Bins in order of size are bits in order of word and bit.
LEMMA WordOrder ==
  ASSUME NEW v \in Nat, NEW i \in Bits, NEW w \in Nat, NEW j \in Bits,
         v * BITS_PER_WORD + i <= w * BITS_PER_WORD + j
  PROVE  v <= w /\ (v = w => i <= j)
<1>1. i \in Nat /\ j \in Nat /\ i < BITS_PER_WORD /\ j < BITS_PER_WORD
  BY DEF Bits
<1>2. v <= w
  <2>. SUFFICES ASSUME w + 1 <= v PROVE FALSE
    OBVIOUS
  <2>1. (w + 1) * BITS_PER_WORD <= v * BITS_PER_WORD
    OBVIOUS
  <2>2. (w + 1) * BITS_PER_WORD = w * BITS_PER_WORD + BITS_PER_WORD
    OBVIOUS
  <2>3. PICK p \in Nat, q \in Nat : p = w * BITS_PER_WORD /\ q = v * BITS_PER_WORD
    OBVIOUS
  <2>. QED  BY <1>1, <2>1, <2>2, <2>3
<1>3. v = w => i <= j
  <2>1. PICK p \in Nat : p = w * BITS_PER_WORD
    OBVIOUS
  <2>. QED  BY <1>1, <2>1
<1>. QED  BY <1>2, <1>3

\* find_best_fitting_uninitialized_span finds the shortest of the idle spans
\* that are long enough, and nothing only if there is none (span.c:50-78).
LEMMA BestFitting ==
  ASSUME TypeOK, BitmapInv, NEW n \in BinIndex
  PROVE  IF FindBestFitting(n) = NO_FITTING
           THEN \A m \in BinIndex : m >= n => uninitilized_span_bin[m] = NULL
           ELSE /\ FindBestFitting(n) \in BinIndex /\ FindBestFitting(n) >= n
                /\ uninitilized_span_bin[FindBestFitting(n)] # NULL
                /\ \A m \in BinIndex : m >= n /\ m < FindBestFitting(n) =>
                     uninitilized_span_bin[m] = NULL
<1>. DEFINE masked(w) == IF w = WordIndex(n)
                           THEN {i \in non_empty_bitmap[w] : i >= BitIndex(n)}
                           ELSE non_empty_bitmap[w]
            hits == {w \in Words : w >= WordIndex(n) /\ masked(w) # {}}
            found == LeastOf(hits) * BITS_PER_WORD + LeastOf(masked(LeastOf(hits)))
<1>1. FindBestFitting(n) = IF hits = {} THEN NO_FITTING ELSE found
  BY DEF FindBestFitting
<1>2. /\ WordIndex(n) \in Nat /\ BitIndex(n) \in Bits
      /\ n = WordIndex(n) * BITS_PER_WORD + BitIndex(n)
      /\ Words \subseteq Nat /\ Bits \subseteq Nat
  BY BinBit DEF Words, Bits
<1>3. \A w \in Words : masked(w) \in SUBSET Nat /\ masked(w) \subseteq Bits
  BY <1>2 DEF TypeOK
<1>4. ASSUME NEW m \in BinIndex, m >= n, uninitilized_span_bin[m] # NULL
      PROVE  WordIndex(m) \in hits /\ BitIndex(m) \in masked(WordIndex(m))
  <2>1. /\ WordIndex(m) \in Words /\ BitIndex(m) \in Bits
        /\ m = WordIndex(m) * BITS_PER_WORD + BitIndex(m)
    BY BinBit
  <2>2. BitIndex(m) \in non_empty_bitmap[WordIndex(m)]
    BY <1>4, <2>1 DEF BitmapInv, BitmapExact
  <2>3. WordIndex(n) <= WordIndex(m) /\ (WordIndex(n) = WordIndex(m) => BitIndex(n) <= BitIndex(m))
    <3>1. PICK w \in Nat, j \in Bits : w = WordIndex(m) /\ j = BitIndex(m)
      BY <1>2, <2>1
    <3>2. PICK v \in Nat, i \in Bits : v = WordIndex(n) /\ i = BitIndex(n)
      BY <1>2
    <3>3. v * BITS_PER_WORD + i <= w * BITS_PER_WORD + j
      BY <1>2, <1>4, <2>1, <3>1, <3>2
    <3>4. v <= w /\ (v = w => i <= j)
      BY <3>3, WordOrder
    <3>. QED  BY <3>1, <3>2, <3>4
  <2>. QED  BY <1>2, <2>1, <2>2, <2>3
<1>5. ASSUME NEW w \in hits, NEW i \in masked(w)
      PROVE  /\ w * BITS_PER_WORD + i \in BinIndex /\ w * BITS_PER_WORD + i >= n
             /\ uninitilized_span_bin[w * BITS_PER_WORD + i] # NULL
  <2>1. w \in Nat /\ w \in Words /\ i \in Bits /\ i \in non_empty_bitmap[w]
    BY <1>2, <1>3
  <2>2. w * BITS_PER_WORD + i \in BinIndex /\ uninitilized_span_bin[w * BITS_PER_WORD + i] # NULL
    BY <2>1 DEF BitmapInv, BitmapExact
  <2>3. w * BITS_PER_WORD + i >= n
    <3>1. w >= WordIndex(n) /\ (w = WordIndex(n) => i >= BitIndex(n))
      OBVIOUS
    <3>2. PICK v \in Nat, j \in Bits : v = WordIndex(n) /\ j = BitIndex(n)
      BY <1>2
    <3>3. PICK p \in Nat : p = w * BITS_PER_WORD + i
      BY <1>2, <2>1
    <3>4. CASE ~(p >= n)
      <4>1. w * BITS_PER_WORD + i <= v * BITS_PER_WORD + j /\ p # n
        BY <1>2, <3>2, <3>3, <3>4 DEF BinIndex
      <4>2. w <= v /\ (w = v => i <= j)
        BY <2>1, <4>1, WordOrder
      <4>3. w = v /\ i = j
        BY <1>2, <2>1, <3>1, <3>2, <4>2
      <4>. QED  BY <1>2, <3>2, <3>3, <4>1, <4>3
    <3>. QED  BY <3>3, <3>4
  <2>. QED  BY <2>2, <2>3
<1>. HIDE DEF masked
<1>6. CASE hits = {}
  <2>. HIDE DEF hits
  <2>. QED  BY <1>1, <1>4, <1>6
<1>7. CASE hits # {}
  <2>1. hits \in SUBSET Nat /\ hits \subseteq Words
    BY <1>2
  <2>2. LeastOf(hits) \in hits /\ \A w \in hits : LeastOf(hits) <= w
    <3>. HIDE DEF hits
    <3>. QED  BY <1>7, <2>1, LeastExists
  <2>3. PICK w \in hits : w = LeastOf(hits) /\ \A v \in hits : w <= v
    BY <2>2
  <2>4. masked(w) # {} /\ masked(w) \in SUBSET Nat /\ masked(w) \subseteq Bits /\ w \in Nat
    BY <1>2, <1>3, <2>1
  <2>5. PICK i \in masked(w) : i = LeastOf(masked(w)) /\ \A j \in masked(w) : i <= j
    BY <2>4, LeastExists
  <2>6. FindBestFitting(n) = w * BITS_PER_WORD + i
    BY <1>1, <1>7, <2>3, <2>5
  <2>7. PICK p \in BinIndex : p = w * BITS_PER_WORD + i /\ p >= n /\ uninitilized_span_bin[p] # NULL
    BY <1>5
  <2>. HIDE DEF hits
  <2>8. ASSUME NEW m \in BinIndex, m >= n, uninitilized_span_bin[m] # NULL PROVE p <= m
    <3>1. WordIndex(m) \in hits /\ BitIndex(m) \in masked(WordIndex(m))
      BY <1>4, <2>8
    <3>2. w <= WordIndex(m) /\ (w = WordIndex(m) => i <= BitIndex(m))
      BY <2>3, <2>5, <3>1
    <3>3. PICK v \in Nat, j \in Bits : v = WordIndex(m) /\ j = BitIndex(m) /\ m = v * BITS_PER_WORD + j
      <4>1. /\ WordIndex(m) \in Nat /\ BitIndex(m) \in Bits
            /\ m = WordIndex(m) * BITS_PER_WORD + BitIndex(m)
        BY <1>2, BinBit
      <4>. QED  BY <4>1
    <3>4. CASE ~(p <= m)
      <4>1. v * BITS_PER_WORD + j <= w * BITS_PER_WORD + i /\ p # m
        BY <2>7, <3>3, <3>4 DEF BinIndex
      <4>2. v <= w /\ (v = w => j <= i)
        BY <2>4, <3>3, <4>1, WordOrder
      <4>3. v = w /\ j = i
        BY <1>2, <2>4, <3>2, <3>3, <4>2
      <4>. QED  BY <2>7, <3>3, <4>1, <4>3
    <3>. QED  BY <3>4 DEF BinIndex
  <2>9. p # NO_FITTING /\ p = FindBestFitting(n)
    BY <2>6, <2>7 DEF BinIndex, NO_FITTING
  <2>. QED  BY <2>7, <2>8, <2>9 DEF BinIndex
<1>. QED  BY <1>6, <1>7

-----------------------------------------------------------------------------
(* The lists of the bins                                                   *)

\* A list without repetition is no longer than there are span_t objects.
LEMMA ListLength ==
  ASSUME NEW k \in Nat, NEW l \in [1 .. k -> SpanIds],
         \A i, j \in 1 .. k : l[i] = l[j] => i = j
  PROVE  k \in 0 .. MaxSpans
<1>1. l \in Injection(1 .. k, SpanIds)
  BY DEF Injection, IsInjective
<1>2. IsFiniteSet(SpanIds) /\ Cardinality(SpanIds) = MaxSpans /\ Cardinality(1 .. k) = k
  BY FS_Interval DEF SpanIds
<1>3. Cardinality(1 .. k) <= Cardinality(SpanIds)
  BY <1>1, <1>2, FS_Injection
<1>. QED  BY <1>2, <1>3

\* The head of a chain, and what is behind it.
LEMMA ChainHead ==
  ASSUME NEW h, NEW sp, NEW S, Chain(h, sp, S)
  PROVE  /\ S \subseteq SpanIds
         /\ h = NULL <=> S = {}
         /\ h # NULL => h \in S /\ Chain(sp[h].next, sp, S \ {h})
<1>1. PICK k \in 0 .. MaxSpans : \E l \in [1 .. k -> SpanIds] :
        Lists(l, k, sp, S) /\ h = IF k = 0 THEN NULL ELSE l[1]
  BY DEF Chain
<1>2. PICK l \in [1 .. k -> SpanIds] :
        Lists(l, k, sp, S) /\ h = IF k = 0 THEN NULL ELSE l[1]
  BY <1>1
<1>3. S \subseteq SpanIds
  BY <1>2 DEF Lists
<1>4. CASE k = 0
  <2>1. S = {} /\ h = NULL
    BY <1>2, <1>4 DEF Lists
  <2>. QED  BY <1>3, <2>1
<1>5. CASE k # 0
  <2>1. k \in Nat /\ 1 \in 1 .. k /\ h = l[1] /\ h \in SpanIds /\ h \in S
    BY <1>2, <1>5 DEF Lists
  <2>2. h # NULL
    BY <2>1 DEF SpanIds
  <2>. DEFINE m == [i \in 1 .. k - 1 |-> l[i + 1]]
  <2>3. k - 1 \in 0 .. MaxSpans /\ m \in [1 .. k - 1 -> SpanIds]
    BY <1>5, <2>1
  <2>4. \A i \in 1 .. k - 1 : i + 1 \in 1 .. k /\ m[i] = l[i + 1]
    BY <2>1
  <2>5. \A i, j \in 1 .. k - 1 : m[i] = m[j] => i = j
    <3>1. ASSUME NEW i \in 1 .. k - 1, NEW j \in 1 .. k - 1, m[i] = m[j] PROVE i = j
      <4>1. i + 1 = j + 1
        BY <1>2, <2>4, <3>1 DEF Lists
      <4>. QED  BY <2>1, <4>1
    <3>. QED  BY <3>1
  <2>6. S \ {h} = {m[i] : i \in 1 .. k - 1}
    <3>1. ASSUME NEW x \in S \ {h} PROVE \E i \in 1 .. k - 1 : x = m[i]
      <4>1. PICK i \in 1 .. k : x = l[i]
        BY <1>2 DEF Lists
      <4>2. i # 1
        BY <2>1, <4>1
      <4>3. PICK j \in 1 .. k - 1 : i = j + 1
        BY <2>1, <4>2
      <4>. QED  BY <2>4, <4>1, <4>3
    <3>2. ASSUME NEW i \in 1 .. k - 1 PROVE m[i] \in S \ {h}
      <4>1. i + 1 # 1 /\ l[i + 1] # l[1]
        BY <1>2, <2>1, <2>4 DEF Lists
      <4>2. l[i + 1] \in S
        BY <1>2, <2>4 DEF Lists
      <4>. QED  BY <2>1, <2>4, <4>1, <4>2
    <3>. QED  BY <3>1, <3>2
  <2>7. ASSUME NEW i \in 1 .. k - 1
        PROVE  sp[m[i]].next = IF i = k - 1 THEN NULL ELSE m[i + 1]
    <3>1. sp[l[i + 1]].next = IF i + 1 = k THEN NULL ELSE l[(i + 1) + 1]
      BY <1>2, <2>4 DEF Lists
    <3>2. CASE i = k - 1
      BY <2>1, <2>4, <3>1, <3>2
    <3>3. CASE i # k - 1
      <4>1. i + 1 \in 1 .. k - 1 /\ i + 1 # k
        BY <2>1, <3>3
      <4>. QED  BY <2>4, <3>1, <3>3, <4>1
    <3>. QED  BY <3>2, <3>3
  <2>8. sp[h].next = IF k - 1 = 0 THEN NULL ELSE m[1]
    <3>1. sp[l[1]].next = IF 1 = k THEN NULL ELSE l[1 + 1]
      BY <1>2, <2>1 DEF Lists
    <3>2. CASE k = 1
      BY <2>1, <3>1, <3>2
    <3>3. CASE k # 1
      <4>1. 1 \in 1 .. k - 1
        BY <2>1, <3>3
      <4>. QED  BY <2>1, <2>4, <3>1, <3>3, <4>1
    <3>. QED  BY <3>2, <3>3
  <2>. HIDE DEF m
  <2>9. Lists(m, k - 1, sp, S \ {h})
    BY <2>5, <2>6, <2>7 DEF Lists
  <2>10. Chain(sp[h].next, sp, S \ {h})
    BY <2>3, <2>8, <2>9 DEF Chain
  <2>. QED  BY <1>3, <2>1, <2>2, <2>10
<1>. QED  BY <1>4, <1>5

\* Writes to other spans leave a bin as it is.
LEMMA ChainKept ==
  ASSUME NEW h, NEW sp, NEW S, Chain(h, sp, S), NEW sp2,
         \A s \in S : sp2[s].next = sp[s].next
  PROVE  Chain(h, sp2, S)
<1>1. ASSUME NEW k \in 0 .. MaxSpans, NEW l \in [1 .. k -> SpanIds], Lists(l, k, sp, S)
      PROVE  Lists(l, k, sp2, S)
  BY <1>1 DEF Lists
<1>. QED  BY <1>1 DEF Chain

\* A span put in front of a bin (span.c:121-122, 174-176, 193-194).
LEMMA ChainPush ==
  ASSUME NEW h, NEW sp, NEW S, Chain(h, sp, S), NEW s \in SpanIds, s \notin S, NEW sp2,
         sp2[s].next = h, \A r \in S : sp2[r].next = sp[r].next
  PROVE  Chain(s, sp2, S \cup {s})
<1>1. PICK k \in 0 .. MaxSpans : \E l \in [1 .. k -> SpanIds] :
        Lists(l, k, sp, S) /\ h = IF k = 0 THEN NULL ELSE l[1]
  BY DEF Chain
<1>2. PICK l \in [1 .. k -> SpanIds] :
        Lists(l, k, sp, S) /\ h = IF k = 0 THEN NULL ELSE l[1]
  BY <1>1
<1>3. k \in Nat /\ \A i \in 1 .. k : l[i] \in S
  BY <1>2 DEF Lists
<1>. DEFINE m == [i \in 1 .. k + 1 |-> IF i = 1 THEN s ELSE l[i - 1]]
<1>4. m \in [1 .. k + 1 -> SpanIds]
  BY <1>3
<1>5. m[1] = s /\ \A i \in 1 .. k : i + 1 \in 1 .. k + 1 /\ m[i + 1] = l[i]
  BY <1>3
<1>6. \A i \in 1 .. k + 1 : i = 1 \/ \E j \in 1 .. k : i = j + 1
  <2>1. ASSUME NEW i \in 1 .. k + 1, i # 1 PROVE i - 1 \in 1 .. k /\ i = (i - 1) + 1
    BY <1>3, <2>1
  <2>. QED  BY <2>1
<1>. HIDE DEF m
<1>7. ASSUME NEW i \in 1 .. k + 1, NEW j \in 1 .. k + 1, m[i] = m[j] PROVE i = j
  <2>1. CASE i = 1 /\ j = 1
    BY <2>1
  <2>2. CASE i # 1 /\ j = 1
    <3>1. PICK a \in 1 .. k : i = a + 1
      BY <1>6, <2>2
    <3>2. m[i] = l[a] /\ m[j] = s /\ l[a] \in S
      BY <1>3, <1>5, <2>2, <3>1
    <3>. QED  BY <1>7, <3>2
  <2>3. CASE i = 1 /\ j # 1
    <3>1. PICK b \in 1 .. k : j = b + 1
      BY <1>6, <2>3
    <3>2. m[j] = l[b] /\ m[i] = s /\ l[b] \in S
      BY <1>3, <1>5, <2>3, <3>1
    <3>. QED  BY <1>7, <3>2
  <2>4. CASE i # 1 /\ j # 1
    <3>1. PICK a \in 1 .. k, b \in 1 .. k : i = a + 1 /\ j = b + 1
      BY <1>6, <2>4
    <3>2. l[a] = l[b]
      BY <1>5, <1>7, <3>1
    <3>3. a = b
      BY <1>2, <3>2 DEF Lists
    <3>. QED  BY <3>1, <3>3
  <2>. QED  BY <2>1, <2>2, <2>3, <2>4
<1>8. S \cup {s} = {m[i] : i \in 1 .. k + 1}
  <2>1. ASSUME NEW x \in S PROVE \E i \in 1 .. k + 1 : x = m[i]
    <3>1. PICK i \in 1 .. k : x = l[i]
      BY <1>2 DEF Lists
    <3>. QED  BY <1>5, <3>1
  <2>2. \E i \in 1 .. k + 1 : s = m[i]
    BY <1>3, <1>5
  <2>3. ASSUME NEW i \in 1 .. k + 1 PROVE m[i] \in S \cup {s}
    <3>1. CASE i = 1
      BY <1>5, <3>1
    <3>2. CASE i # 1
      <4>1. PICK a \in 1 .. k : i = a + 1
        BY <1>6, <3>2
      <4>2. m[i] = l[a] /\ l[a] \in S
        BY <1>3, <1>5, <4>1
      <4>. QED  BY <4>2
    <3>. QED  BY <3>1, <3>2
  <2>. QED  BY <2>1, <2>2, <2>3
<1>9. ASSUME NEW i \in 1 .. k + 1
      PROVE  sp2[m[i]].next = IF i = k + 1 THEN NULL ELSE m[i + 1]
  <2>1. CASE i = 1 /\ k = 0
    BY <1>2, <1>5, <2>1
  <2>2. CASE i = 1 /\ k # 0
    <3>1. 1 \in 1 .. k /\ m[1 + 1] = l[1] /\ h = l[1] /\ i # k + 1
      BY <1>2, <1>3, <1>5, <2>2
    <3>. QED  BY <1>5, <2>2, <3>1
  <2>3. CASE i # 1
    <3>1. PICK j \in 1 .. k : i = j + 1
      BY <1>6, <2>3
    <3>2. m[i] = l[j] /\ sp2[l[j]].next = IF j = k THEN NULL ELSE l[j + 1]
      BY <1>2, <1>3, <1>5, <3>1 DEF Lists
    <3>3. CASE j = k
      BY <3>1, <3>2, <3>3
    <3>4. CASE j # k
      <4>1. j + 1 \in 1 .. k /\ i # k + 1
        BY <1>3, <3>1, <3>4
      <4>2. m[i + 1] = l[j + 1]
        BY <1>5, <3>1, <4>1
      <4>. QED  BY <3>2, <3>4, <4>1, <4>2
    <3>. QED  BY <3>3, <3>4
  <2>. QED  BY <2>1, <2>2, <2>3
<1>10. k + 1 \in Nat
  BY <1>3
<1>11. k + 1 \in 0 .. MaxSpans
  <2>1. PICK n \in Nat : n = k + 1
    BY <1>10
  <2>2. m \in [1 .. n -> SpanIds] /\ \A i, j \in 1 .. n : m[i] = m[j] => i = j
    BY <1>4, <1>7, <2>1
  <2>3. n \in 0 .. MaxSpans
    BY <2>2, ListLength
  <2>. QED  BY <2>1, <2>3
<1>12. Lists(m, k + 1, sp2, S \cup {s})
  BY <1>7, <1>8, <1>9 DEF Lists
<1>13. s = IF k + 1 = 0 THEN NULL ELSE m[1]
  BY <1>3, <1>5
<1>. QED  BY <1>4, <1>11, <1>12, <1>13 DEF Chain

-----------------------------------------------------------------------------
(* span_t objects                                                          *)

\* cmalloc_alloc_metadata returns objects that are not in existence.
LEMMA MetaAlloc ==
  ASSUME TypeOK, MetaInv, NEW k \in Nat \ {0}, AllocMetadata(k)
  PROVE  /\ \A j \in 1 .. k : MetadataObject(j) \in SpanIds \ Objects
         /\ \A i, j \in 1 .. k : MetadataObject(i) = MetadataObject(j) => i = j
         /\ Objects' = Objects \cup {MetadataObject(j) : j \in 1 .. k}
         /\ meta_next' \in 1 .. MaxSpans + 1 /\ meta_free' \in Seq(SpanIds)
         /\ \A i \in DOMAIN meta_free' : meta_free'[i] < meta_next'
         /\ \A i, j \in DOMAIN meta_free' : meta_free'[i] = meta_free'[j] => i = j
<1>1. PICK L \in Nat : L = Len(meta_free) /\ DOMAIN meta_free = 1 .. L
  BY DEF TypeOK
<1>2. /\ meta_free \in Seq(SpanIds) /\ meta_next \in 1 .. MaxSpans + 1
      /\ \A i \in 1 .. L : meta_free[i] \in SpanIds /\ meta_free[i] < meta_next
      /\ \A i, j \in 1 .. L : meta_free[i] = meta_free[j] => i = j
  <2>1. meta_free \in Seq(SpanIds) /\ meta_next \in 1 .. MaxSpans + 1
    BY DEF TypeOK
  <2>2. \A i \in 1 .. L : meta_free[i] \in SpanIds
    BY <1>1, <2>1
  <2>3. /\ \A i \in 1 .. L : meta_free[i] < meta_next
        /\ \A i, j \in 1 .. L : meta_free[i] = meta_free[j] => i = j
    BY <1>1 DEF MetaInv
  <2>. QED  BY <2>1, <2>2, <2>3
<1>3. Objects = {s \in 1 .. meta_next - 1 : \A i \in 1 .. L : s # meta_free[i]}
  BY <1>1 DEF Objects
<1>4. /\ MetadataObject(k) \in SpanIds
      /\ meta_free' = SubSeq(meta_free, k + 1, L)
      /\ meta_next' = IF k <= L THEN meta_next ELSE meta_next + k - L
  BY <1>1 DEF AllocMetadata
<1>5. \A j \in 1 .. k : MetadataObject(j) = IF j <= L THEN meta_free[j] ELSE meta_next + j - L - 1
  BY <1>1 DEF MetadataObject
<1>6. /\ meta_next' \in 1 .. MaxSpans + 1
      /\ \A j \in 1 .. k : /\ MetadataObject(j) \in SpanIds
                           /\ MetadataObject(j) < meta_next'
                           /\ j > L => MetadataObject(j) >= meta_next
  <2>1. CASE k <= L
    BY <1>2, <1>4, <1>5, <2>1
  <2>2. CASE k > L
    <3>1. meta_next + k - L - 1 \in SpanIds
      BY <1>4, <1>5, <2>2
    <3>2. ASSUME NEW j \in 1 .. k
          PROVE  /\ MetadataObject(j) \in SpanIds /\ MetadataObject(j) < meta_next'
                 /\ j > L => MetadataObject(j) >= meta_next
      <4>1. CASE j <= L
        BY <1>2, <1>4, <1>5, <2>2, <4>1 DEF SpanIds
      <4>2. CASE j > L
        BY <1>2, <1>4, <1>5, <2>2, <3>1, <4>2 DEF SpanIds
      <4>. QED  BY <4>1, <4>2
    <3>. QED  BY <1>2, <1>4, <2>2, <3>1, <3>2 DEF SpanIds
  <2>. QED  BY <1>1, <2>1, <2>2
<1>7. ASSUME NEW j \in 1 .. k PROVE MetadataObject(j) \notin Objects
  BY <1>2, <1>3, <1>5, <1>6
<1>8. ASSUME NEW i \in 1 .. k, NEW j \in 1 .. k, MetadataObject(i) = MetadataObject(j)
      PROVE  i = j
  <2>1. CASE i <= L /\ j <= L
    BY <1>2, <1>5, <1>8, <2>1
  <2>2. CASE i > L /\ j <= L
    BY SMTT(40), <1>2, <1>5, <1>6, <1>8, <2>2 DEF SpanIds
  <2>3. CASE i <= L /\ j > L
    <3>1. MetadataObject(i) = meta_free[i] /\ i \in 1 .. L
      BY <1>5, <2>3
    <3>2. PICK x \in SpanIds : x = MetadataObject(i) /\ x < meta_next
      BY <1>2, <3>1
    <3>3. MetadataObject(j) >= meta_next
      BY <1>6, <2>3
    <3>. QED  BY <1>2, <1>8, <3>2, <3>3 DEF SpanIds
  <2>4. CASE i > L /\ j > L
    BY <1>1, <1>2, <1>5, <1>8, <2>4
  <2>. QED  BY <1>1, <2>1, <2>2, <2>3, <2>4
<1>9. PICK M \in Nat : M = (IF k <= L THEN L - k ELSE 0)
  <2>1. (IF k <= L THEN L - k ELSE 0) \in Nat
    BY <1>1
  <2>. QED  BY <2>1
<1>10. /\ meta_free' \in Seq(SpanIds) /\ DOMAIN meta_free' = 1 .. M
       /\ \A i \in 1 .. M : k + i \in 1 .. L /\ meta_free'[i] = meta_free[k + i]
  <2>1. meta_free' \in Seq(SpanIds)
    <3>1. \A i \in k + 1 .. L : meta_free[i] \in SpanIds
      BY <1>1, <1>2
    <3>. QED  BY <1>1, <1>2, <1>4, <3>1
  <2>2. Len(meta_free') = M /\ DOMAIN meta_free' = 1 .. M
    BY <1>1, <1>2, <1>4, <1>9, <2>1
  <2>3. ASSUME NEW i \in 1 .. M PROVE k + i \in 1 .. L /\ meta_free'[i] = meta_free[k + i]
    BY <1>1, <1>2, <1>4, <1>9
  <2>. QED  BY <2>1, <2>2, <2>3
<1>11. Objects' = Objects \cup {MetadataObject(j) : j \in 1 .. k}
  <2>1. Objects' = {s \in 1 .. meta_next' - 1 : \A i \in 1 .. M : s # meta_free'[i]}
    BY <1>10 DEF Objects
  <2>2. ASSUME NEW s \in Objects' PROVE s \in Objects \/ \E j \in 1 .. k : s = MetadataObject(j)
    <3>1. s \in 1 .. meta_next' - 1 /\ \A i \in 1 .. M : s # meta_free'[i]
      BY <2>1
    <3>2. CASE \E i \in 1 .. L : s = meta_free[i]
      <4>1. PICK i \in 1 .. L : s = meta_free[i]
        BY <3>2
      <4>2. CASE i <= k
        BY <1>5, <4>1, <4>2
      <4>3. CASE i > k
        <5>1. i - k \in 1 .. M /\ k + (i - k) = i
          BY <1>1, <1>9, <4>3
        <5>. QED  BY <1>10, <3>1, <4>1, <5>1
      <4>. QED  BY <4>2, <4>3
    <3>3. CASE s >= meta_next
      <4>1. k > L /\ s <= meta_next + k - L - 1
        BY <1>1, <1>2, <1>4, <3>1, <3>3
      <4>2. PICK j \in 1 .. k : j = s - meta_next + L + 1 /\ j > L
        <5>1. PICK n \in Nat : n = meta_next
          BY <1>2
        <5>2. s \in Nat /\ s >= n /\ s <= n + k - L - 1
          BY <3>1, <3>3, <4>1, <5>1
        <5>3. s - n + L + 1 \in 1 .. k /\ s - n + L + 1 > L
          BY <5>1, <5>2
        <5>. QED  BY <5>1, <5>3
      <4>. QED  BY <1>1, <1>2, <1>5, <3>1, <4>2
    <3>4. CASE s < meta_next /\ \A i \in 1 .. L : s # meta_free[i]
      BY <1>2, <1>3, <3>1, <3>4
    <3>. QED  BY <1>2, <3>1, <3>2, <3>3, <3>4
  <2>3. ASSUME NEW s \in Objects PROVE s \in Objects'
    <3>1. s \in 1 .. meta_next - 1 /\ \A i \in 1 .. L : s # meta_free[i]
      BY <1>3
    <3>2. meta_next' >= meta_next
      BY <1>1, <1>2, <1>4
    <3>3. \A i \in 1 .. M : s # meta_free'[i]
      BY <1>10, <3>1
    <3>4. s \in 1 .. meta_next' - 1
      <4>1. PICK a \in Nat, b \in Nat : a = meta_next /\ b = meta_next' /\ a <= b
        <5>1. meta_next \in Nat /\ meta_next' \in Nat
          BY <1>2, <1>6
        <5>. QED  BY <3>2, <5>1
      <4>2. s \in Nat /\ s >= 1 /\ s <= a - 1 /\ a <= b
        BY <3>1, <4>1
      <4>3. s \in 1 .. b - 1
        BY <4>2
      <4>. QED  BY <4>1, <4>3
    <3>. QED  BY <2>1, <3>3, <3>4
  <2>4. ASSUME NEW j \in 1 .. k PROVE MetadataObject(j) \in Objects'
    <3>1. MetadataObject(j) \in 1 .. meta_next' - 1
      BY <1>6 DEF SpanIds
    <3>2. ASSUME NEW i \in 1 .. M PROVE MetadataObject(j) # meta_free'[i]
      <4>1. meta_free'[i] = meta_free[k + i] /\ k + i \in 1 .. L /\ k + i # j /\ meta_free[k + i] < meta_next
        BY <1>2, <1>10
      <4>2. CASE j <= L
        BY <1>2, <1>5, <4>1, <4>2
      <4>3. CASE j > L
        BY <1>2, <1>6, <4>1, <4>3 DEF SpanIds
      <4>. QED  BY <1>1, <4>2, <4>3
    <3>. QED  BY <2>1, <3>1, <3>2
  <2>. QED  BY <2>2, <2>3, <2>4
<1>12. \A i \in 1 .. M : meta_free'[i] < meta_next'
  BY <1>1, <1>2, <1>4, <1>10 DEF SpanIds
<1>13. ASSUME NEW i \in 1 .. M, NEW j \in 1 .. M, meta_free'[i] = meta_free'[j] PROVE i = j
  <2>1. k + i = k + j
    BY <1>2, <1>10, <1>13
  <2>. QED  BY <2>1
<1>. QED  BY <1>6, <1>7, <1>8, <1>10, <1>11, <1>12, <1>13

-----------------------------------------------------------------------------
(* Filling and emptying a bin                                              *)

\* Bin n gets a head: its bit is set (span.c:34-38).
LEMMA BinFilled ==
  ASSUME NEW bitmap \in [Words -> SUBSET Bits], NEW bins \in [BinIndex -> SpanOrNull],
         BitmapExact(bitmap, bins), NEW n \in BinIndex, NEW s \in SpanIds
  PROVE  /\ MarkNonEmpty(bitmap, n) \in [Words -> SUBSET Bits]
         /\ BitmapExact(MarkNonEmpty(bitmap, n), [bins EXCEPT ![n] = s])
<1>1. PICK w \in Words, i \in Bits : /\ w = WordIndex(n) /\ i = BitIndex(n)
                                     /\ n = w * BITS_PER_WORD + i
  BY BinBit
<1>2. PICK marked \in [Words -> SUBSET Bits] :
        /\ marked = MarkNonEmpty(bitmap, n)
        /\ \A v \in Words : marked[v] = IF v = w THEN bitmap[v] \cup {i} ELSE bitmap[v]
  <2>1. MarkNonEmpty(bitmap, n) = [bitmap EXCEPT ![w] = @ \cup {i}]
    BY <1>1 DEF MarkNonEmpty
  <2>. QED  BY <2>1
<1>3. s # NULL
  BY DEF SpanIds
<1>4. ASSUME NEW v \in Words, NEW j \in Bits
      PROVE  j \in marked[v] <=> /\ v * BITS_PER_WORD + j \in BinIndex
                                 /\ [bins EXCEPT ![n] = s][v * BITS_PER_WORD + j] # NULL
  <2>1. v = w /\ j = i <=> v * BITS_PER_WORD + j = n
    <3>1. v \in Nat /\ w \in Nat
      BY DEF Words
    <3>. QED  BY <1>1, <3>1, SameBit
  <2>2. j \in bitmap[v] <=> /\ v * BITS_PER_WORD + j \in BinIndex
                            /\ bins[v * BITS_PER_WORD + j] # NULL
    BY DEF BitmapExact
  <2>3. CASE v * BITS_PER_WORD + j = n
    BY <1>2, <1>3, <2>1, <2>3
  <2>4. CASE v * BITS_PER_WORD + j # n
    BY <1>2, <2>1, <2>2, <2>4
  <2>. QED  BY <2>3, <2>4
<1>. QED  BY <1>2, <1>4 DEF BitmapExact

\* Bin n loses its head: its bit is cleared if there is no other (span.c:40-45).
LEMMA BinPopped ==
  ASSUME TypeOK, BitmapInv, NEW n \in BinIndex, NEW s \in SpanIds,
         uninitilized_span_bin[n] = s
  PROVE  /\ PopBin(n).bins = [uninitilized_span_bin EXCEPT ![n] = span[s].next]
         /\ PopBin(n).bins \in [BinIndex -> SpanOrNull]
         /\ PopBin(n).bitmap \in [Words -> SUBSET Bits]
         /\ BitmapExact(PopBin(n).bitmap, PopBin(n).bins)
<1>1. PICK w \in Words, i \in Bits : /\ w = WordIndex(n) /\ i = BitIndex(n)
                                     /\ n = w * BITS_PER_WORD + i
  BY BinBit
<1>2. PICK rest \in SpanOrNull : rest = span[s].next
  BY DEF TypeOK
<1>3. s # NULL
  BY DEF SpanIds
<1>4. PICK bins \in [BinIndex -> SpanOrNull] :
        bins = PopBin(n).bins /\ bins = [uninitilized_span_bin EXCEPT ![n] = rest]
  BY <1>2 DEF PopBin, TypeOK
<1>5. PICK bitmap \in [Words -> SUBSET Bits] :
        /\ bitmap = PopBin(n).bitmap
        /\ \A v \in Words : bitmap[v] = IF v = w /\ rest = NULL THEN non_empty_bitmap[v] \ {i}
                                        ELSE non_empty_bitmap[v]
  <2>1. non_empty_bitmap \in [Words -> SUBSET Bits]
    BY DEF TypeOK
  <2>2. PopBin(n).bitmap = IF rest = NULL THEN [non_empty_bitmap EXCEPT ![w] = @ \ {i}]
                           ELSE non_empty_bitmap
    BY <1>1, <1>2 DEF PopBin, MarkEmpty
  <2>3. CASE rest = NULL
    BY <2>1, <2>2, <2>3
  <2>4. CASE rest # NULL
    BY <2>1, <2>2, <2>4
  <2>. QED  BY <2>3, <2>4
<1>6. ASSUME NEW v \in Words, NEW j \in Bits
      PROVE  j \in bitmap[v] <=> /\ v * BITS_PER_WORD + j \in BinIndex
                                 /\ bins[v * BITS_PER_WORD + j] # NULL
  <2>1. v = w /\ j = i <=> v * BITS_PER_WORD + j = n
    <3>1. v \in Nat /\ w \in Nat
      BY DEF Words
    <3>. QED  BY <1>1, <3>1, SameBit
  <2>2. j \in non_empty_bitmap[v] <=> /\ v * BITS_PER_WORD + j \in BinIndex
                                      /\ uninitilized_span_bin[v * BITS_PER_WORD + j] # NULL
    BY DEF BitmapInv, BitmapExact
  <2>3. \A m \in BinIndex : bins[m] = IF m = n THEN rest ELSE uninitilized_span_bin[m]
    BY <1>4 DEF TypeOK
  <2>4. CASE v * BITS_PER_WORD + j = n
    BY <1>3, <1>5, <2>1, <2>2, <2>3, <2>4
  <2>5. CASE v * BITS_PER_WORD + j # n
    BY <1>5, <2>1, <2>2, <2>3, <2>5
  <2>. QED  BY <2>4, <2>5
<1>7. BitmapExact(bitmap, bins)
  BY <1>6 DEF BitmapExact
<1>. QED  BY <1>2, <1>4, <1>5, <1>7

-----------------------------------------------------------------------------
(* Objects, pages and chunks                                               *)

LEMMA ObjectIds ==
  ASSUME TypeOK
  PROVE  Objects \subseteq SpanIds /\ NULL \notin SpanIds /\ Backed \subseteq Objects
BY DEF TypeOK, Objects, SpanIds, Backed

Bases  == Pages \cup {0, MAP_FAILED}
Counts == 0 .. SIZE_MAX

SpanRecords ==
  [base : Bases, page_count : Counts, is_initialized : BOOLEAN,
   next : SpanOrNull, phys_next : SpanOrNull, phys_prev : SpanOrNull]

LEMMA SpanTyped == TypeOK => span \in [SpanIds -> SpanRecords]
BY DEF TypeOK, SpanRecords, Bases, Counts

\* cmalloc_initialize_span and the fields of a direct mapping.
LEMMA DirectRecord ==
  ASSUME NEW r \in SpanRecords, NEW b \in Bases, NEW n \in Counts
  PROVE  [r EXCEPT !.base = b, !.page_count = n, !.is_initialized = TRUE] \in SpanRecords
BY DEF SpanRecords

\* The fields cmalloc_cache_span sets.
LEMMA CachedRecord ==
  ASSUME NEW old \in SpanRecords, NEW head \in SpanOrNull
  PROVE  \E new \in SpanRecords :
           /\ new = [old EXCEPT !.is_initialized = FALSE, !.next = head]
           /\ new.is_initialized = FALSE /\ new.next = head
           /\ new.base = old.base /\ new.page_count = old.page_count
           /\ new.phys_next = old.phys_next /\ new.phys_prev = old.phys_prev
<1>. DEFINE new == [old EXCEPT !.is_initialized = FALSE, !.next = head]
<1>1. new \in SpanRecords
  BY DEF SpanRecords
<1>2. /\ new.is_initialized = FALSE /\ new.next = head
      /\ new.base = old.base /\ new.page_count = old.page_count
      /\ new.phys_next = old.phys_next /\ new.phys_prev = old.phys_prev
  BY DEF SpanRecords
<1>. HIDE DEF new
<1>3. \E x \in SpanRecords :
           /\ x = new /\ x.is_initialized = FALSE /\ x.next = head
           /\ x.base = old.base /\ x.page_count = old.page_count
           /\ x.phys_next = old.phys_next /\ x.phys_prev = old.phys_prev
  BY <1>1, <1>2
<1>. QED  BY <1>3 DEF new

\* The flag cmalloc_initialize_span sets.
LEMMA MarkedRecord ==
  ASSUME NEW old \in SpanRecords, NEW yes \in BOOLEAN
  PROVE  \E new \in SpanRecords :
           /\ new = [old EXCEPT !.is_initialized = yes] /\ new.is_initialized = yes
           /\ new.base = old.base /\ new.page_count = old.page_count
           /\ new.next = old.next
           /\ new.phys_next = old.phys_next /\ new.phys_prev = old.phys_prev
<1>. DEFINE new == [old EXCEPT !.is_initialized = yes]
<1>1. new \in SpanRecords
  BY DEF SpanRecords
<1>2. /\ new.is_initialized = yes
      /\ new.base = old.base /\ new.page_count = old.page_count
      /\ new.next = old.next
      /\ new.phys_next = old.phys_next /\ new.phys_prev = old.phys_prev
  BY DEF SpanRecords
<1>3. new = [old EXCEPT !.is_initialized = yes]
  OBVIOUS
<1>. HIDE DEF new
<1>. QED  BY <1>1, <1>2, <1>3

\* The fields a new span gets (span.c:150-176).
LEMMA NewRecord ==
  ASSUME NEW b \in Bases, NEW n \in Counts, NEW init \in BOOLEAN, NEW nx \in SpanOrNull,
         NEW pn \in SpanOrNull, NEW pp \in SpanOrNull
  PROVE  \E new \in SpanRecords :
           /\ new = [base |-> b, page_count |-> n, is_initialized |-> init,
                     next |-> nx, phys_next |-> pn, phys_prev |-> pp]
           /\ new.base = b /\ new.page_count = n /\ new.is_initialized = init
           /\ new.next = nx /\ new.phys_next = pn /\ new.phys_prev = pp
<1>. DEFINE new == [base |-> b, page_count |-> n, is_initialized |-> init,
                    next |-> nx, phys_next |-> pn, phys_prev |-> pp]
<1>1. new \in SpanRecords
  BY DEF SpanRecords
<1>2. /\ new.base = b /\ new.page_count = n /\ new.is_initialized = init
      /\ new.next = nx /\ new.phys_next = pn /\ new.phys_prev = pp
  OBVIOUS
<1>3. \E x \in SpanRecords :
           /\ x = new
           /\ x.base = b /\ x.page_count = n /\ x.is_initialized = init
           /\ x.next = nx /\ x.phys_next = pn /\ x.phys_prev = pp
  <2>. HIDE DEF new
  <2>. QED  BY <1>1, <1>2
<1>. QED  BY <1>3

\* The fields of an object, as numbers.
LEMMA SpanFields ==
  ASSUME TypeOK, RunInv, NEW s \in Objects
  PROVE  /\ span[s].base \in Int /\ span[s].page_count \in 1 .. SIZE_MAX
         /\ span[s].base \in PagesOf(s)
         /\ span[s].base + span[s].page_count - 1 \in PagesOf(s)
         /\ span[s].base = MAP_FAILED <=> s \notin Backed
<1>1. s \in SpanIds
  BY ObjectIds
<1>2. span[s].base \in Int /\ span[s].page_count \in Nat /\ span[s].page_count <= SIZE_MAX
  BY <1>1 DEF TypeOK, Pages, MAP_FAILED
<1>3. span[s].page_count >= 1
  BY DEF RunInv
<1>. QED  BY <1>2, <1>3 DEF PagesOf, RunOf, Backed

\* A page of an object is mapped, and mapped to it.
LEMMA OwnPages ==
  ASSUME TypeOK, RunInv, NEW s \in Backed, NEW p \in PagesOf(s)
  PROVE  p \in Pages /\ page_map[p] = s /\ p \in mapped
<1>1. p \in Pages /\ page_map[p] = s
  BY DEF RunInv
<1>2. page_map[p] # NULL
  BY <1>1, ObjectIds
<1>. QED  BY <1>1, <1>2 DEF RunInv

\* An object with one page in a chunk lies in it.
LEMMA OneChunk ==
  ASSUME ChunkInv, NEW s \in Backed, NEW c \in data_arena,
         NEW p \in PagesOf(s), p \in RunOf(c[1], c[2])
  PROVE  InChunk(s, c) /\ span[s].page_count < MAX_BINNED_PAGES
BY DEF ChunkInv

\* The chunk neighbour phys_next leads to.
LEMMA PhysNext ==
  ASSUME TypeOK, RunInv, ChunkInv, PhysLinksExact,
         NEW s \in Objects, NEW c \in data_arena, InChunk(s, c)
  PROVE  /\ s \in Backed /\ c[1] \in Pages /\ c[2] \in Pages
         /\ span[s].base >= c[1] /\ span[s].base + span[s].page_count <= c[1] + c[2]
         /\ span[s].base = c[1] <=> span[s].phys_prev = NULL
         /\ IF span[s].base + span[s].page_count = c[1] + c[2]
              THEN span[s].phys_next = NULL
              ELSE /\ span[s].phys_next \in Backed /\ InChunk(span[s].phys_next, c)
                   /\ span[span[s].phys_next].page_count < MAX_BINNED_PAGES
                   /\ span[span[s].phys_next].base = span[s].base + span[s].page_count
                   /\ span[span[s].phys_next].phys_prev = s
<1>1. c[1] \in Pages /\ c[2] \in Pages /\ Pages \subseteq Nat \ {0}
  BY DEF TypeOK, Pages
<1>2. PICK b \in Int, n \in 1 .. SIZE_MAX : b = span[s].base /\ n = span[s].page_count
  BY SpanFields
<1>3. b \in RunOf(c[1], c[2]) /\ b + n - 1 \in RunOf(c[1], c[2])
  BY <1>2, SpanFields DEF InChunk
<1>4. PICK x \in Pages, y \in Pages :
        x = c[1] /\ y = c[2] /\ x > 0 /\ x \in Nat /\ y \in Nat /\ b >= x /\ b + n <= x + y
  <2>1. PICK x \in Pages, y \in Pages : x = c[1] /\ y = c[2]
    BY <1>1
  <2>2. x \in Nat /\ y \in Nat /\ x > 0
    BY DEF Pages
  <2>3. b >= x /\ b + n - 1 <= x + y - 1
    BY <1>2, <1>3, <2>1, <2>2 DEF RunOf
  <2>4. b + n <= x + y
    BY <1>2, <2>2, <2>3
  <2>. QED  BY <2>1, <2>2, <2>3, <2>4
<1>5. s \in Backed
  <2>1. b # -1
    BY <1>4
  <2>. QED  BY <1>2, <2>1 DEF Backed, MAP_FAILED
<1>6. /\ IF b + n = x + y
           THEN span[s].phys_next = NULL
           ELSE /\ span[s].phys_next \in Objects
                /\ span[span[s].phys_next].base = b + n
                /\ span[span[s].phys_next].phys_prev = s
      /\ b = x <=> span[s].phys_prev = NULL
  BY <1>2, <1>4 DEF PhysLinksExact, InChunk
<1>7. CASE b + n # x + y
  <2>1. PICK t \in Objects : t = span[s].phys_next /\ span[t].base = b + n /\ span[t].phys_prev = s
    BY <1>6, <1>7
  <2>2. b + n \in PagesOf(t) /\ b + n \in RunOf(c[1], c[2])
    <3>1. b + n \in PagesOf(t)
      BY <2>1, SpanFields
    <3>2. b + n \in x .. x + y - 1
      BY <1>2, <1>4, <1>7
    <3>. QED  BY <1>4, <3>1, <3>2 DEF RunOf
  <2>3. t \in Backed
    <3>1. b + n # -1
      BY <1>2, <1>4
    <3>. QED  BY <2>1, <3>1 DEF Backed, MAP_FAILED
  <2>4. InChunk(t, c) /\ span[t].page_count < MAX_BINNED_PAGES
    BY <2>2, <2>3, OneChunk
  <2>. QED  BY <1>2, <1>4, <1>5, <1>6, <1>7, <2>1, <2>3, <2>4
<1>8. CASE b + n = x + y
  BY <1>2, <1>4, <1>5, <1>6, <1>8
<1>. QED  BY <1>7, <1>8

-----------------------------------------------------------------------------
(* The front end's record of its spans                                     *)

\* The front end gets a span that is long enough.
LEMMA Handed ==
  ASSUME TypeOK, FitsRequest, NEW s \in SpanIds, s \notin DOMAIN used,
         NEW size \in Requests, Hand(s, size),
         size <= span'[s].page_count * PAGE_SIZE,
         \A r \in DOMAIN used : span'[r].page_count = span[r].page_count
  PROVE  /\ DOMAIN used' = DOMAIN used \cup {s} /\ DOMAIN used' \subseteq SpanIds
         /\ \A r \in DOMAIN used : used'[r] = used[r]
         /\ \A r \in DOMAIN used' : used'[r] \in Requests
         /\ FitsRequest'
<1>1. DOMAIN used' = DOMAIN used \cup {s}
  BY DEF Hand
<1>2. used'[s] = size /\ \A r \in DOMAIN used : used'[r] = used[r]
  BY DEF Hand
<1>3. FitsRequest'
  BY <1>1, <1>2 DEF FitsRequest
<1>. QED  BY <1>1, <1>2, <1>3 DEF TypeOK

\* The front end gives a span up.
LEMMA Unhanded ==
  ASSUME TypeOK, FitsRequest, NEW s \in DOMAIN used, Unhand(s),
         \A r \in DOMAIN used \ {s} : span'[r].page_count = span[r].page_count
  PROVE  /\ DOMAIN used' = DOMAIN used \ {s} /\ DOMAIN used' \subseteq SpanIds
         /\ \A r \in DOMAIN used' : used'[r] = used[r]
         /\ \A r \in DOMAIN used' : used'[r] \in Requests
         /\ FitsRequest'
<1>1. DOMAIN used' = DOMAIN used \ {s}
  BY DEF Unhand
<1>2. \A r \in DOMAIN used' : used'[r] = used[r]
  BY <1>1 DEF Unhand
<1>3. FitsRequest'
  BY <1>1, <1>2 DEF FitsRequest
<1>. QED  BY <1>1, <1>2, <1>3 DEF TypeOK

-----------------------------------------------------------------------------
(* Spans with a mapping of their own                                       *)

-----------------------------------------------------------------------------
(* What a step does to the spans in use                                    *)

\* The shortest idle span of n pages or more is taken, if there is one.
TakesBest(s, n) ==
  \A r \in Idle : span[r].page_count >= n => s \in Idle /\ span[s].page_count <= span[r].page_count

\* alloc_span hands out s, by whichever way it finds it.
Grants(s) ==
  /\ s \in SpanIds \ DOMAIN used
  /\ DOMAIN used' = DOMAIN used \cup {s}
  /\ \A r \in DOMAIN used : used'[r] = used[r]
  /\ \A r \in DOMAIN used : span'[r].base = span[r].base /\ span'[r].page_count = span[r].page_count
  /\ span'[s].page_count < MAX_BINNED_PAGES => TakesBest(s, span'[s].page_count)

Granted == \E s \in SpanIds : Grants(s)

\* cmalloc_cache_span takes s back.
TakesBack(s) ==
  /\ DOMAIN used' = DOMAIN used \ {s}
  /\ \A r \in DOMAIN used' : used'[r] = used[r]
  /\ \A r \in DOMAIN used' : span'[r].base = span[r].base /\ span'[r].page_count = span[r].page_count

\* A new object that is no chunk's disturbs neither chunks nor bins.
LEMMA NewDirect ==
  ASSUME TypeOK, PoolInv, NEW s \in SpanIds \ Objects, Objects' = Objects \cup {s},
         NEW b \in Int, b \notin mapped,
         b # MAP_FAILED => RunOf(b, span'[s].page_count) \cap mapped = {},
         span'[s].base = b, span'[s].page_count \in Nat, span'[s].page_count >= MAX_BINNED_PAGES,
         span'[s].page_count >= 1,
         span'[s].is_initialized = TRUE,
         \A r \in SpanIds \ {s} : span'[r] = span[r],
         DOMAIN used' = DOMAIN used \cup {s}, mapped \subseteq mapped',
         UNCHANGED <<uninitilized_span_bin, non_empty_bitmap, data_arena>>
  PROVE  ChunkInv' /\ PhysLinksExact' /\ IdleInv'
<1>. USE DEF PoolInv
<1>1. \A r \in Objects : /\ r \in SpanIds /\ r # s /\ span'[r] = span[r]
                         /\ PagesOf(r)' = PagesOf(r)
  BY ObjectIds DEF PagesOf
<1>2. /\ \A r \in Backed : r \in Backed' /\ r # s
      /\ \A r \in Backed' : r \in Backed \/ (r = s /\ b # MAP_FAILED)
  BY <1>1 DEF Backed
<1>3. PagesOf(s)' = RunOf(b, span'[s].page_count) /\ b \in PagesOf(s)'
  BY DEF PagesOf, RunOf
<1>4. \A c \in data_arena : RunOf(c[1], c[2]) \subseteq mapped
  BY DEF ChunkInv
<1>5. ChunkInv'
  <2>1. \A c \in data_arena' : RunOf(c[1], c[2]) \subseteq mapped'
    BY <1>4
  <2>2. ASSUME NEW r \in Objects', span'[r].page_count < MAX_BINNED_PAGES
        PROVE  r \in Backed' /\ \E c \in data_arena' : InChunk(r, c)'
    <3>1. r \in Objects
      BY <2>2
    <3>2. r \in Backed /\ \E c \in data_arena : InChunk(r, c)
      BY <1>1, <2>2, <3>1 DEF ChunkInv
    <3>. QED  BY <1>1, <1>2, <3>1, <3>2 DEF InChunk
  <2>3. ASSUME NEW r \in Backed', NEW c \in data_arena'
        PROVE  \/ InChunk(r, c)' /\ span'[r].page_count < MAX_BINNED_PAGES
               \/ PagesOf(r)' \cap RunOf(c[1], c[2]) = {}
    <3>1. CASE r = s
      BY <1>2, <1>3, <1>4, <2>3, <3>1
    <3>2. CASE r # s
      <4>1. r \in Backed /\ r \in Objects
        BY <1>2, <2>3, <3>2, ObjectIds
      <4>. QED  BY <1>1, <4>1 DEF ChunkInv, InChunk
    <3>. QED  BY <3>1, <3>2
  <2>. QED  BY <2>1, <2>2, <2>3 DEF ChunkInv
<1>6. PhysLinksExact'
  <2>1. ASSUME NEW c \in data_arena, NEW r \in Objects', PagesOf(r)' \subseteq RunOf(c[1], c[2])
        PROVE  /\ IF span'[r].base + span'[r].page_count = c[1] + c[2]
                    THEN span'[r].phys_next = NULL
                    ELSE /\ span'[r].phys_next \in Objects'
                         /\ span'[span'[r].phys_next].base = span'[r].base + span'[r].page_count
                         /\ span'[span'[r].phys_next].phys_prev = r
               /\ span'[r].base = c[1] <=> span'[r].phys_prev = NULL
    <3>1. r # s
      BY <1>3, <1>4, <2>1
    <3>2. r \in Objects /\ InChunk(r, c)
      BY <1>1, <2>1, <3>1 DEF InChunk
    <3>3. CASE span[r].base + span[r].page_count = c[1] + c[2]
      BY <1>1, <3>2, <3>3, PhysNext
    <3>4. CASE span[r].base + span[r].page_count # c[1] + c[2]
      <4>1. /\ span[r].phys_next \in Objects
            /\ span[span[r].phys_next].base = span[r].base + span[r].page_count
            /\ span[span[r].phys_next].phys_prev = r
            /\ span[r].base = c[1] <=> span[r].phys_prev = NULL
        BY <3>2, <3>4, PhysNext, ObjectIds
      <4>. QED  BY <1>1, <3>2, <3>4, <4>1
    <3>. QED  BY <3>3, <3>4
  <2>. QED  BY <2>1 DEF PhysLinksExact
<1>7. IdleInv'
  <2>1. Idle' = Idle /\ \A r \in Idle : r \in Objects /\ r # s
    BY <1>1 DEF Idle
  <2>2. \A n : IdleOf(n)' = IdleOf(n)
    BY <1>1, <2>1 DEF IdleOf
  <2>3. ASSUME NEW n \in BinIndex PROVE Chain(uninitilized_span_bin[n], span', IdleOf(n)')
    <3>1. Chain(uninitilized_span_bin[n], span, IdleOf(n))
      BY DEF IdleInv
    <3>2. \A r \in IdleOf(n) : span'[r].next = span[r].next
      BY <1>1, <2>1 DEF IdleOf
    <3>3. Chain(uninitilized_span_bin[n], span', IdleOf(n))
      BY <3>1, <3>2, ChainKept
    <3>. QED  BY <2>2, <3>3
  <2>4. BitmapInv'
    BY DEF IdleInv, BitmapInv
  <2>5. \A r \in Objects' : span'[r].is_initialized <=> r \in DOMAIN used'
    BY <1>1 DEF IdleInv
  <2>6. \A r \in Idle' : span'[r].page_count < MAX_BINNED_PAGES
    BY <1>1, <2>1 DEF IdleInv
  <2>. QED  BY <2>3, <2>4, <2>5, <2>6 DEF IdleInv
<1>. QED  BY <1>5, <1>6, <1>7

\* The object a direct mapping gets, in terms of the new one only.
LEMMA DirectObject ==
  ASSUME NoWrap, TypeOK, MetaInv, NEW size \in Requests, AllocMetadata(1)
  PROVE  \E s \in SpanIds \ Objects :
           /\ s = MetadataObject(1) /\ s \notin DOMAIN used
           /\ Objects' = Objects \cup {s}
           /\ meta_next' \in 1 .. MaxSpans + 1 /\ meta_free' \in Seq(SpanIds)
           /\ \A i \in DOMAIN meta_free' : meta_free'[i] < meta_next'
           /\ \A i, j \in DOMAIN meta_free' : meta_free'[i] = meta_free'[j] => i = j
<1>1. PICK k \in Nat \ {0} : k = 1
  OBVIOUS
<1>2. AllocMetadata(k)
  BY <1>1
<1>3. /\ \A j \in 1 .. k : MetadataObject(j) \in SpanIds \ Objects
      /\ Objects' = Objects \cup {MetadataObject(j) : j \in 1 .. k}
      /\ meta_next' \in 1 .. MaxSpans + 1 /\ meta_free' \in Seq(SpanIds)
      /\ \A i \in DOMAIN meta_free' : meta_free'[i] < meta_next'
      /\ \A i, j \in DOMAIN meta_free' : meta_free'[i] = meta_free'[j] => i = j
  BY <1>2, MetaAlloc
<1>4. MetadataObject(1) \in SpanIds \ Objects /\ Objects' = Objects \cup {MetadataObject(1)}
  BY <1>1, <1>3
<1>5. MetadataObject(1) \notin DOMAIN used
  BY <1>4 DEF MetaInv
<1>. QED  BY <1>3, <1>4, <1>5

\* The pages mmap returns are new ones.
LEMMA FreshRun ==
  ASSUME TypeOK, NEW n \in Nat \ {0}, NEW b \in FreeRuns(n)
  PROVE  /\ b \in Pages /\ n \in Pages /\ b \in RunOf(b, n) /\ b # MAP_FAILED
         /\ RunOf(b, n) \subseteq Pages /\ RunOf(b, n) \cap mapped = {}
<1>1. b \in Nat \ {0} /\ b + n - 1 <= LastPage
  BY DEF FreeRuns, Pages
<1>. QED  BY <1>1 DEF FreeRuns, Pages, RunOf, MAP_FAILED

\* A run cut after n pages.
LEMMA CutRun ==
  ASSUME NEW b \in Nat \ {0}, NEW n \in Nat \ {0}, NEW rest \in Nat \ {0}
  PROVE  /\ RunOf(b, n) \subseteq RunOf(b, n + rest) /\ RunOf(b + n, rest) \subseteq RunOf(b, n + rest)
         /\ b \in RunOf(b, n) /\ b + n \in RunOf(b + n, rest)
         /\ \A p \in RunOf(b, n + rest) : p \in RunOf(b, n) <=> p \notin RunOf(b + n, rest)
BY DEF RunOf

\* A mapping of its own (span.c:85-98), for a new object.
LEMMA AllocDirectInv ==
  ASSUME NoWrap, TypeOK, PoolInv, NEW size \in Requests, AllocDirect(size)
  PROVE  TypeOK' /\ PoolInv' /\ Granted
<1>. USE DEF PoolInv
<1>1. PICK n \in 1 .. SIZE_MAX : n = RoundUpPage(size) /\ size <= n * PAGE_SIZE
  BY RoundUpFits
<1>2. n >= MAX_BINNED_PAGES /\ AllocMetadata(1) /\ Hand(MetadataObject(1), size)
      /\ UNCHANGED <<uninitilized_span_bin, non_empty_bitmap, data_arena, aborted>>
  BY <1>1 DEF AllocDirect
<1>3. PICK s \in SpanIds \ Objects :
        /\ s = MetadataObject(1) /\ s \notin DOMAIN used
        /\ Objects' = Objects \cup {s}
        /\ meta_next' \in 1 .. MaxSpans + 1 /\ meta_free' \in Seq(SpanIds)
        /\ \A i \in DOMAIN meta_free' : meta_free'[i] < meta_next'
        /\ \A i, j \in DOMAIN meta_free' : meta_free'[i] = meta_free'[j] => i = j
  BY <1>2, DirectObject
<1>4. PICK b \in FreeRuns(n) :
        /\ mapped' = mapped \cup RunOf(b, n)
        /\ page_map' = MapRange(page_map, s, b, n)
        /\ span' = [span EXCEPT ![s] = [@ EXCEPT !.base = b, !.page_count = n,
                                                 !.is_initialized = TRUE]]
  BY <1>1, <1>3 DEF AllocDirect
<1>5. /\ b \in Pages /\ b \in RunOf(b, n) /\ b # MAP_FAILED
      /\ RunOf(b, n) \subseteq Pages /\ RunOf(b, n) \cap mapped = {}
  BY FreshRun
<1>6. /\ span'[s].base = b /\ span'[s].page_count = n /\ span'[s].is_initialized = TRUE
      /\ \A r \in SpanIds \ {s} : span'[r] = span[r]
      /\ span' \in [SpanIds -> SpanRecords]
  <2>1. PICK old \in SpanRecords, new \in SpanRecords :
          old = span[s] /\ new = [old EXCEPT !.base = b, !.page_count = n, !.is_initialized = TRUE]
    <3>1. PICK old \in SpanRecords : old = span[s]
      BY SpanTyped
    <3>2. [old EXCEPT !.base = b, !.page_count = n, !.is_initialized = TRUE] \in SpanRecords
      <4>1. b \in Bases /\ n \in Counts
        BY <1>5 DEF Bases, Counts
      <4>. QED  BY <4>1, DirectRecord
    <3>. QED  BY <3>1, <3>2
  <2>2. span' = [span EXCEPT ![s] = new]
    BY <1>4, <2>1
  <2>3. new.base = b /\ new.page_count = n /\ new.is_initialized = TRUE
    BY <2>1 DEF SpanRecords
  <2>. QED  BY <2>1, <2>2, <2>3, SpanTyped
<1>7. /\ DOMAIN used' = DOMAIN used \cup {s} /\ DOMAIN used' \subseteq SpanIds
      /\ \A r \in DOMAIN used : used'[r] = used[r]
      /\ \A r \in DOMAIN used' : used'[r] \in Requests
      /\ FitsRequest'
  <2>1. \A r \in DOMAIN used : span'[r].page_count = span[r].page_count
    BY <1>3, <1>6, ObjectIds DEF MetaInv
  <2>. QED  BY <1>1, <1>2, <1>3, <1>6, <2>1, Handed
<1>8. \A p \in Pages : page_map'[p] = IF p \in RunOf(b, n) THEN s ELSE page_map[p]
  BY <1>4 DEF MapRange
<1>9. TypeOK'
  <2>1. page_map' \in [Pages -> SpanOrNull]
    BY <1>4 DEF MapRange, TypeOK, SpanOrNull
  <2>2. mapped' \subseteq Pages
    BY <1>4, <1>5 DEF TypeOK
  <2>. QED  BY <1>2, <1>3, <1>6, <1>7, <2>1, <2>2 DEF TypeOK, SpanRecords, Bases, Counts
<1>10. MetaInv'
  BY <1>3, <1>7 DEF MetaInv
<1>11. /\ \A r \in Objects : r \in SpanIds /\ r # s /\ span'[r] = span[r] /\ PagesOf(r)' = PagesOf(r)
       /\ Backed' = Backed \cup {s} /\ PagesOf(s)' = RunOf(b, n)
  <2>1. \A r \in Objects : r \in SpanIds /\ r # s /\ span'[r] = span[r] /\ PagesOf(r)' = PagesOf(r)
    BY <1>3, <1>6, ObjectIds DEF PagesOf
  <2>2. Backed' = Backed \cup {s}
    BY <1>3, <1>5, <1>6, <2>1 DEF Backed
  <2>. QED  BY <1>6, <2>1, <2>2 DEF PagesOf
<1>12. RunInv'
  <2>1. \A r \in Objects' : span'[r].page_count >= 1
    BY <1>3, <1>6, <1>11 DEF RunInv
  <2>2. ASSUME NEW r \in Backed', NEW p \in PagesOf(r)' PROVE p \in Pages /\ page_map'[p] = r
    <3>1. CASE r = s
      BY <1>5, <1>8, <1>11, <2>2, <3>1
    <3>2. CASE r \in Backed
      <4>1. p \in Pages /\ page_map[p] = r /\ p \in mapped
        BY <1>11, <2>2, <3>2, OwnPages, ObjectIds
      <4>. QED  BY <1>5, <1>8, <4>1
    <3>. QED  BY <1>11, <2>2, <3>1, <3>2
  <2>3. ASSUME NEW p \in Pages
        PROVE  (IF p \in mapped THEN page_map[p] \in Backed /\ p \in PagesOf(page_map[p])
                                ELSE page_map[p] = NULL)'
    <3>1. CASE p \in RunOf(b, n)
      <4>1. p \in mapped' /\ page_map'[p] = s /\ s \in Backed' /\ p \in PagesOf(s)'
        BY <1>4, <1>8, <1>11, <3>1
      <4>. QED  BY <4>1 DEF PagesOf
    <3>2. CASE p \notin RunOf(b, n) /\ p \in mapped
      <4>1. page_map'[p] = page_map[p] /\ page_map[p] \in Backed /\ p \in PagesOf(page_map[p])
        BY <1>8, <3>2 DEF RunInv
      <4>2. PICK r \in Backed : r = page_map[p] /\ r = page_map'[p] /\ p \in PagesOf(r)
        BY <4>1
      <4>3. r \in Backed' /\ p \in PagesOf(r)'
        BY <1>11, <4>2, ObjectIds
      <4>4. p \in mapped'
        BY <1>4, <3>2
      <4>. QED  BY <4>2, <4>3, <4>4 DEF PagesOf
    <3>3. CASE p \notin RunOf(b, n) /\ p \notin mapped
      BY <1>4, <1>8, <3>3 DEF RunInv
    <3>. QED  BY <3>1, <3>2, <3>3
  <2>. QED  BY <2>1, <2>2, <2>3 DEF RunInv
<1>13. ChunkInv' /\ PhysLinksExact' /\ IdleInv'
  <2>1. b \in Int /\ b \notin mapped /\ mapped \subseteq mapped'
    BY <1>4, <1>5 DEF Pages
  <2>2. n \in Nat /\ n >= 1
    BY <1>1
  <2>. QED  BY <1>2, <1>3, <1>5, <1>6, <1>7, <2>1, <2>2, NewDirect
<1>14. Granted
  <2>1. \A r \in DOMAIN used : span'[r] = span[r]
    BY <1>11 DEF MetaInv
  <2>2. ~(span'[s].page_count < MAX_BINNED_PAGES)
    BY <1>1, <1>2, <1>6
  <2>3. Grants(s)
    BY <1>3, <1>7, <2>1, <2>2 DEF Grants
  <2>. QED  BY <2>3 DEF Granted
<1>. QED  BY <1>7, <1>9, <1>10, <1>12, <1>13, <1>14

\* The same when mmap fails: the object has no pages (span.c:87).
LEMMA AllocDirectFailsInv ==
  ASSUME NoWrap, TypeOK, PoolInv, NEW size \in Requests, AllocDirectFails(size)
  PROVE  TypeOK' /\ PoolInv' /\ Granted
<1>. USE DEF PoolInv
<1>1. PICK n \in 1 .. SIZE_MAX : n = RoundUpPage(size) /\ size <= n * PAGE_SIZE
  BY RoundUpFits
<1>2. n >= MAX_BINNED_PAGES /\ AllocMetadata(1) /\ Hand(MetadataObject(1), size)
      /\ UNCHANGED <<uninitilized_span_bin, non_empty_bitmap, data_arena, page_map, mapped, aborted>>
  BY <1>1 DEF AllocDirectFails
<1>3. PICK s \in SpanIds \ Objects :
        /\ s = MetadataObject(1) /\ s \notin DOMAIN used
        /\ Objects' = Objects \cup {s}
        /\ meta_next' \in 1 .. MaxSpans + 1 /\ meta_free' \in Seq(SpanIds)
        /\ \A i \in DOMAIN meta_free' : meta_free'[i] < meta_next'
        /\ \A i, j \in DOMAIN meta_free' : meta_free'[i] = meta_free'[j] => i = j
  BY <1>2, DirectObject
<1>4. span' = [span EXCEPT ![s] = [@ EXCEPT !.base = MAP_FAILED, !.page_count = n,
                                            !.is_initialized = TRUE]]
  BY <1>1, <1>3 DEF AllocDirectFails
<1>5. /\ span'[s].base = MAP_FAILED /\ span'[s].page_count = n /\ span'[s].is_initialized = TRUE
      /\ \A r \in SpanIds \ {s} : span'[r] = span[r]
      /\ span' \in [SpanIds -> SpanRecords]
  <2>1. PICK old \in SpanRecords, new \in SpanRecords :
          /\ old = span[s]
          /\ new = [old EXCEPT !.base = MAP_FAILED, !.page_count = n, !.is_initialized = TRUE]
    <3>1. PICK old \in SpanRecords : old = span[s]
      BY SpanTyped
    <3>2. MAP_FAILED \in Bases /\ n \in Counts
      BY DEF Bases, Counts
    <3>3. [old EXCEPT !.base = MAP_FAILED, !.page_count = n, !.is_initialized = TRUE] \in SpanRecords
      BY <3>2, DirectRecord
    <3>. QED  BY <3>1, <3>3
  <2>2. span' = [span EXCEPT ![s] = new]
    BY <1>4, <2>1
  <2>3. new.base = MAP_FAILED /\ new.page_count = n /\ new.is_initialized = TRUE
    BY <2>1 DEF SpanRecords
  <2>. QED  BY <2>1, <2>2, <2>3, SpanTyped
<1>6. /\ DOMAIN used' = DOMAIN used \cup {s} /\ DOMAIN used' \subseteq SpanIds
      /\ \A r \in DOMAIN used : used'[r] = used[r]
      /\ \A r \in DOMAIN used' : used'[r] \in Requests
      /\ FitsRequest'
  <2>1. \A r \in DOMAIN used : span'[r].page_count = span[r].page_count
    BY <1>3, <1>5, ObjectIds DEF MetaInv
  <2>. QED  BY <1>1, <1>2, <1>3, <1>5, <2>1, Handed
<1>7. TypeOK'
  BY <1>2, <1>3, <1>5, <1>6 DEF TypeOK, SpanRecords, Bases, Counts
<1>8. MetaInv'
  BY <1>3, <1>6 DEF MetaInv
<1>9. RunInv'
  <2>1. \A r \in Objects : r \in SpanIds /\ r # s /\ span'[r] = span[r] /\ PagesOf(r)' = PagesOf(r)
    BY <1>3, <1>5, ObjectIds DEF PagesOf
  <2>2. Backed' = Backed
    BY <1>3, <1>5, <2>1 DEF Backed
  <2>3. \A r \in Objects' : span'[r].page_count >= 1
    BY <1>3, <1>5, <2>1 DEF RunInv
  <2>4. ASSUME NEW r \in Backed', NEW p \in PagesOf(r)' PROVE p \in Pages /\ page_map'[p] = r
    BY <1>2, <2>1, <2>2, <2>4, ObjectIds DEF RunInv
  <2>5. ASSUME NEW p \in Pages
        PROVE  (IF p \in mapped THEN page_map[p] \in Backed /\ p \in PagesOf(page_map[p])
                                ELSE page_map[p] = NULL)'
    <3>1. CASE p \in mapped
      <4>1. PICK r \in Backed : r = page_map[p] /\ r = page_map'[p] /\ p \in PagesOf(r) /\ p \in mapped'
        BY <1>2, <3>1 DEF RunInv
      <4>2. r \in Backed' /\ p \in PagesOf(r)'
        BY <2>1, <2>2, <4>1, ObjectIds
      <4>. QED  BY <4>1, <4>2 DEF PagesOf
    <3>2. CASE p \notin mapped
      BY <1>2, <3>2 DEF RunInv
    <3>. QED  BY <3>1, <3>2
  <2>. QED  BY <2>3, <2>4, <2>5 DEF RunInv
<1>10. ChunkInv' /\ PhysLinksExact' /\ IdleInv'
  <2>1. PICK b \in Int : b = MAP_FAILED /\ b \notin mapped
    BY DEF MAP_FAILED, TypeOK, Pages
  <2>2. n \in Nat /\ n >= 1 /\ mapped \subseteq mapped'
    BY <1>1, <1>2
  <2>. QED  BY <1>2, <1>3, <1>5, <1>6, <2>1, <2>2, NewDirect
<1>11. Granted
  <2>1. \A r \in DOMAIN used : span'[r] = span[r]
    BY <1>3, <1>5, ObjectIds DEF MetaInv
  <2>2. ~(span'[s].page_count < MAX_BINNED_PAGES)
    BY <1>1, <1>2, <1>5
  <2>3. Grants(s)
    BY <1>3, <1>6, <2>1, <2>2 DEF Grants
  <2>. QED  BY <2>3 DEF Granted
<1>. QED  BY <1>6, <1>7, <1>8, <1>9, <1>10, <1>11

\* A step that changes nothing of the span layer.
LEMMA SamePool ==
  ASSUME PoolInv, UNCHANGED <<span, uninitilized_span_bin, non_empty_bitmap, data_arena,
                              page_map, meta_next, meta_free, mapped, used>>
  PROVE  PoolInv'
<1>1. Objects' = Objects
  BY DEF Objects
<1>2. /\ Backed' = Backed /\ Idle' = Idle
      /\ \A s : PagesOf(s)' = PagesOf(s)
  BY <1>1 DEF Backed, Idle, PagesOf
<1>3. /\ \A s, c : InChunk(s, c)' <=> InChunk(s, c)
      /\ \A n : IdleOf(n)' = IdleOf(n)
  BY <1>2 DEF InChunk, IdleOf
<1>4. MetaInv' /\ FitsRequest'
  BY <1>1 DEF PoolInv, MetaInv, FitsRequest
<1>5. RunInv'
  <2>1. \A p \in Pages : IF p \in mapped
                         THEN page_map[p] \in Backed /\ p \in PagesOf(page_map[p])
                         ELSE page_map[p] = NULL
    BY DEF PoolInv, RunInv
  <2>2. \A p \in Pages : (IF p \in mapped
                          THEN page_map[p] \in Backed /\ p \in PagesOf(page_map[p])
                          ELSE page_map[p] = NULL)'
    BY <1>2, <2>1 DEF PagesOf
  <2>3. \A s \in Objects' : span'[s].page_count >= 1
    BY <1>1 DEF PoolInv, RunInv
  <2>4. \A s \in Backed' : \A p \in PagesOf(s)' : p \in Pages /\ page_map'[p] = s
    BY <1>2 DEF PoolInv, RunInv
  <2>. QED  BY <2>2, <2>3, <2>4 DEF RunInv
<1>6. ChunkInv'
  <2>1. \A c \in data_arena' : RunOf(c[1], c[2]) \subseteq mapped'
    BY DEF PoolInv, ChunkInv
  <2>2. ASSUME NEW s \in Objects', span'[s].page_count < MAX_BINNED_PAGES
        PROVE  s \in Backed' /\ \E c \in data_arena' : InChunk(s, c)'
    BY <1>1, <1>2, <1>3, <2>2 DEF PoolInv, ChunkInv
  <2>3. ASSUME NEW s \in Backed', NEW c \in data_arena'
        PROVE  \/ InChunk(s, c)' /\ span'[s].page_count < MAX_BINNED_PAGES
               \/ PagesOf(s)' \cap RunOf(c[1], c[2]) = {}
    BY <1>2, <1>3 DEF PoolInv, ChunkInv
  <2>. QED  BY <2>1, <2>2, <2>3 DEF ChunkInv
<1>7. PhysLinksExact'
  BY <1>1 DEF PoolInv, PhysLinksExact, PagesOf
<1>8. IdleInv'
  <2>1. \A n \in BinIndex : Chain(uninitilized_span_bin[n], span, IdleOf(n))'
    BY <1>3 DEF PoolInv, IdleInv, Chain, Lists
  <2>2. BitmapInv'
    BY DEF PoolInv, IdleInv, BitmapInv
  <2>3. \A s \in Objects' : span'[s].is_initialized <=> s \in DOMAIN used'
    BY <1>1 DEF PoolInv, IdleInv
  <2>4. \A s \in Idle' : span'[s].page_count < MAX_BINNED_PAGES
    BY <1>2 DEF PoolInv, IdleInv
  <2>. QED  BY <2>1, <2>2, <2>3, <2>4 DEF IdleInv
<1>. QED  BY <1>4, <1>5, <1>6, <1>7, <1>8 DEF PoolInv

\* The mmap of a chunk fails: nothing but aborted changes.
LEMMA AllocChunkFailsInv ==
  ASSUME TypeOK, PoolInv, NEW size \in Requests, AllocChunkFails(size)
  PROVE  TypeOK' /\ PoolInv'
<1>1. UNCHANGED <<span, uninitilized_span_bin, non_empty_bitmap, data_arena,
                  page_map, meta_next, meta_free, mapped, used>> /\ aborted' = TRUE
  BY DEF AllocChunkFails
<1>2. TypeOK'
  BY <1>1 DEF TypeOK
<1>. QED  BY <1>1, <1>2, SamePool

\* A freed object joins the list of those that wait to be reused.
LEMMA MetaFreed ==
  ASSUME TypeOK, MetaInv, NEW s \in Objects, meta_free' = <<s>> \o meta_free,
         UNCHANGED meta_next
  PROVE  /\ Objects' = Objects \ {s} /\ meta_free' \in Seq(SpanIds)
         /\ \A i \in DOMAIN meta_free' : meta_free'[i] < meta_next'
         /\ \A i, j \in DOMAIN meta_free' : meta_free'[i] = meta_free'[j] => i = j
<1>1. PICK L \in Nat : L = Len(meta_free) /\ DOMAIN meta_free = 1 .. L
  BY DEF TypeOK
<1>2. meta_free \in Seq(SpanIds) /\ meta_next \in 1 .. MaxSpans + 1
  BY DEF TypeOK
<1>3. /\ \A i \in 1 .. L : meta_free[i] \in SpanIds
      /\ \A i \in 1 .. L : meta_free[i] < meta_next
      /\ \A i, j \in 1 .. L : meta_free[i] = meta_free[j] => i = j
  <2>1. \A i \in 1 .. L : meta_free[i] \in SpanIds
    BY <1>1, <1>2
  <2>2. /\ \A i \in 1 .. L : meta_free[i] < meta_next
        /\ \A i, j \in 1 .. L : meta_free[i] = meta_free[j] => i = j
    BY <1>1 DEF MetaInv
  <2>. QED  BY <2>1, <2>2
<1>4. s \in SpanIds /\ s \in 1 .. meta_next - 1 /\ \A i \in 1 .. L : s # meta_free[i]
  BY <1>1, ObjectIds DEF Objects
<1>5. /\ meta_free' \in Seq(SpanIds) /\ DOMAIN meta_free' = 1 .. L + 1
      /\ meta_free'[1] = s /\ \A i \in 1 .. L : meta_free'[i + 1] = meta_free[i]
  <2>1. <<s>> \in Seq(SpanIds) /\ Len(<<s>>) = 1 /\ <<s>>[1] = s
    BY <1>4
  <2>2. meta_free' \in Seq(SpanIds) /\ Len(meta_free') = L + 1
    BY <1>1, <1>2, <2>1
  <2>3. meta_free'[1] = s
    BY <1>1, <1>2, <2>1
  <2>4. ASSUME NEW i \in 1 .. L PROVE meta_free'[i + 1] = meta_free[i]
    BY <1>1, <1>2, <2>1
  <2>. QED  BY <1>1, <2>2, <2>3, <2>4
<1>6. \A i \in 1 .. L + 1 : i = 1 \/ \E j \in 1 .. L : i = j + 1
  <2>1. ASSUME NEW i \in 1 .. L + 1, i # 1 PROVE i - 1 \in 1 .. L /\ i = (i - 1) + 1
    BY <1>1, <2>1
  <2>. QED  BY <2>1
<1>7. ASSUME NEW i \in 1 .. L + 1 PROVE meta_free'[i] < meta_next'
  <2>1. CASE i = 1
    BY <1>2, <1>4, <1>5, <2>1
  <2>2. CASE i # 1
    <3>1. PICK j \in 1 .. L : i = j + 1
      BY <1>6, <2>2
    <3>2. meta_free'[i] = meta_free[j]
      BY <1>5, <3>1
    <3>. QED  BY <1>3, <3>2
  <2>. QED  BY <2>1, <2>2
<1>8. ASSUME NEW i \in 1 .. L + 1, NEW j \in 1 .. L + 1, meta_free'[i] = meta_free'[j]
      PROVE  i = j
  <2>1. CASE i = 1 /\ j = 1
    BY <2>1
  <2>2. CASE i # 1 /\ j = 1
    <3>1. PICK a \in 1 .. L : i = a + 1
      BY <1>6, <2>2
    <3>. QED  BY <1>4, <1>5, <1>8, <2>2, <3>1
  <2>3. CASE i = 1 /\ j # 1
    <3>1. PICK a \in 1 .. L : j = a + 1
      BY <1>6, <2>3
    <3>. QED  BY <1>4, <1>5, <1>8, <2>3, <3>1
  <2>4. CASE i # 1 /\ j # 1
    <3>1. PICK a \in 1 .. L, b \in 1 .. L : i = a + 1 /\ j = b + 1
      BY <1>6, <2>4
    <3>2. meta_free[a] = meta_free[b]
      BY <1>5, <1>8, <3>1
    <3>3. a = b
      BY <1>3, <3>2
    <3>. QED  BY <3>1, <3>3
  <2>. QED  BY <2>1, <2>2, <2>3, <2>4
<1>9. Objects' = Objects \ {s}
  <2>1. \A x : x \in Objects <=> x \in 1 .. meta_next - 1 /\ \A i \in 1 .. L : x # meta_free[i]
    BY <1>1 DEF Objects
  <2>2. \A x : x \in Objects' <=> x \in 1 .. meta_next - 1 /\ \A i \in 1 .. L + 1 : x # meta_free'[i]
    BY <1>5 DEF Objects
  <2>3. \A x : (\A i \in 1 .. L + 1 : x # meta_free'[i]) <=> x # s /\ \A i \in 1 .. L : x # meta_free[i]
    <3>1. ASSUME NEW x, \A i \in 1 .. L + 1 : x # meta_free'[i], NEW i \in 1 .. L
          PROVE  x # s /\ x # meta_free[i]
      <4>1. 1 \in 1 .. L + 1 /\ i + 1 \in 1 .. L + 1
        BY <1>1
      <4>. QED  BY <1>5, <3>1, <4>1
    <3>2. ASSUME NEW x, \A i \in 1 .. L + 1 : x # meta_free'[i] PROVE x # s
      <4>1. 1 \in 1 .. L + 1
        BY <1>1
      <4>. QED  BY <1>5, <3>2, <4>1
    <3>3. ASSUME NEW x, x # s, \A i \in 1 .. L : x # meta_free[i], NEW i \in 1 .. L + 1
          PROVE  x # meta_free'[i]
      BY <1>5, <1>6, <3>3
    <3>. QED  BY <3>1, <3>2, <3>3
  <2>4. \A x : x \in Objects' <=> x \in Objects /\ x # s
    <3>. DEFINE Carved(x) == x \in 1 .. meta_next - 1
                Listed(x) == \E i \in 1 .. L : x = meta_free[i]
                ListedNow(x) == \E i \in 1 .. L + 1 : x = meta_free'[i]
    <3>1. ASSUME NEW x
          PROVE  /\ x \in Objects <=> Carved(x) /\ ~Listed(x)
                 /\ x \in Objects' <=> Carved(x) /\ ~ListedNow(x)
                 /\ ListedNow(x) <=> x = s \/ Listed(x)
      BY <2>1, <2>2, <2>3
    <3>2. Carved(s) /\ ~Listed(s)
      BY <1>4
    <3>. HIDE DEF Carved, Listed, ListedNow
    <3>. QED  BY <3>1, <3>2
  <2>. QED  BY <2>4
<1>. QED  BY <1>5, <1>7, <1>8, <1>9

\* A span with a mapping of its own comes back: mapping and object go
\* (span.c:184-190).
LEMMA CacheDirectInv ==
  ASSUME TypeOK, PoolInv, NEW s \in DOMAIN used, CacheDirect(s)
  PROVE  TypeOK' /\ PoolInv' /\ TakesBack(s)
<1>. USE DEF PoolInv
<1>. DEFINE run == IF span[s].base = MAP_FAILED THEN {} ELSE PagesOf(s)
<1>1. s \in Objects /\ s \in SpanIds
  BY ObjectIds DEF MetaInv
<1>2. /\ span[s].page_count >= MAX_BINNED_PAGES
      /\ page_map' = [p \in Pages |-> IF p \in run THEN NULL ELSE page_map[p]]
      /\ mapped' = mapped \ run
      /\ span' = [span EXCEPT ![s].phys_next = IF meta_free = <<>> THEN NULL ELSE Head(meta_free)]
      /\ meta_free' = <<s>> \o meta_free
      /\ Unhand(s)
      /\ UNCHANGED <<uninitilized_span_bin, non_empty_bitmap, data_arena, meta_next, aborted>>
  BY DEF CacheDirect, PagesOf
<1>3. /\ Objects' = Objects \ {s} /\ meta_free' \in Seq(SpanIds)
      /\ \A i \in DOMAIN meta_free' : meta_free'[i] < meta_next'
      /\ \A i, j \in DOMAIN meta_free' : meta_free'[i] = meta_free'[j] => i = j
  BY <1>1, <1>2, MetaFreed
<1>4. /\ span' \in [SpanIds -> SpanRecords] /\ \A r \in SpanIds \ {s} : span'[r] = span[r]
      /\ \A r \in SpanIds : span'[r].page_count = span[r].page_count /\ span'[r].next = span[r].next
  <2>1. PICK t \in SpanOrNull : t = IF meta_free = <<>> THEN NULL ELSE Head(meta_free)
    BY DEF TypeOK, SpanOrNull
  <2>2. span' = [span EXCEPT ![s].phys_next = t]
    BY <1>2, <2>1
  <2>. QED  BY <1>1, <2>2, SpanTyped DEF SpanRecords
<1>5. /\ DOMAIN used' = DOMAIN used \ {s} /\ DOMAIN used' \subseteq SpanIds
      /\ \A r \in DOMAIN used' : used'[r] = used[r]
      /\ \A r \in DOMAIN used' : used'[r] \in Requests
      /\ FitsRequest'
  <2>1. \A r \in DOMAIN used \ {s} : span'[r].page_count = span[r].page_count
    BY <1>4 DEF TypeOK
  <2>. QED  BY <1>2, <2>1, Unhanded
<1>6. TypeOK'
  <2>1. page_map' \in [Pages -> SpanOrNull]
    BY <1>2 DEF TypeOK, SpanOrNull
  <2>2. mapped' \subseteq Pages
    BY <1>2 DEF TypeOK
  <2>. QED  BY <1>2, <1>3, <1>4, <1>5, <2>1, <2>2 DEF TypeOK, SpanRecords, Bases, Counts
<1>7. MetaInv'
  BY <1>3, <1>5 DEF MetaInv
<1>8. /\ \A r \in Objects \ {s} : r \in SpanIds /\ span'[r] = span[r] /\ PagesOf(r)' = PagesOf(r)
      /\ Backed' = Backed \ {s}
  <2>1. \A r \in Objects \ {s} : r \in SpanIds /\ span'[r] = span[r] /\ PagesOf(r)' = PagesOf(r)
    BY <1>4, ObjectIds DEF PagesOf
  <2>. QED  BY <1>3, <2>1 DEF Backed
<1>9. \A p \in Pages : p \in run => page_map[p] = s /\ s \in Backed /\ p \in PagesOf(s)
  <2>1. span[s].base # MAP_FAILED => s \in Backed
    BY <1>1 DEF Backed
  <2>. QED  BY <2>1 DEF RunInv
<1>10. ASSUME NEW c \in data_arena PROVE RunOf(c[1], c[2]) \subseteq mapped'
  <2>1. RunOf(c[1], c[2]) \subseteq mapped
    BY DEF ChunkInv
  <2>2. span[s].base # MAP_FAILED => PagesOf(s) \cap RunOf(c[1], c[2]) = {}
    <3>1. span[s].base # MAP_FAILED => s \in Backed
      BY <1>1 DEF Backed
    <3>2. span[s].page_count \in Int /\ MAX_BINNED_PAGES \in Int
      BY <1>1, SpanFields
    <3>3. ~(span[s].page_count < MAX_BINNED_PAGES)
      BY <1>2, <3>2
    <3>4. s \in Backed => \/ InChunk(s, c) /\ span[s].page_count < MAX_BINNED_PAGES
                         \/ PagesOf(s) \cap RunOf(c[1], c[2]) = {}
      BY DEF ChunkInv
    <3>. QED  BY <3>1, <3>3, <3>4
  <2>. QED  BY <1>2, <2>1, <2>2
<1>. HIDE DEF run
<1>11. RunInv'
  <2>1. \A r \in Objects' : span'[r].page_count >= 1
    BY <1>3, <1>8 DEF RunInv
  <2>2. ASSUME NEW r \in Backed', NEW p \in PagesOf(r)' PROVE p \in Pages /\ page_map'[p] = r
    <3>1. r \in Backed /\ r # s /\ p \in PagesOf(r)
      BY <1>8, <2>2, ObjectIds
    <3>2. p \in Pages /\ page_map[p] = r
      BY <3>1 DEF RunInv
    <3>. QED  BY <1>2, <1>9, <3>1, <3>2
  <2>3. ASSUME NEW p \in Pages
        PROVE  (IF p \in mapped THEN page_map[p] \in Backed /\ p \in PagesOf(page_map[p])
                                ELSE page_map[p] = NULL)'
    <3>1. CASE p \in mapped /\ p \notin run
      <4>1. PICK r \in Backed : r = page_map[p] /\ r = page_map'[p] /\ p \in PagesOf(r) /\ p \in mapped'
        BY <1>2, <3>1 DEF RunInv
      <4>2. r # s
        <5>1. span[s].base # MAP_FAILED /\ r = s => p \in run
          BY <4>1 DEF run
        <5>. QED  BY <3>1, <4>1, <5>1 DEF Backed
      <4>3. r \in Backed' /\ p \in PagesOf(r)'
        BY <1>8, <4>1, <4>2, ObjectIds
      <4>. QED  BY <4>1, <4>3 DEF PagesOf
    <3>2. CASE p \in run
      BY <1>2, <3>2
    <3>3. CASE p \notin run /\ p \notin mapped
      BY <1>2, <3>3 DEF RunInv
    <3>. QED  BY <3>1, <3>2, <3>3
  <2>. QED  BY <2>1, <2>2, <2>3 DEF RunInv
<1>12. ChunkInv'
  <2>1. ASSUME NEW r \in Objects', span'[r].page_count < MAX_BINNED_PAGES
        PROVE  r \in Backed' /\ \E c \in data_arena' : InChunk(r, c)'
    <3>1. r \in Objects \ {s} /\ span[r].page_count < MAX_BINNED_PAGES
      BY <1>3, <1>8, <2>1
    <3>2. r \in Backed /\ \E c \in data_arena : InChunk(r, c)
      BY <3>1 DEF ChunkInv
    <3>. QED  BY <1>2, <1>8, <3>1, <3>2 DEF InChunk
  <2>2. ASSUME NEW r \in Backed', NEW c \in data_arena'
        PROVE  \/ InChunk(r, c)' /\ span'[r].page_count < MAX_BINNED_PAGES
               \/ PagesOf(r)' \cap RunOf(c[1], c[2]) = {}
    <3>1. r \in Backed /\ r \in Objects \ {s} /\ c \in data_arena
      BY <1>2, <1>8, <2>2, ObjectIds
    <3>. QED  BY <1>8, <3>1 DEF ChunkInv, InChunk
  <2>. QED  BY <1>2, <1>10, <2>1, <2>2 DEF ChunkInv
<1>13. PhysLinksExact'
  <2>1. ASSUME NEW c \in data_arena, NEW r \in Objects', PagesOf(r)' \subseteq RunOf(c[1], c[2])
        PROVE  /\ IF span'[r].base + span'[r].page_count = c[1] + c[2]
                    THEN span'[r].phys_next = NULL
                    ELSE /\ span'[r].phys_next \in Objects'
                         /\ span'[span'[r].phys_next].base = span'[r].base + span'[r].page_count
                         /\ span'[span'[r].phys_next].phys_prev = r
               /\ span'[r].base = c[1] <=> span'[r].phys_prev = NULL
    <3>1. r \in Objects \ {s} /\ InChunk(r, c) /\ span'[r] = span[r]
      BY <1>3, <1>8, <2>1 DEF InChunk
    <3>2. CASE span[r].base + span[r].page_count = c[1] + c[2]
      BY <3>1, <3>2, PhysNext
    <3>3. CASE span[r].base + span[r].page_count # c[1] + c[2]
      <4>1. PICK t \in Objects :
              /\ t = span[r].phys_next /\ span[t].page_count < MAX_BINNED_PAGES
              /\ span[t].base = span[r].base + span[r].page_count
              /\ span[t].phys_prev = r
              /\ span[r].base = c[1] <=> span[r].phys_prev = NULL
        BY <3>1, <3>3, PhysNext, ObjectIds
      <4>2. t # s
        <5>1. span[s].page_count \in Int /\ MAX_BINNED_PAGES \in Int
          BY <1>1, SpanFields
        <5>. QED  BY <1>2, <4>1, <5>1
      <4>3. t \in Objects' /\ span'[t] = span[t]
        BY <1>3, <1>8, <4>2
      <4>. QED  BY <3>1, <3>3, <4>1, <4>3
    <3>. QED  BY <3>2, <3>3
  <2>. QED  BY <1>2, <2>1 DEF PhysLinksExact
<1>14. IdleInv'
  <2>1. Idle' = Idle
    BY <1>3, <1>5 DEF Idle
  <2>2. \A n : IdleOf(n)' = IdleOf(n)
    BY <1>4, <2>1, ObjectIds DEF IdleOf, Idle
  <2>3. ASSUME NEW n \in BinIndex PROVE Chain(uninitilized_span_bin[n], span', IdleOf(n)')
    <3>1. Chain(uninitilized_span_bin[n], span, IdleOf(n))
      BY DEF IdleInv
    <3>2. \A r \in IdleOf(n) : span'[r].next = span[r].next
      BY <1>4, ObjectIds DEF IdleOf, Idle
    <3>3. Chain(uninitilized_span_bin[n], span', IdleOf(n))
      BY <3>1, <3>2, ChainKept
    <3>. QED  BY <2>2, <3>3
  <2>4. BitmapInv'
    BY <1>2 DEF IdleInv, BitmapInv
  <2>5. \A r \in Objects' : span'[r].is_initialized <=> r \in DOMAIN used'
    BY <1>3, <1>5, <1>8 DEF IdleInv
  <2>6. \A r \in Idle' : span'[r].page_count < MAX_BINNED_PAGES
    BY <1>4, <2>1, ObjectIds DEF IdleInv, Idle
  <2>. QED  BY <1>2, <2>3, <2>4, <2>5, <2>6 DEF IdleInv
<1>15. TakesBack(s)
  BY <1>4, <1>5 DEF TakesBack, TypeOK
<1>. QED  BY <1>5, <1>6, <1>7, <1>11, <1>12, <1>13, <1>14, <1>15

-----------------------------------------------------------------------------
(* Spans that leave a bin or enter one as they are                         *)

\* The objects keep their pages and their neighbours.
LEMMA SameLayout ==
  ASSUME TypeOK, RunInv, ChunkInv, PhysLinksExact, Objects' = Objects,
         \A r \in Objects : /\ span'[r].base = span[r].base
                            /\ span'[r].page_count = span[r].page_count
                            /\ span'[r].phys_next = span[r].phys_next
                            /\ span'[r].phys_prev = span[r].phys_prev,
         UNCHANGED <<data_arena, page_map, mapped>>
  PROVE  RunInv' /\ ChunkInv' /\ PhysLinksExact'
<1>1. /\ \A r \in Objects : PagesOf(r)' = PagesOf(r)
      /\ Backed' = Backed /\ \A r \in Backed : r \in Objects
  BY DEF PagesOf, Backed
<1>2. RunInv'
  <2>1. \A r \in Objects' : span'[r].page_count >= 1
    BY DEF RunInv
  <2>2. ASSUME NEW r \in Backed', NEW p \in PagesOf(r)' PROVE p \in Pages /\ page_map'[p] = r
    BY <1>1, <2>2 DEF RunInv
  <2>3. ASSUME NEW p \in Pages
        PROVE  (IF p \in mapped THEN page_map[p] \in Backed /\ p \in PagesOf(page_map[p])
                                ELSE page_map[p] = NULL)'
    <3>1. CASE p \in mapped
      <4>1. PICK r \in Backed : r = page_map[p] /\ r = page_map'[p] /\ p \in PagesOf(r) /\ p \in mapped'
        BY <3>1 DEF RunInv
      <4>2. r \in Backed' /\ p \in PagesOf(r)'
        BY <1>1, <4>1
      <4>. QED  BY <4>1, <4>2 DEF PagesOf
    <3>2. CASE p \notin mapped
      BY <3>2 DEF RunInv
    <3>. QED  BY <3>1, <3>2
  <2>. QED  BY <2>1, <2>2, <2>3 DEF RunInv
<1>3. ChunkInv'
  <2>1. \A c \in data_arena' : RunOf(c[1], c[2]) \subseteq mapped'
    BY DEF ChunkInv
  <2>2. ASSUME NEW r \in Objects', span'[r].page_count < MAX_BINNED_PAGES
        PROVE  r \in Backed' /\ \E c \in data_arena' : InChunk(r, c)'
    <3>1. r \in Backed /\ \E c \in data_arena : InChunk(r, c)
      BY <2>2 DEF ChunkInv
    <3>. QED  BY <1>1, <3>1 DEF InChunk
  <2>3. ASSUME NEW r \in Backed', NEW c \in data_arena'
        PROVE  \/ InChunk(r, c)' /\ span'[r].page_count < MAX_BINNED_PAGES
               \/ PagesOf(r)' \cap RunOf(c[1], c[2]) = {}
    BY <1>1 DEF ChunkInv, InChunk
  <2>. QED  BY <2>1, <2>2, <2>3 DEF ChunkInv
<1>4. PhysLinksExact'
  <2>1. ASSUME NEW c \in data_arena, NEW r \in Objects', PagesOf(r)' \subseteq RunOf(c[1], c[2])
        PROVE  /\ IF span'[r].base + span'[r].page_count = c[1] + c[2]
                    THEN span'[r].phys_next = NULL
                    ELSE /\ span'[r].phys_next \in Objects'
                         /\ span'[span'[r].phys_next].base = span'[r].base + span'[r].page_count
                         /\ span'[span'[r].phys_next].phys_prev = r
               /\ span'[r].base = c[1] <=> span'[r].phys_prev = NULL
    <3>1. r \in Objects /\ InChunk(r, c)
      BY <1>1, <2>1 DEF InChunk
    <3>2. CASE span[r].base + span[r].page_count = c[1] + c[2]
      BY <3>1, <3>2, PhysNext
    <3>3. CASE span[r].base + span[r].page_count # c[1] + c[2]
      <4>1. PICK t \in Objects :
              /\ t = span[r].phys_next
              /\ span[t].base = span[r].base + span[r].page_count
              /\ span[t].phys_prev = r
              /\ span[r].base = c[1] <=> span[r].phys_prev = NULL
        BY <3>1, <3>3, PhysNext, ObjectIds
      <4>. QED  BY <3>1, <3>3, <4>1
    <3>. QED  BY <3>2, <3>3
  <2>. QED  BY <2>1 DEF PhysLinksExact
<1>. QED  BY <1>2, <1>3, <1>4

\* A span that becomes idle goes in front of its bin (span.c:121-122, 174-176, 193-194).
LEMMA BinPushed ==
  ASSUME TypeOK, IdleInv, NEW n \in BinIndex, NEW s \in SpanIds, s \notin Idle,
         Idle' = Idle \cup {s},
         span'[s].next = uninitilized_span_bin[n], span'[s].page_count = n,
         \A r \in Idle : /\ span'[r].next = span[r].next
                         /\ span'[r].page_count = span[r].page_count,
         uninitilized_span_bin' = [uninitilized_span_bin EXCEPT ![n] = s],
         non_empty_bitmap' = MarkNonEmpty(non_empty_bitmap, n)
  PROVE  /\ non_empty_bitmap' \in [Words -> SUBSET Bits]
         /\ uninitilized_span_bin' \in [BinIndex -> SpanOrNull]
         /\ BitmapInv'
         /\ \A m \in BinIndex : Chain(uninitilized_span_bin'[m], span', IdleOf(m)')
         /\ \A r \in Idle' : span'[r].page_count < MAX_BINNED_PAGES
<1>1. /\ non_empty_bitmap' \in [Words -> SUBSET Bits]
      /\ uninitilized_span_bin' \in [BinIndex -> SpanOrNull]
      /\ BitmapInv'
  <2>1. /\ non_empty_bitmap \in [Words -> SUBSET Bits]
        /\ uninitilized_span_bin \in [BinIndex -> SpanOrNull]
        /\ BitmapExact(non_empty_bitmap, uninitilized_span_bin)
    BY DEF TypeOK, IdleInv, BitmapInv
  <2>2. /\ MarkNonEmpty(non_empty_bitmap, n) \in [Words -> SUBSET Bits]
        /\ BitmapExact(MarkNonEmpty(non_empty_bitmap, n), [uninitilized_span_bin EXCEPT ![n] = s])
    BY <2>1, BinFilled
  <2>3. BitmapExact(non_empty_bitmap', uninitilized_span_bin')
    BY <2>2
  <2>4. uninitilized_span_bin' \in [BinIndex -> SpanOrNull]
    BY <2>1 DEF SpanOrNull
  <2>. QED  BY <2>2, <2>3, <2>4 DEF BitmapInv, BitmapExact
<1>2. /\ IdleOf(n)' = IdleOf(n) \cup {s} /\ s \notin IdleOf(n)
      /\ \A m \in BinIndex \ {n} : IdleOf(m)' = IdleOf(m)
  BY DEF IdleOf
<1>3. \A m \in BinIndex : \A r \in IdleOf(m) : span'[r].next = span[r].next
  BY DEF IdleOf
<1>4. ASSUME NEW m \in BinIndex PROVE Chain(uninitilized_span_bin'[m], span', IdleOf(m)')
  <2>1. Chain(uninitilized_span_bin[m], span, IdleOf(m))
    BY DEF IdleInv
  <2>2. CASE m = n
    <3>1. /\ Chain(uninitilized_span_bin[n], span, IdleOf(n))
          /\ \A r \in IdleOf(n) : span'[r].next = span[r].next
      BY <1>3, <2>1, <2>2
    <3>2. Chain(s, span', IdleOf(n) \cup {s})
      BY <1>2, <3>1, ChainPush
    <3>3. uninitilized_span_bin'[m] = s
      BY <2>2 DEF TypeOK
    <3>. QED  BY <1>2, <2>2, <3>2, <3>3
  <2>3. CASE m # n
    <3>1. uninitilized_span_bin'[m] = uninitilized_span_bin[m] /\ IdleOf(m)' = IdleOf(m)
      BY <1>2, <2>3 DEF TypeOK
    <3>2. Chain(uninitilized_span_bin[m], span', IdleOf(m))
      BY <1>3, <2>1, ChainKept
    <3>. QED  BY <3>1, <3>2
  <2>. QED  BY <2>2, <2>3
<1>5. \A r \in Idle' : span'[r].page_count < MAX_BINNED_PAGES
  BY DEF IdleInv, BinIndex
<1>. QED  BY <1>1, <1>4, <1>5

\* A binned span comes back: it goes in front of its bin (span.c:192-195).
LEMMA CacheBinnedInv ==
  ASSUME TypeOK, PoolInv, NEW s \in DOMAIN used, CacheBinned(s)
  PROVE  TypeOK' /\ PoolInv' /\ TakesBack(s)
<1>. USE DEF PoolInv
<1>1. s \in Objects /\ s \in SpanIds
  BY ObjectIds DEF MetaInv
<1>2. PICK n \in BinIndex :
        /\ n = span[s].page_count
        /\ span' = [span EXCEPT ![s] = [@ EXCEPT !.is_initialized = FALSE,
                                                 !.next = uninitilized_span_bin[n]]]
        /\ uninitilized_span_bin' = [uninitilized_span_bin EXCEPT ![n] = s]
        /\ non_empty_bitmap' = MarkNonEmpty(non_empty_bitmap, n)
  <2>1. span[s].page_count \in BinIndex
    BY <1>1, SpanFields DEF CacheBinned, BinIndex
  <2>2. PICK n \in BinIndex : n = span[s].page_count
    BY <2>1
  <2>. QED  BY <2>2 DEF CacheBinned
<1>3. Unhand(s) /\ UNCHANGED <<data_arena, page_map, meta_next, meta_free, mapped, aborted>>
  BY DEF CacheBinned
<1>4. PICK head \in SpanOrNull : head = uninitilized_span_bin[n]
  BY DEF TypeOK
<1>5. /\ span' \in [SpanIds -> SpanRecords] /\ \A r \in SpanIds \ {s} : span'[r] = span[r]
      /\ span'[s].is_initialized = FALSE /\ span'[s].next = head
      /\ \A r \in SpanIds : /\ span'[r].base = span[r].base
                            /\ span'[r].page_count = span[r].page_count
                            /\ span'[r].phys_next = span[r].phys_next
                            /\ span'[r].phys_prev = span[r].phys_prev
  <2>1. PICK old \in SpanRecords : old = span[s]
    BY <1>1, SpanTyped
  <2>2. PICK new \in SpanRecords :
          /\ new = [old EXCEPT !.is_initialized = FALSE, !.next = head]
          /\ new.is_initialized = FALSE /\ new.next = head
          /\ new.base = old.base /\ new.page_count = old.page_count
          /\ new.phys_next = old.phys_next /\ new.phys_prev = old.phys_prev
    BY CachedRecord
  <2>3. span' = [span EXCEPT ![s] = new]
    BY <1>2, <1>4, <2>1, <2>2
  <2>. QED  BY <1>1, <2>1, <2>2, <2>3, SpanTyped
<1>6. /\ DOMAIN used' = DOMAIN used \ {s} /\ DOMAIN used' \subseteq SpanIds
      /\ \A r \in DOMAIN used' : used'[r] = used[r]
      /\ \A r \in DOMAIN used' : used'[r] \in Requests
      /\ FitsRequest'
  <2>1. \A r \in DOMAIN used \ {s} : span'[r].page_count = span[r].page_count
    BY <1>5 DEF TypeOK
  <2>. QED  BY <1>3, <2>1, Unhanded
<1>7. Objects' = Objects
  BY <1>3 DEF Objects
<1>8. Idle' = Idle \cup {s} /\ s \notin Idle /\ \A r \in Idle : r \in SpanIds
  BY <1>1, <1>6, <1>7, ObjectIds DEF Idle
<1>9. /\ non_empty_bitmap' \in [Words -> SUBSET Bits]
      /\ uninitilized_span_bin' \in [BinIndex -> SpanOrNull]
      /\ BitmapInv'
      /\ \A m \in BinIndex : Chain(uninitilized_span_bin'[m], span', IdleOf(m)')
      /\ \A r \in Idle' : span'[r].page_count < MAX_BINNED_PAGES
  <2>1. span'[s].next = uninitilized_span_bin[n] /\ span'[s].page_count = n
    BY <1>1, <1>2, <1>4, <1>5
  <2>2. \A r \in Idle : /\ span'[r].next = span[r].next
                        /\ span'[r].page_count = span[r].page_count
    BY <1>5, <1>8
  <2>. QED  BY <1>1, <1>2, <1>8, <2>1, <2>2, BinPushed
<1>10. TypeOK'
  BY <1>3, <1>5, <1>6, <1>9 DEF TypeOK, SpanRecords, Bases, Counts
<1>11. MetaInv'
  BY <1>3, <1>6, <1>7 DEF MetaInv
<1>12. RunInv' /\ ChunkInv' /\ PhysLinksExact'
  <2>1. \A r \in Objects : /\ span'[r].base = span[r].base
                           /\ span'[r].page_count = span[r].page_count
                           /\ span'[r].phys_next = span[r].phys_next
                           /\ span'[r].phys_prev = span[r].phys_prev
    BY <1>5, ObjectIds
  <2>. QED  BY <1>3, <1>7, <2>1, SameLayout
<1>13. IdleInv'
  <2>1. \A r \in Objects' : span'[r].is_initialized <=> r \in DOMAIN used'
    <3>1. \A r \in Objects : r \in SpanIds /\ (span[r].is_initialized <=> r \in DOMAIN used)
      BY ObjectIds DEF IdleInv
    <3>2. ASSUME NEW r \in Objects, r # s PROVE span'[r].is_initialized <=> r \in DOMAIN used'
      BY <1>5, <1>6, <3>1, <3>2
    <3>. QED  BY <1>5, <1>6, <1>7, <3>2
  <2>. QED  BY <1>9, <2>1 DEF IdleInv
<1>14. TakesBack(s)
  BY <1>5, <1>6 DEF TakesBack
<1>. QED  BY <1>6, <1>10, <1>11, <1>12, <1>13, <1>14

\* find_best_fitting_uninitialized_span succeeds: the head of the bin it finds.
LEMMA FoundHead ==
  ASSUME TypeOK, IdleInv, NEW n \in BinIndex, FindBestFitting(n) # NO_FITTING
  PROVE  \E best \in BinIndex, s \in Idle :
           /\ best = FindBestFitting(n) /\ best >= n
           /\ s = uninitilized_span_bin[best] /\ s \in SpanIds /\ s \in Objects
           /\ span[s].page_count = best
           /\ Chain(span[s].next, span, IdleOf(best) \ {s})
           /\ s \in IdleOf(best)
<1>1. BitmapInv
  BY DEF IdleInv
<1>2. PICK best \in BinIndex :
        best = FindBestFitting(n) /\ best >= n /\ uninitilized_span_bin[best] # NULL
  BY <1>1, BestFitting
<1>3. PICK s : s = uninitilized_span_bin[best]
  OBVIOUS
<1>4. Chain(s, span, IdleOf(best)) /\ s # NULL
  BY <1>2, <1>3 DEF IdleInv
<1>5. s \in IdleOf(best) /\ Chain(span[s].next, span, IdleOf(best) \ {s})
  BY <1>4, ChainHead
<1>6. s \in Idle /\ s \in Objects /\ s \in SpanIds /\ span[s].page_count = best
  BY <1>5, ObjectIds DEF IdleOf, Idle
<1>. QED  BY <1>2, <1>3, <1>5, <1>6

\* find_best_fitting_uninitialized_span finds the shortest idle span there is.
LEMMA ShortestFound ==
  ASSUME TypeOK, IdleInv, NEW n \in BinIndex, NEW r \in Idle, span[r].page_count >= n
  PROVE  FindBestFitting(n) # NO_FITTING /\ FindBestFitting(n) <= span[r].page_count
<1>1. PICK m \in BinIndex : m = span[r].page_count /\ m >= n
  <2>1. r \in Objects /\ r \in SpanIds
    BY ObjectIds DEF Idle
  <2>2. span[r].page_count \in BinIndex
    <3>1. span[r].page_count \in Nat
      BY <2>1, SpanTyped DEF SpanRecords, Counts
    <3>2. span[r].page_count < MAX_BINNED_PAGES
      BY DEF IdleInv
    <3>. QED  BY <3>1, <3>2 DEF BinIndex
  <2>. QED  BY <2>2
<1>2. r \in IdleOf(m) /\ Chain(uninitilized_span_bin[m], span, IdleOf(m))
  BY <1>1 DEF IdleInv, IdleOf
<1>3. uninitilized_span_bin[m] # NULL
  BY <1>2, ChainHead
<1>4. BitmapInv
  BY DEF IdleInv
<1>5. FindBestFitting(n) # NO_FITTING
  BY <1>1, <1>3, <1>4, BestFitting
<1>6. PICK best \in BinIndex :
        best = FindBestFitting(n) /\ (m >= n /\ m < best => uninitilized_span_bin[m] = NULL)
  BY <1>1, <1>4, <1>5, BestFitting
<1>7. m \in Int /\ best \in Int
  BY DEF BinIndex
<1>8. best <= m
  BY <1>1, <1>3, <1>6, <1>7
<1>. QED  BY <1>1, <1>5, <1>6, <1>8

\* A bin of the right size gives its head (span.c:103-107).
LEMMA AllocExactInv ==
  ASSUME NoWrap, TypeOK, PoolInv, NEW size \in Requests, AllocExact(size)
  PROVE  TypeOK' /\ PoolInv' /\ Granted
<1>. USE DEF PoolInv
<1>1. PICK n \in 1 .. SIZE_MAX : n = RoundUpPage(size) /\ size <= n * PAGE_SIZE
  BY RoundUpFits
<1>2. n \in BinIndex /\ FindBestFitting(n) = n /\ n # NO_FITTING
  BY <1>1 DEF AllocExact, BinIndex, NO_FITTING
<1>3. PICK s \in Idle :
        /\ s = uninitilized_span_bin[n] /\ s \in SpanIds /\ s \in Objects
        /\ span[s].page_count = n
        /\ Chain(span[s].next, span, IdleOf(n) \ {s}) /\ s \in IdleOf(n)
  BY <1>2, FoundHead
<1>4. /\ uninitilized_span_bin' = PopBin(n).bins /\ non_empty_bitmap' = PopBin(n).bitmap
      /\ span' = [span EXCEPT ![s].is_initialized = TRUE] /\ Hand(s, size)
      /\ UNCHANGED <<data_arena, page_map, meta_next, meta_free, mapped, aborted>>
  BY <1>1, <1>3 DEF AllocExact
<1>5. /\ span' \in [SpanIds -> SpanRecords] /\ \A r \in SpanIds \ {s} : span'[r] = span[r]
      /\ span'[s].is_initialized = TRUE
      /\ \A r \in SpanIds : /\ span'[r].base = span[r].base
                            /\ span'[r].page_count = span[r].page_count
                            /\ span'[r].next = span[r].next
                            /\ span'[r].phys_next = span[r].phys_next
                            /\ span'[r].phys_prev = span[r].phys_prev
  <2>1. PICK old \in SpanRecords, yes \in BOOLEAN : old = span[s] /\ yes = TRUE
    BY <1>3, SpanTyped
  <2>2. PICK new \in SpanRecords :
          /\ new = [old EXCEPT !.is_initialized = yes] /\ new.is_initialized = yes
          /\ new.base = old.base /\ new.page_count = old.page_count
          /\ new.next = old.next
          /\ new.phys_next = old.phys_next /\ new.phys_prev = old.phys_prev
    BY MarkedRecord
  <2>3. span' = [span EXCEPT ![s] = new]
    BY <1>4, <2>1, <2>2
  <2>. QED  BY <1>3, <2>1, <2>2, <2>3, SpanTyped
<1>6. /\ DOMAIN used' = DOMAIN used \cup {s} /\ DOMAIN used' \subseteq SpanIds
      /\ \A r \in DOMAIN used : used'[r] = used[r]
      /\ \A r \in DOMAIN used' : used'[r] \in Requests
      /\ FitsRequest'
  <2>1. \A r \in DOMAIN used : span'[r].page_count = span[r].page_count
    BY <1>5 DEF TypeOK
  <2>2. size <= span'[s].page_count * PAGE_SIZE /\ s \notin DOMAIN used
    BY <1>1, <1>3, <1>5 DEF Idle
  <2>. QED  BY <1>3, <1>4, <2>1, <2>2, Handed
<1>7. /\ uninitilized_span_bin' = [uninitilized_span_bin EXCEPT ![n] = span[s].next]
      /\ uninitilized_span_bin' \in [BinIndex -> SpanOrNull]
      /\ non_empty_bitmap' \in [Words -> SUBSET Bits]
      /\ BitmapInv'
  <2>1. /\ PopBin(n).bins = [uninitilized_span_bin EXCEPT ![n] = span[s].next]
        /\ PopBin(n).bins \in [BinIndex -> SpanOrNull]
        /\ PopBin(n).bitmap \in [Words -> SUBSET Bits]
        /\ BitmapExact(PopBin(n).bitmap, PopBin(n).bins)
    BY <1>2, <1>3, BinPopped DEF IdleInv
  <2>2. BitmapExact(non_empty_bitmap', uninitilized_span_bin')
    BY <1>4, <2>1
  <2>. QED  BY <1>4, <2>1, <2>2 DEF BitmapInv, BitmapExact
<1>8. TypeOK'
  BY <1>4, <1>5, <1>6, <1>7 DEF TypeOK, SpanRecords, Bases, Counts
<1>9. Objects' = Objects /\ MetaInv'
  <2>1. Objects' = Objects
    BY <1>4 DEF Objects
  <2>. QED  BY <1>3, <1>4, <1>6, <2>1 DEF MetaInv
<1>10. RunInv' /\ ChunkInv' /\ PhysLinksExact'
  <2>1. \A r \in Objects : /\ span'[r].base = span[r].base
                           /\ span'[r].page_count = span[r].page_count
                           /\ span'[r].phys_next = span[r].phys_next
                           /\ span'[r].phys_prev = span[r].phys_prev
    BY <1>5, ObjectIds
  <2>. QED  BY <1>4, <1>9, <2>1, SameLayout
<1>11. IdleInv'
  <2>1. Idle' = Idle \ {s} /\ \A r \in Idle : r \in SpanIds /\ r \in Objects
    BY <1>3, <1>6, <1>9, ObjectIds DEF Idle
  <2>2. /\ IdleOf(n)' = IdleOf(n) \ {s}
        /\ \A m \in BinIndex \ {n} : IdleOf(m)' = IdleOf(m)
    BY <1>3, <1>5, <2>1 DEF IdleOf
  <2>3. \A m \in BinIndex : \A r \in IdleOf(m) : span'[r].next = span[r].next
    BY <1>5, <2>1 DEF IdleOf
  <2>4. ASSUME NEW m \in BinIndex PROVE Chain(uninitilized_span_bin'[m], span', IdleOf(m)')
    <3>1. CASE m = n
      <4>1. uninitilized_span_bin'[m] = span[s].next
        BY <1>7, <3>1 DEF TypeOK
      <4>2. \A r \in IdleOf(n) \ {s} : span'[r].next = span[r].next
        BY <1>2, <2>3
      <4>3. Chain(span[s].next, span', IdleOf(n) \ {s})
        BY <1>3, <4>2, ChainKept
      <4>. QED  BY <2>2, <3>1, <4>1, <4>3
    <3>2. CASE m # n
      <4>1. uninitilized_span_bin'[m] = uninitilized_span_bin[m] /\ IdleOf(m)' = IdleOf(m)
        BY <1>7, <2>2, <3>2 DEF TypeOK
      <4>2. Chain(uninitilized_span_bin[m], span', IdleOf(m))
        BY <2>3, ChainKept DEF IdleInv
      <4>. QED  BY <4>1, <4>2
    <3>. QED  BY <3>1, <3>2
  <2>5. \A r \in Objects' : span'[r].is_initialized <=> r \in DOMAIN used'
    <3>1. \A r \in Objects : r \in SpanIds /\ (span[r].is_initialized <=> r \in DOMAIN used)
      BY ObjectIds DEF IdleInv
    <3>2. ASSUME NEW r \in Objects, r # s PROVE span'[r].is_initialized <=> r \in DOMAIN used'
      BY <1>5, <1>6, <3>1, <3>2
    <3>. QED  BY <1>5, <1>6, <1>9, <3>2
  <2>6. \A r \in Idle' : span'[r].page_count < MAX_BINNED_PAGES
    BY <1>5, <2>1 DEF IdleInv
  <2>. QED  BY <1>7, <2>4, <2>5, <2>6 DEF IdleInv
<1>12. Granted
  <2>1. \A r \in DOMAIN used : r \in SpanIds
    BY DEF TypeOK
  <2>2. s \notin DOMAIN used /\ span'[s].page_count = n
    BY <1>3, <1>5 DEF Idle
  <2>3. TakesBest(s, n)
    BY <1>2, <1>3, ShortestFound DEF TakesBest
  <2>4. Grants(s)
    BY <1>3, <1>5, <1>6, <2>1, <2>2, <2>3 DEF Grants
  <2>. QED  BY <1>3, <2>4 DEF Granted
<1>. QED  BY <1>6, <1>8, <1>9, <1>10, <1>11, <1>12

-----------------------------------------------------------------------------
(* A span cut in two                                                       *)

\* The fields a split leaves in the spans.
SplitFields(fit, split, n, rest, bin) ==
  /\ span'[fit].base = span[fit].base /\ span'[fit].page_count = n
  /\ span'[fit].is_initialized = TRUE
  /\ span'[fit].phys_next = split /\ span'[fit].phys_prev = span[fit].phys_prev
  /\ span'[split].base = SplitBase(fit, n) /\ span'[split].page_count = rest
  /\ span'[split].is_initialized = FALSE /\ span'[split].next = bin
  /\ span'[split].phys_next = span[fit].phys_next /\ span'[split].phys_prev = fit
  /\ \A r \in SpanIds \ {fit, split} :
       /\ span'[r].base = span[r].base /\ span'[r].page_count = span[r].page_count
       /\ span'[r].is_initialized = span[r].is_initialized
       /\ span'[r].next = span[r].next /\ span'[r].phys_next = span[r].phys_next
       /\ span'[r].phys_prev = IF r = span[fit].phys_next THEN split
                               ELSE span[r].phys_prev

\* What the assignments of span.c:113-128 leave, each in its field.
LEMMA SplitRecords ==
  ASSUME TypeOK, NEW fit \in SpanIds, NEW split \in SpanIds, split # fit,
         NEW n \in Counts, NEW rest \in Counts, NEW bin \in SpanOrNull,
         SplitBase(fit, n) \in Bases,
         span[fit].phys_next # fit, span[fit].phys_next # split,
         span' = SplitSpans(fit, split, n, rest, bin)
  PROVE  span' \in [SpanIds -> SpanRecords] /\ SplitFields(fit, split, n, rest, bin)
<1>1. PICK whole \in SpanRecords : whole = span[fit]
  BY SpanTyped
<1>2. PICK new \in SpanRecords :
        /\ new = [base |-> SplitBase(fit, n), page_count |-> rest, is_initialized |-> FALSE,
                  next |-> bin, phys_next |-> span[fit].phys_next, phys_prev |-> fit]
        /\ new.base = SplitBase(fit, n) /\ new.page_count = rest /\ new.is_initialized = FALSE
        /\ new.next = bin /\ new.phys_next = span[fit].phys_next /\ new.phys_prev = fit
  <2>1. fit \in SpanOrNull /\ span[fit].phys_next \in SpanOrNull
    BY DEF TypeOK, SpanOrNull
  <2>. DEFINE new == [base |-> SplitBase(fit, n), page_count |-> rest, is_initialized |-> FALSE,
                      next |-> bin, phys_next |-> span[fit].phys_next, phys_prev |-> fit]
  <2>2. new \in SpanRecords
    BY <2>1 DEF SpanRecords
  <2>3. /\ new.base = SplitBase(fit, n) /\ new.page_count = rest /\ new.is_initialized = FALSE
        /\ new.next = bin /\ new.phys_next = span[fit].phys_next /\ new.phys_prev = fit
    OBVIOUS
  <2>4. \E x \in SpanRecords :
           /\ x = new
           /\ x.base = SplitBase(fit, n) /\ x.page_count = rest /\ x.is_initialized = FALSE
           /\ x.next = bin /\ x.phys_next = span[fit].phys_next /\ x.phys_prev = fit
    <3>. HIDE DEF new
    <3>. QED  BY <2>2, <2>3
  <2>. QED  BY <2>4
<1>3. PICK head \in SpanRecords :
        /\ head = [whole EXCEPT !.page_count = n, !.phys_next = split, !.is_initialized = TRUE]
        /\ head.base = whole.base /\ head.page_count = n /\ head.is_initialized = TRUE
        /\ head.phys_next = split /\ head.phys_prev = whole.phys_prev
  <2>. DEFINE head == [whole EXCEPT !.page_count = n, !.phys_next = split, !.is_initialized = TRUE]
  <2>1. split \in SpanOrNull
    BY DEF SpanOrNull
  <2>2. head \in SpanRecords
    BY <2>1 DEF SpanRecords
  <2>3. /\ head.base = whole.base /\ head.page_count = n /\ head.is_initialized = TRUE
        /\ head.phys_next = split /\ head.phys_prev = whole.phys_prev
    BY DEF SpanRecords
  <2>4. \E x \in SpanRecords :
           /\ x = head
           /\ x.base = whole.base /\ x.page_count = n /\ x.is_initialized = TRUE
           /\ x.phys_next = split /\ x.phys_prev = whole.phys_prev
    <3>. HIDE DEF head
    <3>. QED  BY <2>2, <2>3
  <2>. QED  BY <2>4
<1>4. ASSUME NEW old \in SpanRecords
      PROVE  /\ [old EXCEPT !.phys_prev = split] \in SpanRecords
             /\ [old EXCEPT !.phys_prev = split].base = old.base
             /\ [old EXCEPT !.phys_prev = split].page_count = old.page_count
             /\ [old EXCEPT !.phys_prev = split].is_initialized = old.is_initialized
             /\ [old EXCEPT !.phys_prev = split].next = old.next
             /\ [old EXCEPT !.phys_prev = split].phys_next = old.phys_next
             /\ [old EXCEPT !.phys_prev = split].phys_prev = split
  <2>1. split \in SpanOrNull
    BY DEF SpanOrNull
  <2>. QED  BY <2>1 DEF SpanRecords
<1>5. /\ span'[fit] = head /\ span'[split] = new
      /\ \A r \in SpanIds \ {fit, split} :
           span'[r] = IF r = span[fit].phys_next THEN [span[r] EXCEPT !.phys_prev = split]
                      ELSE span[r]
      /\ DOMAIN span' = SpanIds /\ span' = [r \in SpanIds |-> span'[r]]
  BY <1>1, <1>2, <1>3 DEF SplitSpans
<1>6. ASSUME NEW r \in SpanIds \ {fit, split}
      PROVE  /\ span'[r] \in SpanRecords
             /\ span'[r].base = span[r].base /\ span'[r].page_count = span[r].page_count
             /\ span'[r].is_initialized = span[r].is_initialized
             /\ span'[r].next = span[r].next /\ span'[r].phys_next = span[r].phys_next
             /\ span'[r].phys_prev = IF r = span[fit].phys_next THEN split
                                     ELSE span[r].phys_prev
  <2>1. PICK old \in SpanRecords : old = span[r]
    BY SpanTyped
  <2>2. CASE r = span[fit].phys_next
    <3>1. span'[r] = [old EXCEPT !.phys_prev = split]
      BY <1>5, <2>1, <2>2
    <3>. QED  BY <1>4, <2>1, <2>2, <3>1
  <2>3. CASE r # span[fit].phys_next
    BY <1>5, <2>1, <2>3
  <2>. QED  BY <2>2, <2>3
<1>7. span' \in [SpanIds -> SpanRecords]
  <2>1. span'[fit] \in SpanRecords /\ span'[split] \in SpanRecords
    BY <1>2, <1>3, <1>5
  <2>2. \A r \in SpanIds \ {fit, split} : span'[r] \in SpanRecords
    BY <1>6
  <2>3. \A r \in SpanIds : span'[r] \in SpanRecords
    <3>. HIDE DEF SpanRecords
    <3>. QED  BY <2>1, <2>2
  <2>. QED  BY <1>5, <2>3
<1>8. SplitFields(fit, split, n, rest, bin)
  BY <1>1, <1>2, <1>3, <1>5, <1>6 DEF SplitFields
<1>. QED  BY <1>7, <1>8

\* fit keeps its first n pages and split gets the others: what a step that
\* splits does to the objects, whatever it does to the bins.
Divides(fit, split, n, rest) ==
  /\ fit \in Objects /\ split \in SpanIds \ Objects /\ Objects' = Objects \cup {split}
  /\ n \in 1 .. SIZE_MAX /\ rest \in 1 .. SIZE_MAX
  /\ span[fit].page_count = n + rest /\ n + rest < MAX_BINNED_PAGES
  /\ span'[fit].base = span[fit].base /\ span'[fit].page_count = n
  /\ span'[fit].phys_next = split /\ span'[fit].phys_prev = span[fit].phys_prev
  /\ span'[split].base = span[fit].base + n /\ span'[split].page_count = rest
  /\ span'[split].phys_next = span[fit].phys_next /\ span'[split].phys_prev = fit
  /\ \A r \in Objects \ {fit} :
       /\ span'[r].base = span[r].base /\ span'[r].page_count = span[r].page_count
       /\ span'[r].phys_next = span[r].phys_next
       /\ span'[r].phys_prev = IF r = span[fit].phys_next THEN split ELSE span[r].phys_prev
  /\ page_map' = MapRange(page_map, split, span[fit].base + n, rest)
  /\ UNCHANGED <<data_arena, mapped>>

\* The pages of the two parts.
LEMMA DividedPages ==
  ASSUME TypeOK, RunInv, ChunkInv, NEW fit, NEW split, NEW n, NEW rest,
         Divides(fit, split, n, rest)
  PROVE  /\ fit \in Backed /\ split # fit /\ Backed' = Backed \cup {split}
         /\ \A r \in Objects \ {fit} : r # split /\ PagesOf(r)' = PagesOf(r)
         /\ PagesOf(split)' = RunOf(span[fit].base + n, rest)
         /\ PagesOf(fit)' \subseteq PagesOf(fit) /\ PagesOf(split)' \subseteq PagesOf(fit)
         /\ span[fit].base \in PagesOf(fit)' /\ span[fit].base + n \in PagesOf(split)'
         /\ \A p \in PagesOf(fit) : p \in PagesOf(fit)' <=> p \notin PagesOf(split)'
         /\ span[fit].base \in Nat \ {0}
<1>1. PICK b \in Int : b = span[fit].base
  BY SpanFields DEF Divides
<1>2. fit \in Backed /\ split # fit /\ fit \in Objects /\ b # -1
  BY <1>1 DEF Divides, ChunkInv, Backed, MAP_FAILED
<1>3. n \in Nat /\ n >= 1 /\ rest \in Nat /\ rest >= 1
  BY DEF Divides
<1>4. /\ PagesOf(fit) = b .. b + (n + rest) - 1 /\ PagesOf(fit)' = b .. b + n - 1
      /\ PagesOf(split)' = b + n .. b + n + rest - 1
      /\ PagesOf(split)' = RunOf(span[fit].base + n, rest)
  BY <1>1 DEF Divides, PagesOf, RunOf
<1>5. b \in Nat \ {0}
  <2>1. b \in PagesOf(fit)
    BY <1>3, <1>4
  <2>2. b \in Pages
    BY <1>2, <2>1 DEF RunInv
  <2>. QED  BY <2>2 DEF Pages
<1>6. \A r \in Objects \ {fit} : r # split /\ PagesOf(r)' = PagesOf(r)
  BY DEF Divides, PagesOf
<1>7. Backed' = Backed \cup {split}
  <2>1. span'[fit].base # -1 /\ span'[split].base # -1
    BY <1>1, <1>3, <1>5 DEF Divides
  <2>2. \A r \in Objects \ {fit} : span'[r].base = span[r].base
    BY DEF Divides
  <2>3. Objects' = Objects \cup {split}
    BY DEF Divides
  <2>4. \A r \in Objects' : span'[r].base # -1 <=> r = split \/ r \in Backed
    BY <1>2, <2>1, <2>2, <2>3 DEF Backed, MAP_FAILED
  <2>5. \A r : r \in Backed' <=> r \in Backed \/ r = split
    BY <2>3, <2>4 DEF Backed, MAP_FAILED
  <2>. QED  BY <2>5
<1>8. /\ PagesOf(fit)' \subseteq PagesOf(fit) /\ PagesOf(split)' \subseteq PagesOf(fit)
      /\ b \in PagesOf(fit)' /\ b + n \in PagesOf(split)'
      /\ \A p \in PagesOf(fit) : p \in PagesOf(fit)' <=> p \notin PagesOf(split)'
  BY <1>3, <1>4
<1>. QED  BY <1>1, <1>2, <1>4, <1>5, <1>6, <1>7, <1>8

\* After a split the objects still share out the mapped pages.
LEMMA DividedRuns ==
  ASSUME TypeOK, RunInv, ChunkInv, NEW fit, NEW split, NEW n, NEW rest,
         Divides(fit, split, n, rest)
  PROVE  RunInv' /\ ChunkInv'
<1>1. /\ fit \in Backed /\ split # fit /\ Backed' = Backed \cup {split}
      /\ \A r \in Objects \ {fit} : r # split /\ PagesOf(r)' = PagesOf(r)
      /\ PagesOf(split)' = RunOf(span[fit].base + n, rest)
      /\ PagesOf(fit)' \subseteq PagesOf(fit) /\ PagesOf(split)' \subseteq PagesOf(fit)
      /\ \A p \in PagesOf(fit) : p \in PagesOf(fit)' <=> p \notin PagesOf(split)'
      /\ span[fit].base \in PagesOf(fit)' /\ span[fit].base + n \in PagesOf(split)'
  BY DividedPages
<1>2. /\ \A p \in Pages : page_map'[p] = IF p \in PagesOf(split)' THEN split ELSE page_map[p]
      /\ mapped' = mapped /\ data_arena' = data_arena /\ Objects' = Objects \cup {split}
      /\ fit \in Objects
  BY <1>1 DEF Divides, MapRange
<1>3. \A p \in PagesOf(fit) : p \in Pages /\ p \in mapped /\ page_map[p] = fit
  BY <1>1, OwnPages
<1>4. \A r \in Objects \ {fit} : span'[r].page_count = span[r].page_count
  BY DEF Divides
<1>5. /\ span'[fit].page_count >= 1 /\ span'[split].page_count >= 1
      /\ span'[fit].page_count < MAX_BINNED_PAGES /\ span'[split].page_count < MAX_BINNED_PAGES
  BY DEF Divides
<1>6. RunInv'
  <2>1. \A r \in Objects' : span'[r].page_count >= 1
    <3>1. \A r \in Objects \ {fit} : span'[r].page_count >= 1
      BY <1>4 DEF RunInv
    <3>. QED  BY <1>2, <1>5, <3>1
  <2>2. ASSUME NEW r \in Backed', NEW p \in PagesOf(r)' PROVE p \in Pages /\ page_map'[p] = r
    <3>1. CASE r = split
      BY <1>1, <1>2, <1>3, <2>2, <3>1
    <3>2. CASE r = fit
      BY <1>1, <1>2, <1>3, <2>2, <3>2
    <3>3. CASE r # split /\ r # fit
      <4>1. r \in Backed /\ p \in PagesOf(r)
        BY <1>1, <2>2, <3>3, ObjectIds
      <4>2. p \in Pages /\ page_map[p] = r
        BY <4>1 DEF RunInv
      <4>3. p \notin PagesOf(fit)
        BY <1>3, <3>3, <4>2
      <4>. QED  BY <1>1, <1>2, <4>2, <4>3
    <3>. QED  BY <3>1, <3>2, <3>3
  <2>3. ASSUME NEW p \in Pages
        PROVE  (IF p \in mapped THEN page_map[p] \in Backed /\ p \in PagesOf(page_map[p])
                                ELSE page_map[p] = NULL)'
    <3>1. CASE p \in PagesOf(split)'
      <4>1. page_map'[p] = split /\ p \in mapped' /\ split \in Backed'
        BY <1>1, <1>2, <1>3, <3>1
      <4>. QED  BY <3>1, <4>1 DEF PagesOf
    <3>2. CASE p \notin PagesOf(split)' /\ p \in mapped
      <4>1. PICK r \in Backed : r = page_map[p] /\ r = page_map'[p] /\ p \in PagesOf(r) /\ p \in mapped'
        BY <1>2, <3>2 DEF RunInv
      <4>2. r \in Backed' /\ p \in PagesOf(r)'
        <5>1. CASE r = fit
          BY <1>1, <3>2, <4>1, <5>1
        <5>2. CASE r # fit
          BY <1>1, <4>1, <5>2, ObjectIds
        <5>. QED  BY <5>1, <5>2
      <4>. QED  BY <4>1, <4>2 DEF PagesOf
    <3>3. CASE p \notin PagesOf(split)' /\ p \notin mapped
      BY <1>2, <3>3 DEF RunInv
    <3>. QED  BY <3>1, <3>2, <3>3
  <2>. QED  BY <2>1, <2>2, <2>3 DEF RunInv
<1>7. ChunkInv'
  <2>1. \A c \in data_arena' : RunOf(c[1], c[2]) \subseteq mapped'
    BY <1>2 DEF ChunkInv
  <2>2. ASSUME NEW r \in Objects', span'[r].page_count < MAX_BINNED_PAGES
        PROVE  r \in Backed' /\ \E c \in data_arena' : InChunk(r, c)'
    <3>1. CASE r = split \/ r = fit
      <4>1. PICK c \in data_arena : InChunk(fit, c)
        BY <1>2 DEF ChunkInv, Divides
      <4>2. InChunk(r, c)'
        BY <1>1, <1>2, <3>1, <4>1 DEF InChunk
      <4>. QED  BY <1>1, <1>2, <3>1, <4>2
    <3>2. CASE r # split /\ r # fit
      <4>1. r \in Objects /\ span[r].page_count < MAX_BINNED_PAGES
        BY <1>2, <1>4, <2>2, <3>2
      <4>2. r \in Backed /\ \E c \in data_arena : InChunk(r, c)
        BY <4>1 DEF ChunkInv
      <4>. QED  BY <1>1, <1>2, <3>2, <4>1, <4>2 DEF InChunk
    <3>. QED  BY <3>1, <3>2
  <2>3. ASSUME NEW r \in Backed', NEW c \in data_arena'
        PROVE  \/ InChunk(r, c)' /\ span'[r].page_count < MAX_BINNED_PAGES
               \/ PagesOf(r)' \cap RunOf(c[1], c[2]) = {}
    <3>1. CASE r = split \/ r = fit
      <4>1. PagesOf(r)' \subseteq PagesOf(fit) /\ span'[r].page_count < MAX_BINNED_PAGES
        BY <1>1, <1>5, <3>1
      <4>2. InChunk(fit, c) \/ PagesOf(fit) \cap RunOf(c[1], c[2]) = {}
        BY <1>1, <1>2, <2>3 DEF ChunkInv
      <4>3. CASE InChunk(fit, c)
        BY <4>1, <4>3 DEF InChunk
      <4>4. CASE PagesOf(fit) \cap RunOf(c[1], c[2]) = {}
        BY <4>1, <4>4
      <4>. QED  BY <4>2, <4>3, <4>4
    <3>2. CASE r # split /\ r # fit
      <4>1. r \in Backed /\ r \in Objects \ {fit} /\ c \in data_arena
        BY <1>1, <1>2, <2>3, <3>2, ObjectIds
      <4>. QED  BY <1>1, <1>4, <4>1 DEF ChunkInv, InChunk
    <3>. QED  BY <3>1, <3>2
  <2>. QED  BY <2>1, <2>2, <2>3 DEF ChunkInv
<1>. QED  BY <1>6, <1>7

\* After a split the neighbour links are still exact: those of the two halves
\* and that of the span behind them.
LEMMA DividedLinks ==
  ASSUME TypeOK, RunInv, ChunkInv, PhysLinksExact, NEW fit, NEW split, NEW n, NEW rest,
         Divides(fit, split, n, rest)
  PROVE  PhysLinksExact'
<1>1. /\ fit \in Backed /\ split # fit
      /\ \A r \in Objects \ {fit} : r # split /\ PagesOf(r)' = PagesOf(r)
      /\ PagesOf(fit)' \subseteq PagesOf(fit) /\ PagesOf(split)' \subseteq PagesOf(fit)
      /\ span[fit].base \in PagesOf(fit)' /\ span[fit].base + n \in PagesOf(split)'
  BY DividedPages
<1>2. fit \in Objects /\ Objects' = Objects \cup {split} /\ data_arena' = data_arena
  BY DEF Divides
<1>3. PICK b \in Nat \ {0} : b = span[fit].base
  BY DividedPages
<1>4. n \in Nat /\ n >= 1 /\ rest \in Nat /\ rest >= 1 /\ span[fit].page_count = n + rest
  BY DEF Divides
<1>5. /\ span'[fit].base = b /\ span'[fit].page_count = n
      /\ span'[fit].phys_next = split /\ span'[fit].phys_prev = span[fit].phys_prev
      /\ span'[split].base = b + n /\ span'[split].page_count = rest
      /\ span'[split].phys_next = span[fit].phys_next /\ span'[split].phys_prev = fit
  BY <1>3 DEF Divides
<1>6. \A r \in Objects \ {fit} :
        /\ span'[r].base = span[r].base /\ span'[r].page_count = span[r].page_count
        /\ span'[r].phys_next = span[r].phys_next
        /\ span'[r].phys_prev = IF r = span[fit].phys_next THEN split ELSE span[r].phys_prev
  BY DEF Divides
<1>7. \A r \in Objects : r \in SpanIds /\ r # NULL
  BY ObjectIds
<1>8. split # NULL
  BY ObjectIds DEF Divides
<1>9. PICK home \in data_arena : InChunk(fit, home)
  BY <1>2, <1>4 DEF ChunkInv, Divides
\* The neighbour whose back link the split rewrites has fit before it.
<1>10. ASSUME NEW t \in Objects, t = span[fit].phys_next
       PROVE  t # fit /\ span[t].base = b + (n + rest) /\ span[t].phys_prev = fit
  <2>1. span[fit].phys_next # NULL
    BY <1>7, <1>10
  <2>2. /\ span[t].base = span[fit].base + span[fit].page_count
        /\ span[t].phys_prev = fit
    BY <1>2, <1>9, <1>10, <2>1, PhysNext
  <2>3. span[t].base = b + (n + rest)
    BY <1>3, <1>4, <2>2
  <2>4. b + (n + rest) # b
    BY <1>4
  <2>. QED  BY <1>3, <2>2, <2>3, <2>4
<1>11. ASSUME NEW c \in data_arena, NEW r \in Objects', PagesOf(r)' \subseteq RunOf(c[1], c[2])
       PROVE  /\ IF span'[r].base + span'[r].page_count = c[1] + c[2]
                   THEN span'[r].phys_next = NULL
                   ELSE /\ span'[r].phys_next \in Objects'
                        /\ span'[span'[r].phys_next].base = span'[r].base + span'[r].page_count
                        /\ span'[span'[r].phys_next].phys_prev = r
              /\ span'[r].base = c[1] <=> span'[r].phys_prev = NULL
  <2>1. CASE r = fit \/ r = split
    <3>1. InChunk(fit, c)
      <4>1. b \in PagesOf(fit) /\ b + n \in PagesOf(fit) /\ (b \in RunOf(c[1], c[2]) \/ b + n \in RunOf(c[1], c[2]))
        BY <1>1, <1>3, <1>11, <2>1
      <4>. QED  BY <1>1, <4>1, OneChunk
    <3>2. /\ c[1] \in Pages /\ c[2] \in Pages
          /\ span[fit].base >= c[1] /\ span[fit].base + span[fit].page_count <= c[1] + c[2]
          /\ span[fit].base = c[1] <=> span[fit].phys_prev = NULL
          /\ IF span[fit].base + span[fit].page_count = c[1] + c[2]
               THEN span[fit].phys_next = NULL
               ELSE /\ span[fit].phys_next \in Backed
                    /\ span[span[fit].phys_next].base = span[fit].base + span[fit].page_count
      BY <1>2, <3>1, PhysNext
    <3>3. PICK x \in Nat, y \in Nat : x = c[1] /\ y = c[2]
      BY <3>2 DEF Pages
    <3>4. b >= x /\ b + (n + rest) <= x + y
      BY <1>3, <1>4, <3>2, <3>3
    <3>5. CASE r = fit
      <4>1. b + n # x + y
        BY <1>4, <3>4
      <4>2. span'[split].base = b + n /\ span'[split].phys_prev = fit /\ split \in Objects'
        BY <1>2, <1>5
      <4>. QED  BY <1>3, <1>5, <3>2, <3>3, <3>5, <4>1, <4>2
    <3>6. CASE r = split
      <4>1. b + n # x /\ (b + n) + rest = b + (n + rest)
        BY <1>4, <3>4
      <4>2. span'[r].phys_prev # NULL /\ span'[r].base # c[1]
        BY <1>2, <1>5, <1>7, <3>3, <3>6, <4>1
      <4>3. CASE b + (n + rest) = x + y
        <5>1. span[fit].phys_next = NULL
          BY <1>3, <1>4, <3>2, <3>3, <4>3
        <5>2. span'[r].base + span'[r].page_count = c[1] + c[2] /\ span'[r].phys_next = NULL
          BY <1>5, <3>3, <3>6, <4>1, <4>3, <5>1
        <5>. QED  BY <4>2, <5>2
      <4>4. CASE b + (n + rest) # x + y
        <5>1. PICK t \in Objects : t = span[fit].phys_next
          BY <1>3, <1>4, <3>2, <3>3, <4>4, ObjectIds
        <5>2. t # fit /\ span[t].base = b + (n + rest)
          BY <1>10, <5>1
        <5>3. t \in Objects' /\ span'[t].base = b + (n + rest) /\ span'[t].phys_prev = split
          BY <1>2, <1>6, <5>1, <5>2
        <5>4. /\ span'[r].base + span'[r].page_count = b + (n + rest)
              /\ span'[r].base + span'[r].page_count # c[1] + c[2]
          BY <1>5, <3>3, <3>6, <4>1, <4>4
        <5>. QED  BY <1>5, <3>6, <4>2, <5>1, <5>3, <5>4
      <4>. QED  BY <4>3, <4>4
    <3>. QED  BY <2>1, <3>5, <3>6
  <2>2. CASE r # fit /\ r # split
    <3>1. r \in Objects \ {fit} /\ InChunk(r, c)
      BY <1>1, <1>2, <1>11, <2>2 DEF InChunk
    <3>2. /\ span[r].base = c[1] <=> span[r].phys_prev = NULL
          /\ IF span[r].base + span[r].page_count = c[1] + c[2]
               THEN span[r].phys_next = NULL
               ELSE /\ span[r].phys_next \in Backed
                    /\ span[span[r].phys_next].base = span[r].base + span[r].page_count
                    /\ span[span[r].phys_next].phys_prev = r
      BY <3>1, PhysNext
    <3>3. span'[r].base = c[1] <=> span'[r].phys_prev = NULL
      <4>1. CASE r = span[fit].phys_next
        <5>1. span[r].phys_prev # NULL
          BY <1>2, <1>7, <1>10, <3>1, <4>1
        <5>2. span'[r].base = span[r].base /\ span'[r].phys_prev = split
          BY <1>6, <3>1, <4>1
        <5>. QED  BY <1>8, <3>2, <5>1, <5>2
      <4>2. CASE r # span[fit].phys_next
        BY <1>6, <3>1, <3>2, <4>2
      <4>. QED  BY <4>1, <4>2
    <3>4. CASE span[r].base + span[r].page_count = c[1] + c[2]
      BY <1>6, <3>1, <3>2, <3>3, <3>4
    <3>5. CASE span[r].base + span[r].page_count # c[1] + c[2]
      <4>1. PICK u \in Objects :
              /\ u = span[r].phys_next /\ span[u].base = span[r].base + span[r].page_count
              /\ span[u].phys_prev = r
        BY <3>2, <3>5, ObjectIds
      <4>2. u # span[fit].phys_next
        BY <1>10, <2>2, <4>1
      <4>3. span'[u].base = span[u].base /\ span'[u].phys_prev = r
        <5>1. CASE u = fit
          BY <1>3, <1>5, <4>1, <5>1
        <5>2. CASE u # fit
          BY <1>6, <4>1, <4>2, <5>2
        <5>. QED  BY <5>1, <5>2
      <4>4. /\ span'[r].phys_next = u /\ u \in Objects'
            /\ span'[r].base + span'[r].page_count = span[r].base + span[r].page_count
        BY <1>2, <1>6, <3>1, <4>1
      <4>. QED  BY <3>3, <3>5, <4>1, <4>3, <4>4
    <3>. QED  BY <3>4, <3>5
  <2>. QED  BY <2>1, <2>2
<1>. QED  BY <1>2, <1>11 DEF PhysLinksExact

\* The shortest span that is long enough is cut: its remainder goes in front
\* of the bin of its new length (span.c:109-129).
LEMMA AllocSplitInv ==
  ASSUME NoWrap, TypeOK, PoolInv, NEW size \in Requests, AllocSplit(size)
  PROVE  TypeOK' /\ PoolInv' /\ Granted
<1>. USE DEF PoolInv
<1>1. PICK n \in 1 .. SIZE_MAX : n = RoundUpPage(size) /\ size <= n * PAGE_SIZE
  BY RoundUpFits
<1>2. n \in BinIndex /\ FindBestFitting(n) > n /\ FindBestFitting(n) # NO_FITTING
  <2>1. n < MAX_BINNED_PAGES /\ FindBestFitting(n) > n
    BY <1>1 DEF AllocSplit
  <2>2. n \in BinIndex
    BY <2>1 DEF BinIndex
  <2>. QED  BY <2>1, <2>2 DEF NO_FITTING
<1>3. PICK best \in BinIndex, fit \in Idle :
        /\ best = FindBestFitting(n) /\ best >= n
        /\ fit = uninitilized_span_bin[best] /\ fit \in SpanIds /\ fit \in Objects
        /\ span[fit].page_count = best
        /\ Chain(span[fit].next, span, IdleOf(best) \ {fit}) /\ fit \in IdleOf(best)
  BY <1>2, FoundHead
<1>4. PICK rest \in 1 .. SIZE_MAX :
        /\ rest = best - n /\ best = n + rest /\ rest \in BinIndex /\ rest # best
        /\ n + rest < MAX_BINNED_PAGES
  <2>1. best \in Nat /\ best < MAX_BINNED_PAGES /\ best > n /\ n >= 1 /\ n \in Nat
    BY <1>1, <1>2, <1>3 DEF BinIndex
  <2>2. best <= SIZE_MAX
    BY <1>3, SpanFields
  <2>3. PICK k \in Int : k = best - n
    BY <2>1
  <2>4. k \in 1 .. SIZE_MAX /\ best = n + k /\ k \in BinIndex /\ k # best
    BY <2>1, <2>2, <2>3 DEF BinIndex
  <2>. QED  BY <2>1, <2>3, <2>4
<1>5. PICK split \in SpanIds \ Objects :
        /\ split = MetadataObject(1) /\ split \notin DOMAIN used
        /\ Objects' = Objects \cup {split}
        /\ meta_next' \in 1 .. MaxSpans + 1 /\ meta_free' \in Seq(SpanIds)
        /\ \A i \in DOMAIN meta_free' : meta_free'[i] < meta_next'
        /\ \A i, j \in DOMAIN meta_free' : meta_free'[i] = meta_free'[j] => i = j
  <2>1. AllocMetadata(1)
    BY DEF AllocSplit
  <2>. QED  BY <2>1, DirectObject
<1>6. /\ span' = SplitSpans(fit, split, n, rest, PopBin(best).bins[rest])
      /\ uninitilized_span_bin' = [PopBin(best).bins EXCEPT ![rest] = split]
      /\ non_empty_bitmap' = MarkNonEmpty(PopBin(best).bitmap, rest)
      /\ page_map' = MapRange(page_map, split, SplitBase(fit, n), rest)
      /\ Hand(fit, size)
      /\ UNCHANGED <<data_arena, mapped, aborted>>
  BY <1>1, <1>3, <1>4, <1>5 DEF AllocSplit
<1>7. /\ PopBin(best).bins = [uninitilized_span_bin EXCEPT ![best] = span[fit].next]
      /\ PopBin(best).bins \in [BinIndex -> SpanOrNull]
      /\ PopBin(best).bitmap \in [Words -> SUBSET Bits]
      /\ BitmapExact(PopBin(best).bitmap, PopBin(best).bins)
  BY <1>3, BinPopped DEF IdleInv
<1>8. PICK head \in SpanOrNull :
        head = PopBin(best).bins[rest] /\ head = uninitilized_span_bin[rest]
  BY <1>4, <1>7 DEF TypeOK
<1>9. /\ uninitilized_span_bin' \in [BinIndex -> SpanOrNull]
      /\ non_empty_bitmap' \in [Words -> SUBSET Bits]
      /\ BitmapInv'
      /\ uninitilized_span_bin'[rest] = split
      /\ uninitilized_span_bin'[best] = span[fit].next
      /\ \A m \in BinIndex \ {rest, best} : uninitilized_span_bin'[m] = uninitilized_span_bin[m]
  <2>1. split \in SpanIds
    BY <1>5
  <2>2. PICK bitmap \in [Words -> SUBSET Bits], bins \in [BinIndex -> SpanOrNull] :
          /\ bitmap = PopBin(best).bitmap /\ bins = PopBin(best).bins
          /\ BitmapExact(bitmap, bins)
    BY <1>7
  <2>3. /\ MarkNonEmpty(bitmap, rest) \in [Words -> SUBSET Bits]
        /\ BitmapExact(MarkNonEmpty(bitmap, rest), [bins EXCEPT ![rest] = split])
    BY <1>4, <2>1, <2>2, BinFilled
  <2>4. BitmapExact(non_empty_bitmap', uninitilized_span_bin')
    BY <1>6, <2>2, <2>3
  <2>5. uninitilized_span_bin' \in [BinIndex -> SpanOrNull]
    BY <1>6, <2>1, <2>2 DEF SpanOrNull
  <2>6. \A m \in BinIndex : bins[m] = IF m = best THEN span[fit].next ELSE uninitilized_span_bin[m]
    BY <1>7, <2>2 DEF TypeOK
  <2>7. \A m \in BinIndex : uninitilized_span_bin'[m] = IF m = rest THEN split ELSE bins[m]
    BY <1>6, <2>2
  <2>. QED  BY <1>3, <1>4, <1>6, <2>2, <2>3, <2>4, <2>5, <2>6, <2>7 DEF BitmapInv, BitmapExact
\* Where the span lies, and what is behind it.
<1>10. PICK home \in data_arena : InChunk(fit, home)
  BY <1>3, <1>4 DEF ChunkInv
<1>11. /\ span[fit].base \in Pages /\ span[fit].base + n \in Pages
       /\ span[fit].phys_next # fit /\ span[fit].phys_next # split
  <2>1. fit \in Backed /\ span[fit].base \in PagesOf(fit)
    BY <1>3, <1>10, PhysNext, SpanFields
  <2>2. PICK b \in Nat \ {0} : b = span[fit].base /\ b \in Pages
    BY <2>1, OwnPages DEF Pages
  <2>3. b + n \in PagesOf(fit)
    <3>1. PagesOf(fit) = b .. b + (n + rest) - 1
      BY <1>3, <1>4, <2>2 DEF PagesOf, RunOf
    <3>. QED  BY SMTT(40), <2>2, <3>1
  <2>4. b + n \in Pages
    BY <2>1, <2>3, OwnPages
  <2>5. span[fit].phys_next = NULL \/ (/\ span[fit].phys_next \in Objects
                                       /\ span[span[fit].phys_next].base = b + best)
    BY <1>3, <1>10, <2>2, PhysNext, ObjectIds
  <2>6. span[fit].phys_next # fit
    <3>1. b + best # b
      BY <1>4, <2>2
    <3>. QED  BY <1>3, <2>2, <2>5, <3>1, ObjectIds
  <2>7. span[fit].phys_next # split
    BY <1>5, <2>5, ObjectIds
  <2>. QED  BY <2>2, <2>4, <2>6, <2>7
<1>12. /\ span' \in [SpanIds -> SpanRecords]
       /\ span'[fit].base = span[fit].base /\ span'[fit].page_count = n
       /\ span'[fit].is_initialized = TRUE
       /\ span'[fit].phys_next = split /\ span'[fit].phys_prev = span[fit].phys_prev
       /\ span'[split].base = SplitBase(fit, n) /\ span'[split].page_count = rest
       /\ span'[split].is_initialized = FALSE /\ span'[split].next = head
       /\ span'[split].phys_next = span[fit].phys_next /\ span'[split].phys_prev = fit
       /\ \A r \in SpanIds \ {fit, split} :
            /\ span'[r].base = span[r].base /\ span'[r].page_count = span[r].page_count
            /\ span'[r].is_initialized = span[r].is_initialized
            /\ span'[r].next = span[r].next /\ span'[r].phys_next = span[r].phys_next
            /\ span'[r].phys_prev = IF r = span[fit].phys_next THEN split
                                    ELSE span[r].phys_prev
  <2>1. /\ fit \in SpanIds /\ split \in SpanIds /\ split # fit
        /\ span' = SplitSpans(fit, split, n, rest, head)
    BY <1>3, <1>5, <1>6, <1>8
  <2>2. n \in Counts /\ rest \in Counts /\ SplitBase(fit, n) \in Bases
    BY <1>11 DEF Counts, Bases, SplitBase
  <2>3. span[fit].phys_next # fit /\ span[fit].phys_next # split
    BY <1>11
  <2>4. span' \in [SpanIds -> SpanRecords] /\ SplitFields(fit, split, n, rest, head)
    BY <2>1, <2>2, <2>3, SplitRecords
  <2>. QED  BY <2>4 DEF SplitFields
<1>13. Divides(fit, split, n, rest)
  <2>1. \A r \in Objects \ {fit} : r \in SpanIds \ {fit, split}
    BY <1>5, ObjectIds
  <2>2. SplitBase(fit, n) = span[fit].base + n
    BY DEF SplitBase
  <2>3. /\ fit \in Objects /\ split \in SpanIds \ Objects /\ Objects' = Objects \cup {split}
        /\ n \in 1 .. SIZE_MAX /\ rest \in 1 .. SIZE_MAX
        /\ span[fit].page_count = n + rest /\ n + rest < MAX_BINNED_PAGES
    BY <1>3, <1>4, <1>5
  <2>4. /\ span'[split].base = span[fit].base + n
        /\ page_map' = MapRange(page_map, split, span[fit].base + n, rest)
    BY <1>6, <1>12, <2>2
  <2>5. \A r \in Objects \ {fit} :
          /\ span'[r].base = span[r].base /\ span'[r].page_count = span[r].page_count
          /\ span'[r].phys_next = span[r].phys_next
          /\ span'[r].phys_prev = IF r = span[fit].phys_next THEN split ELSE span[r].phys_prev
    BY <1>12, <2>1
  <2>6. /\ span'[fit].base = span[fit].base /\ span'[fit].page_count = n
        /\ span'[fit].phys_next = split /\ span'[fit].phys_prev = span[fit].phys_prev
        /\ span'[split].page_count = rest
        /\ span'[split].phys_next = span[fit].phys_next /\ span'[split].phys_prev = fit
    BY <1>12
  <2>7. UNCHANGED <<data_arena, mapped>>
    BY <1>6
  <2>. QED  BY <2>3, <2>4, <2>5, <2>6, <2>7 DEF Divides
<1>14. RunInv' /\ ChunkInv' /\ PhysLinksExact'
  BY <1>13, DividedRuns, DividedLinks
<1>15. /\ DOMAIN used' = DOMAIN used \cup {fit} /\ DOMAIN used' \subseteq SpanIds
       /\ \A r \in DOMAIN used : used'[r] = used[r]
       /\ \A r \in DOMAIN used' : used'[r] \in Requests
       /\ FitsRequest'
  <2>1. \A r \in DOMAIN used : r \in SpanIds \ {fit, split}
    BY <1>3, <1>5 DEF Idle, TypeOK
  <2>2. \A r \in DOMAIN used : span'[r].page_count = span[r].page_count
    BY <1>12, <2>1
  <2>3. size <= span'[fit].page_count * PAGE_SIZE /\ fit \notin DOMAIN used
    BY <1>1, <1>3, <1>12 DEF Idle
  <2>. QED  BY <1>3, <1>6, <2>2, <2>3, Handed
<1>16. TypeOK'
  <2>1. page_map' \in [Pages -> SpanOrNull]
    BY <1>5, <1>6 DEF MapRange, TypeOK, SpanOrNull
  <2>. QED  BY <1>5, <1>6, <1>9, <1>12, <1>15, <2>1 DEF TypeOK, SpanRecords, Bases, Counts
<1>17. MetaInv'
  BY <1>3, <1>5, <1>15 DEF MetaInv
<1>18. IdleInv'
  <2>1. /\ Idle' = (Idle \ {fit}) \cup {split}
        /\ \A r \in Idle : r \in SpanIds /\ r \in Objects /\ r # split
    BY <1>3, <1>5, <1>15, ObjectIds DEF Idle
  <2>2. /\ \A r \in Idle \ {fit} : /\ span'[r].page_count = span[r].page_count
                                   /\ span'[r].next = span[r].next
        /\ span'[split].page_count = rest /\ span[fit].page_count = best
    BY <1>3, <1>12, <2>1
  <2>3. /\ IdleOf(rest)' = IdleOf(rest) \cup {split}
        /\ IdleOf(best)' = IdleOf(best) \ {fit}
        /\ \A m \in BinIndex \ {rest, best} : IdleOf(m)' = IdleOf(m)
    <3>1. \A m, r : r \in IdleOf(m)' <=> (r \in Idle \ {fit} \/ r = split) /\ span'[r].page_count = m
      BY <2>1 DEF IdleOf
    <3>2. \A m, r : r \in IdleOf(m) <=> r \in Idle /\ span[r].page_count = m
      BY DEF IdleOf
    <3>3. \A m, r : r \in IdleOf(m)' <=> \/ r \in IdleOf(m) /\ r # fit
                                         \/ r = split /\ m = rest
      BY <2>1, <2>2, <3>1, <3>2
    <3>4. \A m : fit \in IdleOf(m) <=> m = best
      BY <1>3, <2>2, <3>2
    <3>5. rest # best
      BY <1>4
    <3>6. \A r : r \in IdleOf(rest)' <=> r \in IdleOf(rest) \/ r = split
      BY <3>3, <3>4, <3>5
    <3>7. \A r : r \in IdleOf(best)' <=> r \in IdleOf(best) /\ r # fit
      BY <3>3, <3>5
    <3>8. ASSUME NEW m \in BinIndex \ {rest, best} PROVE \A r : r \in IdleOf(m)' <=> r \in IdleOf(m)
      BY <3>3, <3>4
    <3>9. ASSUME NEW m \in BinIndex \ {rest, best} PROVE IdleOf(m)' = IdleOf(m)
      BY <3>8
    <3>. QED  BY <3>6, <3>7, <3>9
  <2>4. ASSUME NEW m \in BinIndex PROVE Chain(uninitilized_span_bin'[m], span', IdleOf(m)')
    <3>0. Chain(uninitilized_span_bin[m], span, IdleOf(m))
      BY DEF IdleInv
    <3>1. CASE m = rest
      <4>1. Chain(head, span, IdleOf(rest))
        BY <1>8, <3>0, <3>1
      <4>2. split \notin IdleOf(rest) /\ \A r \in IdleOf(rest) : span'[r].next = span[r].next
        BY <1>4, <2>1, <2>2 DEF IdleOf
      <4>3. span'[split].next = head /\ split \in SpanIds
        BY <1>5, <1>12
      <4>4. Chain(split, span', IdleOf(rest) \cup {split})
        BY <4>1, <4>2, <4>3, ChainPush
      <4>. QED  BY <1>9, <2>3, <3>1, <4>4
    <3>2. CASE m = best
      <4>1. \A r \in IdleOf(best) \ {fit} : span'[r].next = span[r].next
        BY <2>2 DEF IdleOf
      <4>2. Chain(span[fit].next, span', IdleOf(best) \ {fit})
        BY <1>3, <4>1, ChainKept
      <4>. QED  BY <1>9, <2>3, <3>2, <4>2
    <3>3. CASE m # rest /\ m # best
      <4>1. \A r \in IdleOf(m) : span'[r].next = span[r].next
        BY <2>2, <3>3 DEF IdleOf
      <4>2. Chain(uninitilized_span_bin[m], span', IdleOf(m))
        BY <3>0, <4>1, ChainKept
      <4>. QED  BY <1>9, <2>3, <3>3, <4>2
    <3>. QED  BY <3>1, <3>2, <3>3
  <2>5. \A r \in Objects' : span'[r].is_initialized <=> r \in DOMAIN used'
    <3>1. \A r \in Objects \ {fit} : r \in SpanIds \ {fit, split}
      BY <1>5, ObjectIds
    <3>2. ASSUME NEW r \in Objects \ {fit} PROVE span'[r].is_initialized <=> r \in DOMAIN used'
      <4>1. span[r].is_initialized <=> r \in DOMAIN used
        BY DEF IdleInv
      <4>2. span'[r].is_initialized = span[r].is_initialized
        BY <1>12, <3>1
      <4>. QED  BY <1>15, <4>1, <4>2
    <3>3. span'[fit].is_initialized /\ fit \in DOMAIN used'
      BY <1>12, <1>15
    <3>4. ~span'[split].is_initialized /\ split \notin DOMAIN used'
      BY <1>3, <1>5, <1>12, <1>15
    <3>. QED  BY <1>5, <3>2, <3>3, <3>4
  <2>6. \A r \in Idle' : span'[r].page_count < MAX_BINNED_PAGES
    BY <1>4, <2>1, <2>2 DEF IdleInv, BinIndex
  <2>. QED  BY <1>9, <2>4, <2>5, <2>6 DEF IdleInv
<1>19. Granted
  <2>1. \A r \in DOMAIN used : r \in SpanIds \ {fit, split}
    BY <1>3, <1>5 DEF TypeOK, Idle
  <2>2. fit \notin DOMAIN used /\ span'[fit].page_count = n
    BY <1>3, <1>12 DEF Idle
  <2>3. TakesBest(fit, n)
    BY <1>2, <1>3, ShortestFound DEF TakesBest
  <2>4. Grants(fit)
    BY <1>3, <1>12, <1>15, <2>1, <2>2, <2>3 DEF Grants
  <2>. QED  BY <1>3, <2>4 DEF Granted
<1>. QED  BY <1>14, <1>15, <1>16, <1>17, <1>18, <1>19

-----------------------------------------------------------------------------
(* A new chunk                                                             *)

\* The chunk of the given pages at b is shared out among the objects New:
\* what a step that maps one does to the objects, whatever it does to the bins.
Opens(New, b, pages) ==
  /\ New \cap Objects = {} /\ Objects' = Objects \cup New
  /\ b \in Nat \ {0} /\ pages \in Nat \ {0}
  /\ RunOf(b, pages) \subseteq Pages /\ RunOf(b, pages) \cap mapped = {}
  /\ mapped' = mapped \cup RunOf(b, pages)
  /\ data_arena' = data_arena \cup {<<b, pages>>}
  /\ \A r \in Objects : span'[r] = span[r]
  /\ \A r \in New : /\ span'[r].base \in PagesOf(r)'
                    /\ PagesOf(r)' \subseteq RunOf(b, pages)
                    /\ span'[r].page_count >= 1
                    /\ span'[r].page_count < MAX_BINNED_PAGES
  /\ \A r \in New : \A p \in PagesOf(r)' : page_map'[p] = r
  /\ \A p \in RunOf(b, pages) : \E r \in New : p \in PagesOf(r)'
  /\ \A p \in Pages \ RunOf(b, pages) : page_map'[p] = page_map[p]
  /\ \A r \in New :
       /\ IF span'[r].base + span'[r].page_count = b + pages
            THEN span'[r].phys_next = NULL
            ELSE /\ span'[r].phys_next \in Objects'
                 /\ span'[span'[r].phys_next].base = span'[r].base + span'[r].page_count
                 /\ span'[span'[r].phys_next].phys_prev = r
       /\ span'[r].base = b <=> span'[r].phys_prev = NULL

\* A new chunk, once its objects share it out, disturbs no other.
LEMMA NewChunk ==
  ASSUME TypeOK, RunInv, ChunkInv, PhysLinksExact, NEW New, NEW b, NEW pages,
         Opens(New, b, pages)
  PROVE  RunInv' /\ ChunkInv' /\ PhysLinksExact'
<1>. USE DEF Opens
<1>. DEFINE chunk == RunOf(b, pages)
<1>1. \A p \in chunk : p \in Pages /\ p \notin mapped /\ p # -1
  BY DEF Pages
<1>. HIDE DEF chunk
<1>2. /\ \A r \in New : span'[r].base \in PagesOf(r)' /\ PagesOf(r)' \subseteq chunk
      /\ \A p \in chunk : \E r \in New : p \in PagesOf(r)'
      /\ \A p \in Pages \ chunk : page_map'[p] = page_map[p]
      /\ mapped' = mapped \cup chunk
      /\ <<b, pages>>[1] = b /\ <<b, pages>>[2] = pages /\ chunk = RunOf(b, pages)
  BY DEF chunk
<1>3. \A r \in Objects : r \notin New /\ span'[r] = span[r] /\ PagesOf(r)' = PagesOf(r)
  BY DEF PagesOf
<1>4. \A r \in New : r \in Backed' /\ r \notin Objects
  BY <1>1, <1>2 DEF Backed, MAP_FAILED
<1>5. Backed' = Backed \cup New
  <2>1. \A r : r \in Backed' <=> r \in Objects' /\ span'[r].base # MAP_FAILED
    BY DEF Backed
  <2>2. \A r : r \in Backed <=> r \in Objects /\ span[r].base # MAP_FAILED
    BY DEF Backed
  <2>3. \A r : r \in Backed' <=> r \in Backed \/ r \in New
    BY <1>3, <1>4, <2>1, <2>2
  <2>. QED  BY <2>3
<1>6. \A r \in Backed : r \in Objects /\ \A p \in PagesOf(r) : p \in mapped /\ p \notin chunk
  BY <1>1, OwnPages, ObjectIds
<1>7. RunInv'
  <2>1. \A r \in Objects' : span'[r].page_count >= 1
    BY <1>3 DEF RunInv
  <2>2. ASSUME NEW r \in Backed', NEW p \in PagesOf(r)' PROVE p \in Pages /\ page_map'[p] = r
    <3>1. CASE r \in New
      BY <1>1, <1>2, <2>2, <3>1
    <3>2. CASE r \in Backed
      <4>1. p \in PagesOf(r)
        BY <1>3, <1>6, <2>2, <3>2
      <4>2. p \in Pages /\ page_map[p] = r /\ p \notin chunk
        BY <1>6, <3>2, <4>1 DEF RunInv
      <4>. QED  BY <1>2, <4>2
    <3>. QED  BY <1>5, <2>2, <3>1, <3>2
  <2>3. ASSUME NEW p \in Pages
        PROVE  (IF p \in mapped THEN page_map[p] \in Backed /\ p \in PagesOf(page_map[p])
                                ELSE page_map[p] = NULL)'
    <3>1. CASE p \in chunk
      <4>1. PICK r \in New : p \in PagesOf(r)'
        BY <1>2, <3>1
      <4>2. page_map'[p] = r /\ r \in Backed' /\ p \in mapped'
        BY <1>2, <1>4, <3>1, <4>1
      <4>. QED  BY <4>1, <4>2 DEF PagesOf
    <3>2. CASE p \notin chunk /\ p \in mapped
      <4>1. PICK r \in Backed : r = page_map[p] /\ p \in PagesOf(r)
        BY <3>2 DEF RunInv
      <4>2. r = page_map'[p] /\ p \in mapped' /\ r \in Backed' /\ p \in PagesOf(r)'
        BY <1>2, <1>3, <1>5, <1>6, <3>2, <4>1
      <4>. QED  BY <4>2 DEF PagesOf
    <3>3. CASE p \notin chunk /\ p \notin mapped
      <4>1. page_map[p] = NULL
        BY <3>3 DEF RunInv
      <4>. QED  BY <1>2, <3>3, <4>1
    <3>. QED  BY <3>1, <3>2, <3>3
  <2>. QED  BY <2>1, <2>2, <2>3 DEF RunInv
<1>8. \A d \in data_arena : RunOf(d[1], d[2]) \subseteq mapped /\ RunOf(d[1], d[2]) \cap chunk = {}
  BY <1>1 DEF ChunkInv
<1>9. \A d \in data_arena' : d \in data_arena \/ (d[1] = b /\ d[2] = pages)
  BY <1>2
<1>10. ChunkInv'
  <2>1. \A d \in data_arena' : RunOf(d[1], d[2]) \subseteq mapped'
    BY <1>2, <1>8, <1>9
  <2>2. ASSUME NEW r \in Objects', span'[r].page_count < MAX_BINNED_PAGES
        PROVE  r \in Backed' /\ \E d \in data_arena' : InChunk(r, d)'
    <3>1. CASE r \in New
      <4>1. InChunk(r, <<b, pages>>)'
        BY <1>2, <3>1 DEF InChunk
      <4>. QED  BY <1>4, <3>1, <4>1
    <3>2. CASE r \in Objects
      <4>1. r \in Backed /\ \E d \in data_arena : InChunk(r, d)
        BY <1>3, <2>2, <3>2 DEF ChunkInv
      <4>. QED  BY <1>3, <1>5, <3>2, <4>1 DEF InChunk
    <3>. QED  BY <2>2, <3>1, <3>2
  <2>3. ASSUME NEW r \in Backed', NEW d \in data_arena'
        PROVE  \/ InChunk(r, d)' /\ span'[r].page_count < MAX_BINNED_PAGES
               \/ PagesOf(r)' \cap RunOf(d[1], d[2]) = {}
    <3>1. CASE r \in New /\ d \in data_arena
      BY <1>2, <1>8, <3>1
    <3>2. CASE r \in New /\ d[1] = b /\ d[2] = pages
      BY <1>2, <3>2 DEF InChunk
    <3>3. CASE r \in Backed /\ d \in data_arena
      BY <1>3, <1>6, <3>3 DEF ChunkInv, InChunk
    <3>4. CASE r \in Backed /\ d[1] = b /\ d[2] = pages
      BY <1>2, <1>3, <1>6, <3>4
    <3>. QED  BY <1>5, <1>9, <2>3, <3>1, <3>2, <3>3, <3>4
  <2>. QED  BY <2>1, <2>2, <2>3 DEF ChunkInv
<1>11. PhysLinksExact'
  <2>1. ASSUME NEW d \in data_arena', NEW r \in Objects', PagesOf(r)' \subseteq RunOf(d[1], d[2])
        PROVE  /\ IF span'[r].base + span'[r].page_count = d[1] + d[2]
                    THEN span'[r].phys_next = NULL
                    ELSE /\ span'[r].phys_next \in Objects'
                         /\ span'[span'[r].phys_next].base = span'[r].base + span'[r].page_count
                         /\ span'[span'[r].phys_next].phys_prev = r
               /\ span'[r].base = d[1] <=> span'[r].phys_prev = NULL
    <3>1. CASE r \in New /\ d \in data_arena
      BY <1>2, <1>8, <2>1, <3>1
    <3>2. CASE r \in New /\ d[1] = b /\ d[2] = pages
      BY <3>2
    <3>3. CASE r \in Objects /\ d \in data_arena
      <4>1. InChunk(r, d)
        BY <1>3, <2>1, <3>3 DEF InChunk
      <4>2. /\ span[r].base = d[1] <=> span[r].phys_prev = NULL
            /\ IF span[r].base + span[r].page_count = d[1] + d[2]
                 THEN span[r].phys_next = NULL
                 ELSE /\ span[r].phys_next \in Backed
                      /\ span[span[r].phys_next].base = span[r].base + span[r].page_count
                      /\ span[span[r].phys_next].phys_prev = r
        BY <3>3, <4>1, PhysNext
      <4>3. CASE span[r].base + span[r].page_count = d[1] + d[2]
        BY <1>3, <3>3, <4>2, <4>3
      <4>4. CASE span[r].base + span[r].page_count # d[1] + d[2]
        <5>1. PICK u \in Objects :
                /\ u = span[r].phys_next /\ span[u].base = span[r].base + span[r].page_count
                /\ span[u].phys_prev = r
          BY <4>2, <4>4, ObjectIds
        <5>2. span'[r] = span[r] /\ span'[u] = span[u] /\ u \in Objects'
          BY <1>3, <3>3, <5>1
        <5>. QED  BY <4>2, <4>4, <5>1, <5>2
      <4>. QED  BY <4>3, <4>4
    <3>4. CASE r \in Objects /\ d[1] = b /\ d[2] = pages
      <4>1. span[r].base \in PagesOf(r) /\ (span[r].base = -1 <=> r \notin Backed)
        BY <3>4, SpanFields DEF MAP_FAILED
      <4>2. span[r].base \in chunk
        BY <1>2, <1>3, <2>1, <3>4, <4>1
      <4>. QED  BY <1>1, <1>6, <3>4, <4>1, <4>2
    <3>. QED  BY <1>9, <2>1, <3>1, <3>2, <3>3, <3>4
  <2>. QED  BY <2>1 DEF PhysLinksExact
<1>. QED  BY <1>7, <1>10, <1>11

\* A chunk is the request, or the request and a remainder that a bin takes
\* (span.c:132-135, 161-162).
LEMMA ChunkCut ==
  ASSUME NEW n \in 1 .. SIZE_MAX
  PROVE  \E rest \in 0 .. SIZE_MAX :
           /\ ChunkPages(n) = n + rest /\ ChunkPages(n) - n = rest
           /\ rest > 0 => rest \in BinIndex
<1>1. CASE n > DATA_CHUNK_PAGE_COUNT
  BY <1>1 DEF ChunkPages
<1>2. CASE n <= DATA_CHUNK_PAGE_COUNT
  <2>1. PICK rest \in 0 .. SIZE_MAX : rest = DATA_CHUNK_PAGE_COUNT - n /\ DATA_CHUNK_PAGE_COUNT = n + rest
    BY <1>2
  <2>2. ChunkPages(n) = DATA_CHUNK_PAGE_COUNT
    BY <1>2 DEF ChunkPages
  <2>3. rest \in BinIndex
    BY <2>1 DEF BinIndex
  <2>. QED  BY <2>1, <2>2, <2>3
<1>. QED  BY <1>1, <1>2

\* Memory is mapped for a binnable span only when no idle one is long enough.
LEMMA NoneToTake ==
  ASSUME TypeOK, PoolInv, NEW size \in Requests, AllocChunk(size),
         NEW n \in 1 .. SIZE_MAX, n = RoundUpPage(size), NEW s
  PROVE  TakesBest(s, n)
<1>1. IdleInv /\ ChunkInv /\ NeedsChunk(n)
  BY DEF PoolInv, AllocChunk
<1>2. n \in BinIndex
  BY <1>1 DEF NeedsChunk, BinIndex
<1>3. ASSUME NEW r \in Idle, span[r].page_count >= n PROVE FALSE
  <2>1. FindBestFitting(n) # NO_FITTING
    BY <1>1, <1>2, <1>3, ShortestFound
  <2>2. data_arena # {}
    BY <1>1 DEF IdleInv, ChunkInv, Idle
  <2>. QED  BY <1>1, <2>1, <2>2 DEF NeedsChunk
<1>. QED  BY <1>3 DEF TakesBest

\* A chunk that the request takes whole.
LEMMA AllocChunkWholeInv ==
  ASSUME NoWrap, TypeOK, PoolInv, NEW size \in Requests, AllocChunk(size),
         NEW n \in 1 .. SIZE_MAX, n = RoundUpPage(size), size <= n * PAGE_SIZE,
         ChunkPages(n) = n, ChunkPages(n) - n = 0
  PROVE  TypeOK' /\ PoolInv' /\ Granted
<1>. USE DEF PoolInv
<1>1. n < MAX_BINNED_PAGES /\ AllocMetadata(1) /\ Hand(MetadataObject(1), size)
      /\ UNCHANGED <<uninitilized_span_bin, non_empty_bitmap, aborted>>
  BY DEF AllocChunk, NeedsChunk
<1>2. PICK s \in SpanIds \ Objects :
        /\ s = MetadataObject(1) /\ s \notin DOMAIN used
        /\ Objects' = Objects \cup {s}
        /\ meta_next' \in 1 .. MaxSpans + 1 /\ meta_free' \in Seq(SpanIds)
        /\ \A i \in DOMAIN meta_free' : meta_free'[i] < meta_next'
        /\ \A i, j \in DOMAIN meta_free' : meta_free'[i] = meta_free'[j] => i = j
  BY <1>1, DirectObject
<1>3. PICK b \in FreeRuns(n) :
        /\ mapped' = mapped \cup RunOf(b, n) /\ data_arena' = data_arena \cup {<<b, n>>}
        /\ span' = ChunkSpans(s, NULL, b, n, 0)
        /\ page_map' = MapRange(page_map, s, b, n)
  BY <1>2 DEF AllocChunk
<1>4. /\ b \in Pages /\ n \in Pages /\ b \in RunOf(b, n) /\ b # MAP_FAILED
      /\ RunOf(b, n) \subseteq Pages /\ RunOf(b, n) \cap mapped = {}
  BY FreshRun
<1>5. /\ span'[s].base = b /\ span'[s].page_count = n /\ span'[s].is_initialized = TRUE
      /\ span'[s].phys_next = NULL /\ span'[s].phys_prev = NULL
      /\ \A r \in SpanIds \ {s} : span'[r] = span[r]
      /\ span' \in [SpanIds -> SpanRecords]
  <2>1. PICK new \in SpanRecords :
          /\ new = [base |-> b, page_count |-> n, is_initialized |-> TRUE,
                    next |-> NULL, phys_next |-> NULL, phys_prev |-> NULL]
          /\ new.base = b /\ new.page_count = n /\ new.is_initialized = TRUE
          /\ new.phys_next = NULL /\ new.phys_prev = NULL
    <3>1. b \in Bases /\ n \in Counts /\ NULL \in SpanOrNull
      BY <1>4 DEF Bases, Counts, SpanOrNull
    <3>2. PICK init \in BOOLEAN : init = TRUE
      OBVIOUS
    <3>3. \E new \in SpanRecords :
            /\ new = [base |-> b, page_count |-> n, is_initialized |-> init,
                      next |-> NULL, phys_next |-> NULL, phys_prev |-> NULL]
            /\ new.base = b /\ new.page_count = n /\ new.is_initialized = init
            /\ new.next = NULL /\ new.phys_next = NULL /\ new.phys_prev = NULL
      BY <3>1, NewRecord
    <3>. QED  BY <3>2, <3>3
  <2>2. \A r \in SpanIds : r # NULL
    BY ObjectIds
  <2>3. span'[s] = new /\ \A r \in SpanIds \ {s} : span'[r] = span[r]
    BY <1>3, <2>1, <2>2 DEF ChunkSpans
  <2>4. span' = [r \in SpanIds |-> span'[r]]
    BY <1>3 DEF ChunkSpans
  <2>5. \A r \in SpanIds : span'[r] \in SpanRecords
    BY <2>3, SpanTyped
  <2>6. span' \in [SpanIds -> SpanRecords]
    BY <2>4, <2>5
  <2>. QED  BY <2>1, <2>3, <2>6
<1>6. /\ DOMAIN used' = DOMAIN used \cup {s} /\ DOMAIN used' \subseteq SpanIds
      /\ \A r \in DOMAIN used : used'[r] = used[r]
      /\ \A r \in DOMAIN used' : used'[r] \in Requests
      /\ FitsRequest'
  <2>1. \A r \in DOMAIN used : span'[r].page_count = span[r].page_count
    BY <1>2, <1>5, ObjectIds DEF MetaInv
  <2>. QED  BY <1>1, <1>2, <1>5, <2>1, Handed
<1>7. TypeOK'
  <2>1. page_map' \in [Pages -> SpanOrNull]
    BY <1>3 DEF MapRange, TypeOK, SpanOrNull
  <2>2. mapped' \subseteq Pages
    BY <1>3, <1>4 DEF TypeOK
  <2>3. data_arena' \subseteq Pages \X Pages
    BY <1>3, <1>4 DEF TypeOK
  <2>. QED  BY <1>1, <1>2, <1>5, <1>6, <2>1, <2>2, <2>3 DEF TypeOK, SpanRecords, Bases, Counts
<1>8. MetaInv'
  BY <1>2, <1>6 DEF MetaInv
<1>9. RunInv' /\ ChunkInv' /\ PhysLinksExact'
  <2>. DEFINE New == {s}
  <2>1. New \cap Objects = {} /\ Objects' = Objects \cup New
    BY <1>2
  <2>2. b \in Nat \ {0} /\ n \in Nat \ {0}
    BY <1>4 DEF Pages
  <2>3. \A r \in Objects : span'[r] = span[r]
    BY <1>2, <1>5, ObjectIds
  <2>4. PagesOf(s)' = RunOf(b, n)
    BY <1>5 DEF PagesOf
  <2>5. \A r \in New : /\ span'[r].base \in PagesOf(r)'
                       /\ PagesOf(r)' \subseteq RunOf(b, n)
                       /\ span'[r].page_count >= 1
                       /\ span'[r].page_count < MAX_BINNED_PAGES
    BY <1>1, <1>4, <1>5, <2>2, <2>4
  <2>6. /\ \A r \in New : \A p \in PagesOf(r)' : page_map'[p] = r
        /\ \A p \in RunOf(b, n) : \E r \in New : p \in PagesOf(r)'
        /\ \A p \in Pages \ RunOf(b, n) : page_map'[p] = page_map[p]
    BY <1>3, <1>4, <2>4 DEF MapRange
  <2>7. \A r \in New :
          /\ IF span'[r].base + span'[r].page_count = b + n
               THEN span'[r].phys_next = NULL
               ELSE /\ span'[r].phys_next \in Objects'
                    /\ span'[span'[r].phys_next].base = span'[r].base + span'[r].page_count
                    /\ span'[span'[r].phys_next].phys_prev = r
          /\ span'[r].base = b <=> span'[r].phys_prev = NULL
    BY <1>5
  <2>8. mapped' = mapped \cup RunOf(b, n) /\ data_arena' = data_arena \cup {<<b, n>>}
    BY <1>3
  <2>. HIDE DEF New
  <2>9. Opens(New, b, n)
    BY <1>4, <2>1, <2>2, <2>3, <2>5, <2>6, <2>7, <2>8 DEF Opens
  <2>. QED  BY <2>9, NewChunk
<1>10. IdleInv'
  <2>1. Idle' = Idle /\ \A r \in Idle : r \in Objects /\ r # s /\ r \in SpanIds
    BY <1>2, <1>6, ObjectIds DEF Idle
  <2>2. \A r \in Idle : span'[r] = span[r]
    BY <1>5, <2>1
  <2>3. \A m : IdleOf(m)' = IdleOf(m)
    BY <2>1, <2>2 DEF IdleOf
  <2>4. ASSUME NEW m \in BinIndex PROVE Chain(uninitilized_span_bin[m], span', IdleOf(m)')
    <3>1. Chain(uninitilized_span_bin[m], span, IdleOf(m))
      BY DEF IdleInv
    <3>2. \A r \in IdleOf(m) : span'[r].next = span[r].next
      BY <2>2 DEF IdleOf
    <3>3. Chain(uninitilized_span_bin[m], span', IdleOf(m))
      BY <3>1, <3>2, ChainKept
    <3>. QED  BY <2>3, <3>3
  <2>5. BitmapInv'
    BY <1>1 DEF IdleInv, BitmapInv
  <2>6. \A r \in Objects' : span'[r].is_initialized <=> r \in DOMAIN used'
    <3>1. \A r \in Objects : r \in SpanIds /\ r # s /\ (span[r].is_initialized <=> r \in DOMAIN used)
      BY <1>2, ObjectIds DEF IdleInv
    <3>. QED  BY <1>2, <1>5, <1>6, <3>1
  <2>7. \A r \in Idle' : span'[r].page_count < MAX_BINNED_PAGES
    BY <2>1, <2>2 DEF IdleInv
  <2>. QED  BY <1>1, <2>4, <2>5, <2>6, <2>7 DEF IdleInv
<1>11. Granted
  <2>1. \A r \in DOMAIN used : span'[r] = span[r]
    BY <1>2, <1>5, ObjectIds DEF MetaInv
  <2>2. TakesBest(s, n)
    BY NoneToTake
  <2>3. Grants(s)
    BY <1>2, <1>5, <1>6, <2>1, <2>2 DEF Grants
  <2>. QED  BY <2>3 DEF Granted
<1>. QED  BY <1>6, <1>7, <1>8, <1>9, <1>10, <1>11

\* The two objects of a chunk with a remainder.
LEMMA TwoObjects ==
  ASSUME TypeOK, MetaInv, AllocMetadata(2)
  PROVE  \E fit \in SpanIds \ Objects, split \in SpanIds \ Objects :
           /\ fit = MetadataObject(1) /\ split = MetadataObject(2) /\ fit # split
           /\ fit \notin DOMAIN used /\ split \notin DOMAIN used
           /\ Objects' = Objects \cup {fit, split}
           /\ meta_next' \in 1 .. MaxSpans + 1 /\ meta_free' \in Seq(SpanIds)
           /\ \A i \in DOMAIN meta_free' : meta_free'[i] < meta_next'
           /\ \A i, j \in DOMAIN meta_free' : meta_free'[i] = meta_free'[j] => i = j
<1>1. PICK k \in Nat \ {0} : k = 2
  OBVIOUS
<1>2. AllocMetadata(k)
  BY <1>1
<1>3. /\ \A j \in 1 .. k : MetadataObject(j) \in SpanIds \ Objects
      /\ \A i, j \in 1 .. k : MetadataObject(i) = MetadataObject(j) => i = j
      /\ Objects' = Objects \cup {MetadataObject(j) : j \in 1 .. k}
      /\ meta_next' \in 1 .. MaxSpans + 1 /\ meta_free' \in Seq(SpanIds)
      /\ \A i \in DOMAIN meta_free' : meta_free'[i] < meta_next'
      /\ \A i, j \in DOMAIN meta_free' : meta_free'[i] = meta_free'[j] => i = j
  BY <1>2, MetaAlloc
<1>4. \A j : j \in 1 .. k <=> j = 1 \/ j = 2
  BY <1>1
<1>5. PICK fit \in SpanIds \ Objects, split \in SpanIds \ Objects :
        fit = MetadataObject(1) /\ split = MetadataObject(2) /\ fit # split
  <2>1. 1 \in 1 .. k /\ 2 \in 1 .. k
    BY <1>4
  <2>2. MetadataObject(1) \in SpanIds \ Objects /\ MetadataObject(2) \in SpanIds \ Objects
    BY <1>3, <2>1
  <2>3. MetadataObject(1) # MetadataObject(2)
    <3>1. \A i, j \in 1 .. k : MetadataObject(i) = MetadataObject(j) => i = j
      BY <1>3
    <3>2. MetadataObject(1) = MetadataObject(2) => 1 = 2
      BY <2>1, <3>1
    <3>. QED  BY <3>2
  <2>. QED  BY <2>2, <2>3
<1>6. Objects' = Objects \cup {fit, split}
  <2>1. {MetadataObject(j) : j \in 1 .. k} = {fit, split}
    BY <1>4, <1>5
  <2>. QED  BY <1>3, <2>1
<1>7. fit \notin DOMAIN used /\ split \notin DOMAIN used
  BY DEF MetaInv
<1>. QED  BY <1>3, <1>5, <1>6, <1>7

\* A chunk longer than the request.
LEMMA AllocChunkCutInv ==
  ASSUME NoWrap, TypeOK, PoolInv, NEW size \in Requests, AllocChunk(size),
         NEW n \in 1 .. SIZE_MAX, n = RoundUpPage(size), size <= n * PAGE_SIZE,
         NEW rest \in 1 .. SIZE_MAX, rest \in BinIndex,
         ChunkPages(n) = n + rest, ChunkPages(n) - n = rest
  PROVE  TypeOK' /\ PoolInv' /\ Granted
<1>. USE DEF PoolInv
<1>. DEFINE pages == n + rest
<1>1. /\ n \in Nat /\ rest \in Nat /\ n >= 1 /\ rest >= 1 /\ pages \in Nat \ {0}
      /\ rest > 0 /\ rest < MAX_BINNED_PAGES
  BY DEF BinIndex
<1>2. n < MAX_BINNED_PAGES /\ AllocMetadata(2) /\ Hand(MetadataObject(1), size) /\ UNCHANGED aborted
  BY <1>1 DEF AllocChunk, NeedsChunk
<1>3. PICK fit \in SpanIds \ Objects, split \in SpanIds \ Objects :
        /\ fit = MetadataObject(1) /\ split = MetadataObject(2) /\ fit # split
        /\ fit \notin DOMAIN used /\ split \notin DOMAIN used
        /\ Objects' = Objects \cup {fit, split}
        /\ meta_next' \in 1 .. MaxSpans + 1 /\ meta_free' \in Seq(SpanIds)
        /\ \A i \in DOMAIN meta_free' : meta_free'[i] < meta_next'
        /\ \A i, j \in DOMAIN meta_free' : meta_free'[i] = meta_free'[j] => i = j
  BY <1>2, TwoObjects
<1>4. PICK b \in FreeRuns(pages) :
        /\ mapped' = mapped \cup RunOf(b, pages) /\ data_arena' = data_arena \cup {<<b, pages>>}
        /\ span' = ChunkSpans(fit, split, b, n, rest)
        /\ page_map' = MapRange(MapRange(page_map, fit, b, n), split, b + n, rest)
  BY <1>1, <1>3 DEF AllocChunk
<1>5. /\ uninitilized_span_bin' = [uninitilized_span_bin EXCEPT ![rest] = split]
      /\ non_empty_bitmap' = MarkNonEmpty(non_empty_bitmap, rest)
  BY <1>1, <1>3 DEF AllocChunk
<1>6. /\ b \in Pages /\ b \in Nat \ {0} /\ pages \in Pages /\ b # MAP_FAILED
      /\ RunOf(b, pages) \subseteq Pages /\ RunOf(b, pages) \cap mapped = {}
  BY <1>1, FreshRun DEF Pages
<1>. HIDE DEF pages
<1>7. /\ RunOf(b, n) \subseteq RunOf(b, pages) /\ RunOf(b + n, rest) \subseteq RunOf(b, pages)
      /\ b \in RunOf(b, n) /\ b + n \in RunOf(b + n, rest) /\ b + n \in Pages
      /\ \A p \in RunOf(b, pages) : p \in RunOf(b, n) <=> p \notin RunOf(b + n, rest)
      /\ b + n # b + pages /\ (b + n) + rest = b + pages /\ b + n # b
  <2>2. /\ b \in Nat \ {0} /\ n \in Nat \ {0} /\ rest \in Nat \ {0}
    BY <1>1, <1>6
  <2>3. /\ RunOf(b, n) \subseteq RunOf(b, pages) /\ RunOf(b + n, rest) \subseteq RunOf(b, pages)
        /\ b \in RunOf(b, n) /\ b + n \in RunOf(b + n, rest)
        /\ \A p \in RunOf(b, pages) : p \in RunOf(b, n) <=> p \notin RunOf(b + n, rest)
    <3>1. /\ RunOf(b, n) \subseteq RunOf(b, n + rest) /\ RunOf(b + n, rest) \subseteq RunOf(b, n + rest)
          /\ b \in RunOf(b, n) /\ b + n \in RunOf(b + n, rest)
          /\ \A p \in RunOf(b, n + rest) : p \in RunOf(b, n) <=> p \notin RunOf(b + n, rest)
      <4>1. PICK x \in Nat \ {0}, y \in Nat \ {0}, z \in Nat \ {0} : x = b /\ y = n /\ z = rest
        BY <2>2
      <4>2. /\ RunOf(x, y) \subseteq RunOf(x, y + z) /\ RunOf(x + y, z) \subseteq RunOf(x, y + z)
            /\ x \in RunOf(x, y) /\ x + y \in RunOf(x + y, z)
            /\ \A p \in RunOf(x, y + z) : p \in RunOf(x, y) <=> p \notin RunOf(x + y, z)
        BY CutRun
      <4>. QED  BY <4>1, <4>2
    <3>2. pages = n + rest
      BY DEF pages
    <3>. QED  BY <3>1, <3>2
  <2>4. b + n # b + pages /\ (b + n) + rest = b + pages /\ b + n # b
    BY <2>2 DEF pages
  <2>. QED  BY <1>6, <2>3, <2>4
<1>8. PICK head \in SpanOrNull : head = uninitilized_span_bin[rest]
  BY DEF TypeOK
<1>9. /\ span'[fit].base = b /\ span'[fit].page_count = n /\ span'[fit].is_initialized = TRUE
      /\ span'[fit].phys_next = split /\ span'[fit].phys_prev = NULL
      /\ span'[split].base = b + n /\ span'[split].page_count = rest
      /\ span'[split].is_initialized = FALSE /\ span'[split].next = head
      /\ span'[split].phys_next = NULL /\ span'[split].phys_prev = fit
      /\ \A r \in SpanIds \ {fit, split} : span'[r] = span[r]
      /\ span' \in [SpanIds -> SpanRecords]
  <2>1. /\ b \in Bases /\ b + n \in Bases /\ n \in Counts /\ rest \in Counts
        /\ NULL \in SpanOrNull /\ fit \in SpanOrNull /\ split \in SpanOrNull
    BY <1>3, <1>6, <1>7 DEF Bases, Counts, SpanOrNull
  <2>2. PICK yes \in BOOLEAN, no \in BOOLEAN : yes = TRUE /\ no = FALSE
    OBVIOUS
  <2>3. PICK first \in SpanRecords :
          /\ first = [base |-> b, page_count |-> n, is_initialized |-> yes,
                      next |-> NULL, phys_next |-> split, phys_prev |-> NULL]
          /\ first.base = b /\ first.page_count = n /\ first.is_initialized = yes
          /\ first.next = NULL /\ first.phys_next = split /\ first.phys_prev = NULL
    <3>. DEFINE new == [base |-> b, page_count |-> n, is_initialized |-> yes,
                      next |-> NULL, phys_next |-> split, phys_prev |-> NULL]
    <3>1. new \in SpanRecords
      BY <2>1 DEF SpanRecords
    <3>2. /\ new.base = b /\ new.page_count = n /\ new.is_initialized = yes
          /\ new.next = NULL /\ new.phys_next = split /\ new.phys_prev = NULL
      OBVIOUS
    <3>3. \E x \in SpanRecords :
            /\ x = new
            /\ x.base = b /\ x.page_count = n /\ x.is_initialized = yes
            /\ x.next = NULL /\ x.phys_next = split /\ x.phys_prev = NULL
      <4>. HIDE DEF new
      <4>. QED  BY <3>1, <3>2
    <3>. QED  BY <3>3
  <2>4. PICK second \in SpanRecords :
          /\ second = [base |-> b + n, page_count |-> rest, is_initialized |-> no,
                       next |-> head, phys_next |-> NULL, phys_prev |-> fit]
          /\ second.base = b + n /\ second.page_count = rest /\ second.is_initialized = no
          /\ second.next = head /\ second.phys_next = NULL /\ second.phys_prev = fit
    <3>. DEFINE new == [base |-> b + n, page_count |-> rest, is_initialized |-> no,
                      next |-> head, phys_next |-> NULL, phys_prev |-> fit]
    <3>1. new \in SpanRecords
      BY <2>1 DEF SpanRecords
    <3>2. /\ new.base = b + n /\ new.page_count = rest /\ new.is_initialized = no
          /\ new.next = head /\ new.phys_next = NULL /\ new.phys_prev = fit
      OBVIOUS
    <3>3. \E x \in SpanRecords :
            /\ x = new
            /\ x.base = b + n /\ x.page_count = rest /\ x.is_initialized = no
            /\ x.next = head /\ x.phys_next = NULL /\ x.phys_prev = fit
      <4>. HIDE DEF new
      <4>. QED  BY <3>1, <3>2
    <3>. QED  BY <3>3
  <2>5. /\ span'[fit] = first /\ span'[split] = second
        /\ \A r \in SpanIds \ {fit, split} : span'[r] = span[r]
        /\ span' = [r \in SpanIds |-> span'[r]]
    BY <1>3, <1>4, <1>8, <2>2, <2>3, <2>4 DEF ChunkSpans
  <2>6. \A r \in SpanIds \ {fit, split} : span'[r] \in SpanRecords
    BY <2>5, SpanTyped
  <2>7. \A r \in SpanIds : span'[r] \in SpanRecords
    <3>. HIDE DEF SpanRecords
    <3>. QED  BY <2>3, <2>4, <2>5, <2>6
  <2>8. span' \in [SpanIds -> SpanRecords]
    BY <2>5, <2>7
  <2>. QED  BY <2>2, <2>3, <2>4, <2>5, <2>8
<1>10. /\ DOMAIN used' = DOMAIN used \cup {fit} /\ DOMAIN used' \subseteq SpanIds
       /\ \A r \in DOMAIN used : used'[r] = used[r]
       /\ \A r \in DOMAIN used' : used'[r] \in Requests
       /\ FitsRequest'
  <2>1. \A r \in DOMAIN used : r \in SpanIds \ {fit, split}
    BY <1>3 DEF TypeOK
  <2>2. \A r \in DOMAIN used : span'[r].page_count = span[r].page_count
    BY <1>9, <2>1
  <2>3. size <= span'[fit].page_count * PAGE_SIZE
    BY <1>9
  <2>. QED  BY <1>2, <1>3, <2>2, <2>3, Handed
<1>11. Idle' = Idle \cup {split} /\ split \notin Idle /\ \A r \in Idle : r \in SpanIds \ {fit, split}
  BY <1>3, <1>10, ObjectIds DEF Idle
<1>12. /\ non_empty_bitmap' \in [Words -> SUBSET Bits]
       /\ uninitilized_span_bin' \in [BinIndex -> SpanOrNull]
       /\ BitmapInv'
       /\ \A m \in BinIndex : Chain(uninitilized_span_bin'[m], span', IdleOf(m)')
       /\ \A r \in Idle' : span'[r].page_count < MAX_BINNED_PAGES
  <2>1. \A r \in Idle : /\ span'[r].next = span[r].next
                        /\ span'[r].page_count = span[r].page_count
    BY <1>9, <1>11
  <2>2. span'[split].next = uninitilized_span_bin[rest] /\ span'[split].page_count = rest
    BY <1>8, <1>9
  <2>. QED  BY <1>3, <1>5, <1>11, <2>1, <2>2, BinPushed
<1>13. TypeOK'
  <2>1. page_map' \in [Pages -> SpanOrNull]
    BY <1>3, <1>4 DEF MapRange, TypeOK, SpanOrNull
  <2>2. mapped' \subseteq Pages
    <3>1. mapped \subseteq Pages
      BY DEF TypeOK
    <3>. QED  BY <1>4, <1>6, <3>1
  <2>3. data_arena' \subseteq Pages \X Pages
    <3>1. data_arena \subseteq Pages \X Pages
      BY DEF TypeOK
    <3>. QED  BY <1>4, <1>6, <3>1
  <2>. QED  BY <1>2, <1>3, <1>9, <1>10, <1>12, <2>1, <2>2, <2>3 DEF TypeOK, SpanRecords, Bases, Counts
<1>14. MetaInv'
  BY <1>3, <1>10 DEF MetaInv
<1>15. RunInv' /\ ChunkInv' /\ PhysLinksExact'
  <2>. DEFINE New == {fit, split}
  <2>1. New \cap Objects = {} /\ Objects' = Objects \cup New
    BY <1>3
  <2>2. \A r \in Objects : span'[r] = span[r]
    BY <1>3, <1>9, ObjectIds
  <2>3. PagesOf(fit)' = RunOf(b, n) /\ PagesOf(split)' = RunOf(b + n, rest)
    BY <1>9 DEF PagesOf
  <2>4. \A r \in New : /\ span'[r].base \in PagesOf(r)'
                       /\ PagesOf(r)' \subseteq RunOf(b, pages)
                       /\ span'[r].page_count >= 1
                       /\ span'[r].page_count < MAX_BINNED_PAGES
    <3>1. /\ b \in PagesOf(fit)' /\ PagesOf(fit)' \subseteq RunOf(b, pages)
          /\ b + n \in PagesOf(split)' /\ PagesOf(split)' \subseteq RunOf(b, pages)
      BY <1>7, <2>3
    <3>. QED  BY <1>1, <1>2, <1>9, <3>1
  <2>5. \A p \in Pages : page_map'[p] = IF p \in RunOf(b + n, rest) THEN split
                                        ELSE IF p \in RunOf(b, n) THEN fit ELSE page_map[p]
    BY <1>4 DEF MapRange
  <2>6. \A r \in New : \A p \in PagesOf(r)' : page_map'[p] = r
    BY <1>6, <1>7, <2>3, <2>5
  <2>7. /\ \A p \in RunOf(b, pages) : \E r \in New : p \in PagesOf(r)'
        /\ \A p \in Pages \ RunOf(b, pages) : page_map'[p] = page_map[p]
    BY <1>7, <2>3, <2>5
  <2>8. \A r \in New :
          /\ IF span'[r].base + span'[r].page_count = b + pages
               THEN span'[r].phys_next = NULL
               ELSE /\ span'[r].phys_next \in Objects'
                    /\ span'[span'[r].phys_next].base = span'[r].base + span'[r].page_count
                    /\ span'[span'[r].phys_next].phys_prev = r
          /\ span'[r].base = b <=> span'[r].phys_prev = NULL
    <3>1. fit # NULL /\ split \in Objects'
      BY <1>3, ObjectIds
    <3>2. ASSUME NEW r \in New, r = fit
          PROVE  /\ span'[r].base + span'[r].page_count # b + pages
                 /\ span'[r].phys_next \in Objects'
                 /\ span'[span'[r].phys_next].base = span'[r].base + span'[r].page_count
                 /\ span'[span'[r].phys_next].phys_prev = r
                 /\ span'[r].base = b /\ span'[r].phys_prev = NULL
      BY <1>7, <1>9, <3>1, <3>2
    <3>3. ASSUME NEW r \in New, r = split
          PROVE  /\ span'[r].base + span'[r].page_count = b + pages
                 /\ span'[r].phys_next = NULL
                 /\ span'[r].base # b /\ span'[r].phys_prev # NULL
      BY <1>7, <1>9, <3>1, <3>3
    <3>. QED  BY <3>2, <3>3
  <2>9. mapped' = mapped \cup RunOf(b, pages) /\ data_arena' = data_arena \cup {<<b, pages>>}
    BY <1>4
  <2>10. b \in Nat \ {0} /\ pages \in Nat \ {0}
    BY <1>1, <1>6
  <2>11. RunOf(b, pages) \subseteq Pages /\ RunOf(b, pages) \cap mapped = {}
    BY <1>6
  <2>. HIDE DEF New
  <2>12. Opens(New, b, pages)
    BY <2>1, <2>2, <2>4, <2>6, <2>7, <2>8, <2>9, <2>10, <2>11 DEF Opens
  <2>. QED  BY <2>12, NewChunk
<1>16. IdleInv'
  <2>1. \A r \in Objects' : span'[r].is_initialized <=> r \in DOMAIN used'
    <3>1. \A r \in Objects : r \in SpanIds \ {fit, split} /\ (span[r].is_initialized <=> r \in DOMAIN used)
      BY <1>3, ObjectIds DEF IdleInv
    <3>2. ASSUME NEW r \in Objects PROVE span'[r].is_initialized <=> r \in DOMAIN used'
      BY <1>9, <1>10, <3>1
    <3>3. span'[fit].is_initialized /\ fit \in DOMAIN used'
      BY <1>9, <1>10
    <3>4. ~span'[split].is_initialized /\ split \notin DOMAIN used'
      BY <1>3, <1>9, <1>10
    <3>. QED  BY <1>3, <3>2, <3>3, <3>4
  <2>. QED  BY <1>12, <2>1 DEF IdleInv
<1>17. Granted
  <2>1. \A r \in DOMAIN used : span'[r] = span[r]
    BY <1>3, <1>9, ObjectIds DEF MetaInv
  <2>2. TakesBest(fit, n)
    BY NoneToTake
  <2>3. Grants(fit)
    BY <1>3, <1>9, <1>10, <2>1, <2>2 DEF Grants
  <2>. QED  BY <2>3 DEF Granted
<1>. QED  BY <1>10, <1>13, <1>14, <1>15, <1>16, <1>17

LEMMA AllocChunkInv ==
  ASSUME NoWrap, TypeOK, PoolInv, NEW size \in Requests, AllocChunk(size)
  PROVE  TypeOK' /\ PoolInv' /\ Granted
<1>1. PICK n \in 1 .. SIZE_MAX : n = RoundUpPage(size) /\ size <= n * PAGE_SIZE
  BY RoundUpFits
<1>2. PICK rest \in 0 .. SIZE_MAX :
        /\ ChunkPages(n) = n + rest /\ ChunkPages(n) - n = rest
        /\ rest > 0 => rest \in BinIndex
  BY ChunkCut
<1>3. CASE rest = 0
  <2>1. ChunkPages(n) = n /\ ChunkPages(n) - n = 0
    BY <1>2, <1>3
  <2>. QED  BY <1>1, <2>1, AllocChunkWholeInv
<1>4. CASE rest # 0
  <2>1. rest \in 1 .. SIZE_MAX /\ rest \in BinIndex
    BY <1>2, <1>4
  <2>. QED  BY <1>1, <1>2, <2>1, AllocChunkCutInv
<1>. QED  BY <1>3, <1>4

-----------------------------------------------------------------------------
(* Initial states and steps                                                *)

LEMMA InitInv == Init => TypeOK /\ PoolInv
<1>. SUFFICES ASSUME Init PROVE TypeOK /\ PoolInv
  OBVIOUS
<1>. USE DEF Init
<1>1. TypeOK
  <2>1. FreshSpan \in SpanRecords
    BY DEF FreshSpan, SpanRecords, Bases, Counts, SpanOrNull
  <2>2. span \in [SpanIds -> SpanRecords]
    BY <2>1
  <2>3. /\ uninitilized_span_bin \in [BinIndex -> SpanOrNull]
        /\ page_map \in [Pages -> SpanOrNull]
        /\ non_empty_bitmap \in [Words -> SUBSET Bits]
    BY DEF SpanOrNull
  <2>4. meta_free \in Seq(SpanIds) /\ meta_next \in 1 .. MaxSpans + 1
    OBVIOUS
  <2>5. DOMAIN used = {}
    OBVIOUS
  <2>. QED  BY <2>2, <2>3, <2>4, <2>5 DEF TypeOK, SpanRecords, Bases, Counts
<1>2. Objects = {} /\ Idle = {} /\ Backed = {} /\ DOMAIN used = {}
  BY DEF Objects, Idle, Backed
<1>3. MetaInv /\ FitsRequest /\ PhysLinksExact
  BY <1>2 DEF MetaInv, FitsRequest, PhysLinksExact
<1>4. RunInv /\ ChunkInv
  BY <1>2 DEF RunInv, ChunkInv
<1>5. BitmapInv
  BY DEF BitmapInv, BitmapExact
<1>6. ASSUME NEW n \in BinIndex PROVE Chain(uninitilized_span_bin[n], span, IdleOf(n))
  <2>1. uninitilized_span_bin[n] = NULL /\ IdleOf(n) = {}
    BY <1>2 DEF IdleOf
  <2>2. PICK k \in 0 .. MaxSpans : k = 0
    OBVIOUS
  <2>3. 1 .. k = {}
    BY <2>2
  <2>4. PICK l \in [1 .. k -> SpanIds] : Lists(l, k, span, {})
    <3>1. [i \in 1 .. k |-> i] \in [1 .. k -> SpanIds]
      BY <2>3
    <3>2. ASSUME NEW l PROVE Lists(l, k, span, {})
      BY <2>3 DEF Lists
    <3>. QED  BY <3>1, <3>2
  <2>. QED  BY <2>1, <2>2, <2>4 DEF Chain
<1>7. IdleInv
  BY <1>2, <1>5, <1>6 DEF IdleInv
<1>. QED  BY <1>1, <1>3, <1>4, <1>7 DEF PoolInv

LEMMA NextInv ==
  ASSUME NoWrap, TypeOK, PoolInv, [Next]_vars
  PROVE  TypeOK' /\ PoolInv'
<1>1. ASSUME NEW size \in Requests, Alloc(size) PROVE TypeOK' /\ PoolInv'
  <2>1. CASE AllocDirect(size)
    BY <2>1, AllocDirectInv
  <2>2. CASE AllocDirectFails(size)
    BY <2>2, AllocDirectFailsInv
  <2>3. CASE AllocExact(size)
    BY <2>3, AllocExactInv
  <2>4. CASE AllocSplit(size)
    BY <2>4, AllocSplitInv
  <2>5. CASE AllocChunk(size)
    BY <2>5, AllocChunkInv
  <2>6. CASE AllocChunkFails(size)
    BY <2>6, AllocChunkFailsInv
  <2>. QED  BY <1>1, <2>1, <2>2, <2>3, <2>4, <2>5, <2>6 DEF Alloc
<1>2. ASSUME NEW s \in DOMAIN used, Cache(s) PROVE TypeOK' /\ PoolInv'
  BY <1>2, CacheDirectInv, CacheBinnedInv DEF Cache
<1>3. CASE UNCHANGED vars
  <2>1. TypeOK'
    BY <1>3 DEF vars, TypeOK
  <2>2. PoolInv'
    BY <1>3, SamePool DEF vars
  <2>. QED  BY <2>1, <2>2
<1>. QED  BY <1>1, <1>2, <1>3 DEF Next

\* Every path of alloc_span and cmalloc_cache_span keeps the inductive invariant.
THEOREM SpecPoolInv == ASSUME NoWrap PROVE Spec => [](TypeOK /\ PoolInv)
<1>1. Init => TypeOK /\ PoolInv
  BY InitInv
<1>2. TypeOK /\ PoolInv /\ [Next]_vars => (TypeOK /\ PoolInv)'
  BY NextInv
<1>. QED  BY <1>1, <1>2, PTL DEF Spec

-----------------------------------------------------------------------------
(* What the invariant says of the properties                               *)

LEMMA PoolPageMap == TypeOK /\ PoolInv => PageMapExact
<1>. SUFFICES ASSUME TypeOK, PoolInv PROVE PageMapExact
  OBVIOUS
<1>1. RunInv
  BY DEF PoolInv
<1>2. \A p \in Pages : page_map[p] = NULL <=> p \notin mapped
  BY <1>1, ObjectIds DEF RunInv
<1>3. \A p \in mapped : p \in PagesOf(page_map[p])
  BY <1>1 DEF RunInv, TypeOK
<1>4. \A s \in Backed : \A p \in PagesOf(s) : p \in Pages /\ page_map[p] = s
  BY <1>1 DEF RunInv
<1>. QED  BY <1>2, <1>3, <1>4 DEF PageMapExact

\* Induction on Nat, stated with a set.
LEMMA NatSetInduction ==
  ASSUME NEW T \in SUBSET Nat, 0 \in T, \A k \in Nat : k \in T => k + 1 \in T
  PROVE  T = Nat
<1>. DEFINE R == {ss \in Nat \X Nat : ss[1] < ss[2]}
<1>1. IsWellFoundedOn(R, Nat)
  BY NatLessThanWellFounded DEF OpToRel
<1>2. SUFFICES ASSUME Nat \ T # {} PROVE FALSE
  OBVIOUS
<1>3. PICK m \in Nat \ T : \A j \in Nat \ T : <<j, m>> \notin R
  <2>. HIDE DEF R
  <2>. QED  BY <1>1, <1>2, WFMin
<1>4. m - 1 \in Nat /\ m = (m - 1) + 1 /\ m - 1 < m
  BY <1>3
<1>5. m - 1 \notin T
  BY <1>3, <1>4
<1>6. <<m - 1, m>> \in R
  BY <1>4
<1>. QED  BY <1>3, <1>4, <1>5, <1>6

\* From the head of a bin, the links lead to exactly the spans it chains.
LEMMA WalkChain ==
  ASSUME NEW n \in BinIndex, NEW S, Chain(uninitilized_span_bin[n], span, S)
  PROVE  OnBin(n) = S
<1>1. PICK m \in 0 .. MaxSpans : \E l \in [1 .. m -> SpanIds] :
        Lists(l, m, span, S) /\ uninitilized_span_bin[n] = IF m = 0 THEN NULL ELSE l[1]
  BY DEF Chain
<1>2. PICK l \in [1 .. m -> SpanIds] :
        Lists(l, m, span, S) /\ uninitilized_span_bin[n] = IF m = 0 THEN NULL ELSE l[1]
  BY <1>1
<1>3. m \in Nat /\ m <= MaxSpans /\ \A i \in 1 .. m : l[i] # NULL
  BY <1>2 DEF SpanIds
<1>. DEFINE first(k) == {l[i] : i \in {j \in 1 .. m : j <= k + 1}}
            start == {uninitilized_span_bin[n]} \ {NULL}
            further(V) == V \cup ({span[s].next : s \in V} \ {NULL})
<1>4. first(0) = start
  BY <1>2, <1>3
<1>5. ASSUME NEW k \in Nat PROVE first(k + 1) = further(first(k))
  <2>1. ASSUME NEW x \in first(k + 1) PROVE x \in further(first(k))
    <3>1. PICK i \in 1 .. m : i <= k + 2 /\ x = l[i]
      BY <1>3
    <3>2. CASE i <= k + 1
      BY <3>1, <3>2
    <3>3. CASE ~(i <= k + 1)
      <4>1. PICK j \in 1 .. m : i = j + 1 /\ j <= k + 1
        <5>1. i \in Int /\ k \in Nat /\ m \in Nat /\ 1 <= i /\ i <= m /\ i > k + 1 /\ i <= k + 2
          BY <1>3, <3>1, <3>3
        <5>2. i - 1 \in 1 .. m /\ i = (i - 1) + 1 /\ i - 1 <= k + 1
          BY <5>1
        <5>. QED  BY <5>2
      <4>2. j # m /\ l[j + 1] = x /\ x # NULL
        BY <1>3, <3>1, <4>1
      <4>3. span[l[j]].next = x
        BY <1>2, <4>1, <4>2 DEF Lists
      <4>4. l[j] \in first(k)
        BY <4>1
      <4>. QED  BY <4>2, <4>3, <4>4
    <3>. QED  BY <3>2, <3>3
  <2>2. ASSUME NEW x \in further(first(k)) PROVE x \in first(k + 1)
    <3>1. CASE x \in first(k)
      BY <1>3, <3>1
    <3>2. CASE x \notin first(k)
      <4>1. PICK i \in 1 .. m : i <= k + 1 /\ x = span[l[i]].next /\ x # NULL
        BY <3>2
      <4>2. i # m /\ x = l[i + 1]
        BY <1>2, <4>1 DEF Lists
      <4>3. i + 1 \in 1 .. m /\ i + 1 <= (k + 1) + 1
        BY SMTT(40), <1>3, <4>1, <4>2
      <4>. QED  BY <4>2, <4>3
    <3>. QED  BY <3>1, <3>2
  <2>. QED  BY <2>1, <2>2
<1>. DEFINE walk[k \in Nat] ==
              IF k = 0 THEN {uninitilized_span_bin[n]} \ {NULL}
              ELSE walk[k-1] \cup ({span[s].next : s \in walk[k-1]} \ {NULL})
            body(g) == [k \in Nat |-> IF k = 0 THEN start ELSE further(g[k-1])]
            f == [k \in Nat |-> first(k)]
<1>6. f = body(f)
  <2>1. ASSUME NEW k \in Nat PROVE first(k) = IF k = 0 THEN start ELSE further(f[k-1])
    <3>1. CASE k = 0
      BY <1>4, <3>1
    <3>2. CASE k # 0
      <4>1. k - 1 \in Nat /\ (k - 1) + 1 = k
        BY <3>2
      <4>2. f[k - 1] = first(k - 1)
        BY <4>1
      <4>3. first((k - 1) + 1) = further(first(k - 1))
        BY <1>5, <4>1
      <4>. QED  BY <3>2, <4>1, <4>2, <4>3
    <3>. QED  BY <3>1, <3>2
  <2>. QED  BY <2>1
<1>7. walk = CHOOSE g : g = body(g)
  OBVIOUS
<1>. HIDE DEF first, start, further, walk
<1>8. walk = body(walk)
  <2>. HIDE DEF body, f
  <2>. QED  BY <1>6, <1>7, Zenon
<1>9. walk[0] = start /\ \A k \in Nat : walk[k + 1] = further(walk[k])
  <2>1. \A k \in Nat : walk[k] = IF k = 0 THEN start ELSE further(walk[k-1])
    BY <1>8
  <2>2. ASSUME NEW k \in Nat PROVE walk[k + 1] = further(walk[k])
    <3>1. k + 1 \in Nat /\ k + 1 # 0 /\ (k + 1) - 1 = k
      OBVIOUS
    <3>2. walk[k + 1] = IF k + 1 = 0 THEN start ELSE further(walk[(k + 1) - 1])
      BY <2>1, <3>1
    <3>. QED  BY <3>1, <3>2
  <2>. QED  BY <2>1, <2>2
<1>10. \A k \in Nat : walk[k] = first(k)
  <2>. DEFINE T == {k \in Nat : walk[k] = first(k)}
  <2>1. 0 \in T
    BY <1>4, <1>9
  <2>2. ASSUME NEW k \in Nat, k \in T PROVE k + 1 \in T
    <3>1. walk[k + 1] = further(walk[k]) /\ walk[k] = first(k) /\ first(k + 1) = further(first(k))
      BY <1>5, <1>9, <2>2
    <3>. QED  BY <3>1
  <2>3. T \in SUBSET Nat
    OBVIOUS
  <2>. HIDE DEF T
  <2>4. T = Nat
    BY <2>1, <2>2, <2>3, NatSetInduction
  <2>. QED  BY <2>4 DEF T
<1>11. first(MaxSpans) = S
  <2>1. \A i \in 1 .. m : i <= MaxSpans + 1
    BY <1>3
  <2>. QED  BY <1>2, <2>1 DEF first, Lists
<1>12. OnBin(n) = walk[MaxSpans]
  BY DEF OnBin, walk
<1>13. MaxSpans \in Nat
  OBVIOUS
<1>. QED  BY <1>10, <1>11, <1>12, <1>13

LEMMA PoolPageBins == TypeOK /\ PoolInv => PageBinsExact
<1>. SUFFICES ASSUME TypeOK, PoolInv PROVE PageBinsExact
  OBVIOUS
<1>1. IdleInv
  BY DEF PoolInv
<1>2. ASSUME NEW n \in BinIndex PROVE OnBin(n) = {s \in Idle : span[s].page_count = n}
  <2>1. Chain(uninitilized_span_bin[n], span, IdleOf(n))
    BY <1>1 DEF IdleInv
  <2>2. OnBin(n) = IdleOf(n)
    BY <2>1, WalkChain
  <2>. QED  BY <2>2 DEF IdleOf
<1>3. ASSUME NEW w \in Words, NEW i \in Bits
      PROVE  i \in non_empty_bitmap[w] <=>
               \E n \in BinIndex : n = w * BITS_PER_WORD + i /\ uninitilized_span_bin[n] # NULL
  BY <1>1 DEF IdleInv, BitmapInv, BitmapExact
<1>4. \A s \in Objects : span[s].is_initialized <=> s \in DOMAIN used
  BY <1>1 DEF IdleInv
<1>. QED  BY <1>2, <1>3, <1>4 DEF PageBinsExact


-----------------------------------------------------------------------------
(* The page heap                                                           *)

InUse    == DOMAIN used \cap Backed
First(s) == span[s].base
Final(s) == span[s].base + span[s].page_count - 1

\* The spans in use lie apart, and each is long enough for its request.
RunsApart ==
  \A s \in InUse :
    /\ First(s) \in Pages /\ Final(s) \in Pages
    /\ used[s] \in Requests /\ used[s] <= (Final(s) + 1 - First(s)) * PAGE_SIZE
    /\ \A r \in InUse : r # s => (First(r) .. Final(r)) \cap (First(s) .. Final(s)) = {}

\* Two spans in use have no page in common, as a page maps to one span.
LEMMA PoolRunsApart == TypeOK /\ PoolInv => RunsApart
<1>. SUFFICES ASSUME TypeOK, PoolInv, NEW s \in InUse
              PROVE  /\ First(s) \in Pages /\ Final(s) \in Pages
                     /\ used[s] \in Requests /\ used[s] <= (Final(s) + 1 - First(s)) * PAGE_SIZE
                     /\ \A r \in InUse :
                          r # s => (First(r) .. Final(r)) \cap (First(s) .. Final(s)) = {}
  BY DEF RunsApart
<1>1. RunInv /\ FitsRequest /\ s \in Backed /\ s \in Objects /\ s \in DOMAIN used
  BY ObjectIds DEF PoolInv, InUse
<1>2. \A r \in InUse : First(r) .. Final(r) = PagesOf(r)
  BY DEF First, Final, PagesOf, RunOf
<1>3. First(s) \in PagesOf(s) /\ Final(s) \in PagesOf(s)
  BY <1>1, SpanFields DEF First, Final
<1>4. First(s) \in Pages /\ Final(s) \in Pages
  BY <1>1, <1>3, OwnPages
<1>5. used[s] \in Requests /\ used[s] <= (Final(s) + 1 - First(s)) * PAGE_SIZE
  <2>1. used[s] \in Requests /\ used[s] <= span[s].page_count * PAGE_SIZE
    BY <1>1 DEF TypeOK, FitsRequest
  <2>2. span[s].base \in Int /\ span[s].page_count \in Int
    BY <1>1, SpanFields
  <2>3. Final(s) + 1 - First(s) = span[s].page_count
    BY <2>2 DEF First, Final
  <2>. QED  BY <2>1, <2>3
<1>6. ASSUME NEW r \in InUse, r # s PROVE PagesOf(r) \cap PagesOf(s) = {}
  <2>1. r \in Backed
    BY DEF InUse
  <2>. QED  BY <1>1, <1>6, <2>1 DEF RunInv
<1>. QED  BY <1>2, <1>4, <1>5, <1>6

\* alloc_span reserves the run of the span it hands out, or none if its
\* mapping failed.
LEMMA GrantsReserve ==
  ASSUME TypeOK, PoolInv, TypeOK', PoolInv', RunsApart', NEW s \in SpanIds, Grants(s)
  PROVE  [Heap!Next]_RunsInUse
<1>1. /\ s \notin DOMAIN used /\ DOMAIN used' = DOMAIN used \cup {s}
      /\ \A r \in DOMAIN used : /\ First(r)' = First(r) /\ Final(r)' = Final(r)
                                /\ used'[r] = used[r]
  BY DEF Grants, First, Final
<1>2. DOMAIN used \subseteq Objects /\ DOMAIN used' \subseteq Objects'
  BY DEF PoolInv, MetaInv
<1>3. \A r \in DOMAIN used : r \in Backed <=> r \in Backed'
  <2>1. \A r \in DOMAIN used : span'[r].base = span[r].base
    BY DEF Grants
  <2>. QED  BY <1>1, <1>2, <2>1 DEF Backed
<1>4. /\ RunsInUse = [r \in InUse |-> <<First(r), Final(r), used[r]>>]
      /\ RunsInUse' = [r \in InUse' |-> <<First(r)', Final(r)', used'[r]>>]
  BY DEF RunsInUse, InUse, First, Final
<1>5. \A r \in InUse : First(r)' = First(r) /\ Final(r)' = Final(r) /\ used'[r] = used[r]
  BY <1>1 DEF InUse
<1>6. CASE s \notin Backed'
  <2>1. InUse' = InUse
    BY <1>1, <1>3, <1>6 DEF InUse
  <2>2. RunsInUse' = RunsInUse
    BY <1>4, <1>5, <2>1
  <2>. QED  BY <2>2
<1>7. CASE s \in Backed'
  <2>1. InUse' = InUse \cup {s} /\ s \notin InUse
    BY <1>1, <1>3, <1>7 DEF InUse
  <2>2. PICK first \in Pages, final \in Pages : first = First(s)' /\ final = Final(s)'
    BY <2>1 DEF RunsApart
  <2>3. PICK size \in Requests : size = used'[s] /\ size <= (final + 1 - first) * PAGE_SIZE
    BY <2>1, <2>2 DEF RunsApart
  <2>4. \A r \in InUse : (First(r) .. Final(r)) \cap (first .. final) = {}
    <3>1. \A r \in InUse : r \in InUse' /\ r # s
      BY <2>1
    <3>2. \A r \in InUse' : r # s => (First(r)' .. Final(r)') \cap (First(s)' .. Final(s)') = {}
      BY <2>1 DEF RunsApart
    <3>. QED  BY <1>5, <2>2, <3>1, <3>2
  <2>5. Heap!Reserve(s, first, final, size)
    <3>1. Heap!Held = InUse
      BY <1>4 DEF Heap!Held
    <3>2. \A r \in Heap!Held : Heap!PagesIn(RunsInUse[r]) \cap (first .. final) = {}
      BY <1>4, <2>4, <3>1 DEF Heap!PagesIn
    <3>3. RunsInUse' = [r \in Heap!Held \cup {s} |-> IF r = s THEN <<first, final, size>>
                                                      ELSE RunsInUse[r]]
      BY <1>4, <1>5, <2>1, <2>2, <2>3, <3>1
    <3>. QED  BY <2>3, <3>2, <3>3 DEF Heap!Reserve
  <2>6. s \in SpanIds \ Heap!Held
    BY <1>4, <2>1 DEF Heap!Held
  <2>. QED  BY <2>2, <2>3, <2>5, <2>6 DEF Heap!Next
<1>. QED  BY <1>6, <1>7

\* cmalloc_cache_span releases the run of the span, if it had one.
LEMMA TakesBackReleases ==
  ASSUME TypeOK, PoolInv, PoolInv', NEW s \in DOMAIN used, TakesBack(s)
  PROVE  [Heap!Next]_RunsInUse
<1>1. /\ DOMAIN used' = DOMAIN used \ {s}
      /\ \A r \in DOMAIN used' : /\ First(r)' = First(r) /\ Final(r)' = Final(r)
                                 /\ used'[r] = used[r]
  BY DEF TakesBack, First, Final
<1>2. DOMAIN used \subseteq Objects /\ DOMAIN used' \subseteq Objects'
  BY DEF PoolInv, MetaInv
<1>3. \A r \in DOMAIN used' : r \in Backed <=> r \in Backed'
  <2>1. \A r \in DOMAIN used' : span'[r].base = span[r].base
    BY DEF TakesBack
  <2>. QED  BY <1>1, <1>2, <2>1 DEF Backed
<1>4. /\ RunsInUse = [r \in InUse |-> <<First(r), Final(r), used[r]>>]
      /\ RunsInUse' = [r \in InUse' |-> <<First(r)', Final(r)', used'[r]>>]
  BY DEF RunsInUse, InUse, First, Final
<1>5. /\ InUse' = InUse \ {s}
      /\ \A r \in InUse' : /\ First(r)' = First(r) /\ Final(r)' = Final(r)
                           /\ used'[r] = used[r]
  BY <1>1, <1>3 DEF InUse
<1>6. CASE s \in Backed
  <2>1. Heap!Held = InUse /\ s \in Heap!Held
    BY <1>4, <1>6 DEF Heap!Held, InUse
  <2>2. RunsInUse' = [r \in Heap!Held \ {s} |-> RunsInUse[r]]
    BY <1>4, <1>5, <2>1
  <2>3. Heap!Release(s)
    BY <2>2 DEF Heap!Release
  <2>. QED  BY <2>1, <2>3 DEF Heap!Next
<1>7. CASE s \notin Backed
  <2>1. InUse' = InUse
    BY <1>5, <1>7 DEF InUse
  <2>2. RunsInUse' = RunsInUse
    BY <1>4, <1>5, <2>1
  <2>. QED  BY <2>2
<1>. QED  BY <1>6, <1>7


-----------------------------------------------------------------------------
(* The theorems                                                            *)

\* The three things a step can do to the spans in use.
LEMMA NextEffect ==
  ASSUME NoWrap, TypeOK, PoolInv, [Next]_vars
  PROVE  \/ UNCHANGED <<span, meta_next, meta_free, used>>
         \/ \E s \in SpanIds : Grants(s)
         \/ \E s \in DOMAIN used : TakesBack(s)
<1>1. ASSUME NEW size \in Requests, Alloc(size)
      PROVE  UNCHANGED <<span, meta_next, meta_free, used>> \/ Granted
  <2>1. CASE AllocDirect(size)
    BY <2>1, AllocDirectInv
  <2>2. CASE AllocDirectFails(size)
    BY <2>2, AllocDirectFailsInv
  <2>3. CASE AllocExact(size)
    BY <2>3, AllocExactInv
  <2>4. CASE AllocSplit(size)
    BY <2>4, AllocSplitInv
  <2>5. CASE AllocChunk(size)
    BY <2>5, AllocChunkInv
  <2>6. CASE AllocChunkFails(size)
    BY <2>6 DEF AllocChunkFails
  <2>. QED  BY <1>1, <2>1, <2>2, <2>3, <2>4, <2>5, <2>6 DEF Alloc
<1>2. ASSUME NEW s \in DOMAIN used, Cache(s) PROVE TakesBack(s)
  BY <1>2, CacheDirectInv, CacheBinnedInv DEF Cache
<1>3. CASE UNCHANGED vars
  BY <1>3 DEF vars
<1>. QED  BY <1>1, <1>2, <1>3 DEF Next, Granted

\* Whatever alloc_span and cmalloc_cache_span do, every variable keeps its type.
THEOREM SpecTypeOK == ASSUME NoWrap PROVE Spec => []TypeOK
  BY SpecPoolInv, PTL

\* cmalloc_map_range is called for exactly the pages and spans it should be:
\* cfree finds the span of every mapped page and of no other.
THEOREM SpecPageMapExact == ASSUME NoWrap PROVE Spec => []PageMapExact
  BY SpecPoolInv, PoolPageMap, PTL

\* Splits, reuse and frees lose no idle span and list none twice, and the
\* bitmap tells find_best_fitting_uninitialized_span the bins with a head.
THEOREM SpecPageBinsExact == ASSUME NoWrap PROVE Spec => []PageBinsExact
  BY SpecPoolInv, PoolPageBins, PTL

\* phys_next and phys_prev link the neighbours in a chunk, whatever a reused
\* span_t object was linked to before.
THEOREM SpecPhysLinksExact == ASSUME NoWrap PROVE Spec => []PhysLinksExact
<1>1. PoolInv => PhysLinksExact
  BY DEF PoolInv
<1>. QED  BY <1>1, SpecPoolInv, PTL

\* No span that alloc_span returns is shorter than the size asked for.
THEOREM SpecFitsRequest == ASSUME NoWrap PROVE Spec => []FitsRequest
<1>1. PoolInv => FitsRequest
  BY DEF PoolInv
<1>. QED  BY <1>1, SpecPoolInv, PTL

\* alloc_span takes the shortest idle span that is long enough, and maps
\* memory for a binnable request only when there is none.
THEOREM SpecBestFit == ASSUME NoWrap PROVE Spec => BestFit
<1>. DEFINE Best == \A s \in DOMAIN used' \ DOMAIN used :
                      span'[s].page_count < MAX_BINNED_PAGES =>
                        \A r \in Idle :
                          span[r].page_count >= span'[s].page_count =>
                            s \in Idle /\ span[s].page_count <= span[r].page_count
<1>1. TypeOK /\ PoolInv /\ [Next]_vars => [Best]_vars
  <2>. SUFFICES ASSUME TypeOK, PoolInv, [Next]_vars PROVE Best
    OBVIOUS
  <2>1. CASE UNCHANGED <<span, meta_next, meta_free, used>>
    BY <2>1
  <2>2. ASSUME NEW s \in SpanIds, Grants(s) PROVE Best
    BY <2>2 DEF Grants, TakesBest
  <2>3. ASSUME NEW s \in DOMAIN used, TakesBack(s) PROVE Best
    BY <2>3 DEF TakesBack
  <2>. QED  BY <2>1, <2>2, <2>3, NextEffect
<1>. QED  BY <1>1, SpecPoolInv, PTL DEF Spec, BestFit

\* The span layer implements PageHeap: the runs in use never overlap, whatever
\* mix of bins, splits, chunks and mappings they come from.
THEOREM SpecImplementsPageHeap == ASSUME NoWrap PROVE Spec => ImplementsPageHeap
<1>1. Init => Heap!Init
  <2>1. Init => RunsInUse = [s \in {} |-> <<0, 0, 0>>]
    BY DEF Init, RunsInUse
  <2>. QED  BY <2>1 DEF Heap!Init
<1>2. ASSUME TypeOK, PoolInv, TypeOK', PoolInv', RunsApart', [Next]_vars
      PROVE  [Heap!Next]_RunsInUse
  <2>1. CASE UNCHANGED <<span, meta_next, meta_free, used>>
    <3>1. Objects' = Objects
      BY <2>1 DEF Objects
    <3>2. Backed' = Backed
      BY <2>1, <3>1 DEF Backed
    <3>3. RunsInUse' = RunsInUse
      BY <2>1, <3>2 DEF RunsInUse
    <3>. QED  BY <3>3
  <2>2. ASSUME NEW s \in SpanIds, Grants(s) PROVE [Heap!Next]_RunsInUse
    BY <1>2, <2>2, GrantsReserve
  <2>3. ASSUME NEW s \in DOMAIN used, TakesBack(s) PROVE [Heap!Next]_RunsInUse
    BY <1>2, <2>3, TakesBackReleases
  <2>. QED  BY <1>2, <2>1, <2>2, <2>3, NextEffect
<1>. QED  BY <1>1, <1>2, PoolRunsApart, SpecPoolInv, PTL DEF Spec, ImplementsPageHeap, Heap!Spec
=============================================================================
